---------------------------- MODULE Installations ----------------------------
(***************************************************************************)
(* A GitHub App installation, its repositories, and how it gets into a     *)
(* workspace.                                                              *)
(*                                                                         *)
(* A member starts the setup from a workspace; GitHub sends the browser to *)
(* /setup, which leaves the workspace in a cookie, and after the           *)
(* authorisation to /callback, which binds the installation.  From then on *)
(* the rows follow GitHub in two ways: webhook events, which arrive in any *)
(* order and are ignored while nothing is bound, and synchronisations,     *)
(* which read the list of repositories and write it later.                 *)
(***************************************************************************)
EXTENDS Integers, Sequences, FiniteSets

CONSTANTS
    Workspaces,
    Repos,       \* repositories of the account
    Flows,       \* bound: attempts to set the installation up, all in one browser
    Tasks,       \* bound: synchronisations at the same time
    MaxRetries,  \* retries of a synchronisation
    MaxEvents    \* bound: events GitHub sends

VARIABLES
    orderly,   \* events arrive in order, and GitHub changes nothing between a read and its write
    bound, status, verified,   \* github_installations
    row,       \* github_repositories.status
    real, granted,   \* the installation and its repositories, at GitHub
    events,    \* events that were not handled yet
    sent,      \* how many events were sent
    flow, cookie,    \* the attempts to set up, and the cookie of the browser
    owner,     \* history: the attempt whose callback inserted the row
    sync,      \* the synchronisation tasks
    missed,    \* history: a synchronisation was given up
    revived    \* history: bound again while suspended

vars == <<orderly, bound, status, verified, row, real, granted, events, sent, flow, cookie, owner,
          sync, missed, revived>>

tables == <<bound, status, verified, row>>
github == <<real, granted, events, sent>>
setup == <<flow, cookie, owner>>

NoFlow == [at |-> "none"]
NoTask == [at |-> "none"]

Init ==
    /\ orderly \in BOOLEAN
    /\ bound = "none" /\ status = "none" /\ verified = FALSE
    /\ row = [r \in Repos |-> "none"]
    /\ real = "none" /\ granted = {} /\ events = <<>> /\ sent = 0
    /\ flow = [f \in Flows |-> NoFlow] /\ cookie = "none" /\ owner = "none"
    /\ sync = [t \in Tasks |-> NoTask] /\ missed = FALSE /\ revived = FALSE

-----------------------------------------------------------------------------
(* GitHub.                                                                 *)

\* Between what a callback or a synchronisation read and what it writes.
ReadSomething ==
    \/ \E f \in Flows : flow[f].at = "bind"
    \/ \E t \in Tasks : sync[t].at = "listed"

Sends(e) ==
    /\ sent < MaxEvents
    /\ orderly => ~ReadSomething
    /\ events' = Append(events, e)
    /\ sent' = sent + 1
    /\ UNCHANGED <<orderly, tables, setup, sync, missed, revived>>

Status(action) == [kind |-> "installation", action |-> action]

Install ==
    /\ real = "none"
    /\ real' = "active"
    /\ \E S \in SUBSET Repos : granted' = S
    /\ Sends(Status("created"))

Suspend == real = "active" /\ real' = "suspended" /\ Sends(Status("suspend")) /\ UNCHANGED granted

Unsuspend == real = "suspended" /\ real' = "active" /\ Sends(Status("unsuspend")) /\ UNCHANGED granted

Uninstall ==
    /\ real \in {"active", "suspended"}
    /\ real' = "gone" /\ granted' = {}
    /\ Sends(Status("deleted"))

Grant(r) ==
    /\ real = "active" /\ r \notin granted
    /\ granted' = granted \cup {r}
    /\ Sends([kind |-> "added", repo |-> r])
    /\ UNCHANGED real

Withdraw(r) ==
    /\ real = "active" /\ r \in granted
    /\ granted' = granted \ {r}
    /\ Sends([kind |-> "removed", repo |-> r])
    /\ UNCHANGED real

-----------------------------------------------------------------------------
(* Webhook events.                                                         *)

StatusAfter(action) ==
    IF action = "deleted" THEN "removed"
    ELSE IF action = "suspend" THEN "suspended"
    ELSE "active"

\* Fault: a repository that was removed stays so.
UpsertedOnce(old) == IF old = "none" THEN "active" ELSE old

Upserted(old) == "active"

MarkedRemoved(old) == IF old = "none" THEN "none" ELSE "removed"

\* An event of an installation that nobody bound is dropped.
Apply(e) ==
    IF bound = "none" THEN UNCHANGED <<status, row>>
    ELSE IF e.kind = "installation" THEN status' = StatusAfter(e.action) /\ UNCHANGED row
    ELSE /\ row' = [row EXCEPT ![e.repo] = IF e.kind = "added" THEN Upserted(@) ELSE MarkedRemoved(@)]
         /\ UNCHANGED status

Deliver(i) ==
    /\ orderly => i = 1
    /\ Apply(events[i])
    /\ events' = [j \in 1 .. Len(events) - 1 |-> events[IF j < i THEN j ELSE j + 1]]
    /\ UNCHANGED <<orderly, bound, verified, real, granted, sent, setup, sync, missed, revived>>

-----------------------------------------------------------------------------
(* Setup.                                                                  *)

Connect(f, w) ==
    /\ flow[f].at = "none"
    /\ flow' = [flow EXCEPT ![f] = [at |-> "connect", ws |-> w]]
    /\ UNCHANGED <<orderly, tables, github, cookie, owner, sync, missed, revived>>

\* The cookie of an earlier attempt is overwritten.
Setup(f) ==
    /\ flow[f].at = "connect"
    /\ real # "none"
    /\ flow' = [flow EXCEPT ![f].at = "setup"]
    /\ cookie' = f
    /\ UNCHANGED <<orderly, tables, github, owner, sync, missed, revived>>

\* A token expires, the user gives up or refuses.
Abandon(f) ==
    /\ flow[f].at \in {"connect", "setup"}
    /\ flow' = [flow EXCEPT ![f].at = "done"]
    /\ UNCHANGED <<orderly, tables, github, cookie, owner, sync, missed, revived>>

\* Fault: the nonce of the authorisation is not compared with that of the cookie.
MatchesAny(f) == cookie # "none"

\* The cookie is the one of this authorisation.
Matches(f) == cookie = f

\* The workspace is the one in the cookie; the cookie is gone either way.
Callback(f) ==
    /\ flow[f].at = "setup"
    /\ flow' = [flow EXCEPT ![f] =
          IF Matches(f) /\ real # "gone" THEN [at |-> "bind", ws |-> @.ws, to |-> flow[cookie].ws]
          ELSE [@ EXCEPT !.at = "done"]]
    /\ cookie' = "none"
    /\ UNCHANGED <<orderly, tables, github, owner, sync, missed, revived>>

Enqueue(t) == sync[t] = NoTask /\ sync' = [sync EXCEPT ![t] = [at |-> "queued", retries |-> 0]]

\* Serialised by the unique constraint on the installation.
MayBind(w) == bound \in {"none", w}

Bind(f) ==
    /\ flow[f].at = "bind"
    /\ LET w == flow[f].to
       IN  IF MayBind(w)
           THEN /\ bound' = w /\ status' = "active"
                /\ owner' = IF bound = w THEN owner ELSE f
                /\ revived' = (revived \/ real = "suspended")
                /\ \E t \in Tasks : Enqueue(t)
                /\ flow' = [flow EXCEPT ![f].at = "verify"]
           ELSE /\ UNCHANGED <<bound, status, owner, revived, sync>>
                /\ flow' = [flow EXCEPT ![f].at = "done"]
    /\ UNCHANGED <<orderly, verified, row, github, cookie, missed>>

\* Whether any repository is granted; GitHub may not answer.
Verify(f) ==
    /\ flow[f].at = "verify"
    /\ verified' \in {verified, granted # {}}
    /\ flow' = [flow EXCEPT ![f].at = "done"]
    /\ UNCHANGED <<orderly, bound, status, row, github, cookie, owner, sync, missed, revived>>

-----------------------------------------------------------------------------
(* Synchronisation.                                                        *)

\* The endpoint.
RequestSync ==
    /\ bound # "none"
    /\ \E t \in Tasks : Enqueue(t)
    /\ UNCHANGED <<orderly, tables, github, setup, missed, revived>>

List(t) ==
    /\ sync[t].at = "queued"
    /\ real = "active"
    /\ sync' = [sync EXCEPT ![t] = [at |-> "listed", retries |-> @.retries, list |-> granted]]
    /\ UNCHANGED <<orderly, tables, github, setup, missed, revived>>

Reconcile(t) ==
    /\ sync[t].at = "listed"
    /\ row' = [r \in Repos |->
          IF r \in sync[t].list THEN Upserted(row[r]) ELSE MarkedRemoved(row[r])]
    /\ sync' = [sync EXCEPT ![t] = NoTask]
    /\ UNCHANGED <<orderly, bound, status, verified, github, setup, missed, revived>>

FailSync(t) ==
    /\ sync[t].at \in {"queued", "listed"}
    /\ LET again == sync[t].retries < MaxRetries
       IN  /\ sync' = [sync EXCEPT ![t] =
                 IF again THEN [at |-> "queued", retries |-> @.retries + 1] ELSE NoTask]
           /\ missed' = (missed \/ ~again)
    /\ UNCHANGED <<orderly, tables, github, setup, revived>>

Next ==
    \/ Install \/ Suspend \/ Unsuspend \/ Uninstall
    \/ \E r \in Repos : Grant(r) \/ Withdraw(r)
    \/ \E i \in DOMAIN events : Deliver(i)
    \/ \E f \in Flows :
          \/ Setup(f) \/ Abandon(f) \/ Callback(f) \/ Bind(f) \/ Verify(f)
          \/ \E w \in Workspaces : Connect(f, w)
    \/ RequestSync
    \/ \E t \in Tasks : List(t) \/ Reconcile(t) \/ FailSync(t)

-----------------------------------------------------------------------------
(* Properties.                                                             *)

\* What the rows, GitHub and the tasks may hold.
TypeOK ==
    /\ bound \in Workspaces \cup {"none"}
    /\ status \in {"none", "active", "suspended", "removed"}
    /\ bound = "none" <=> status = "none"
    /\ verified \in BOOLEAN
    /\ row \in [Repos -> {"none", "active", "removed"}]
    /\ real \in {"none", "active", "suspended", "gone"}
    /\ granted \subseteq Repos
    /\ cookie \in Flows \cup {"none"} /\ owner \in Flows \cup {"none"}
    /\ \A t \in Tasks : sync[t] = NoTask \/ sync[t].retries \in 0 .. MaxRetries

\* bind_github_installation: when two workspaces set up one installation at once, the first
\* keeps it, whatever the other does and however often the events arrive.
BoundForGood == bound # "none" => bound' = bound

\* get_github_callback takes the workspace from the cookie and the authorisation from the
\* URL: with two attempts in one browser, an installation never ends up in the workspace of
\* the other attempt.
CallbackMatchesFlow == owner # "none" => flow[owner].ws = bound

Quiet == events = <<>> /\ \A t \in Tasks : sync[t] = NoTask

\* Webhooks and synchronisations write the same rows: once the events arrived in order and
\* the tasks ended, and none was given up, the active rows are the granted repositories,
\* those granted before the installation was bound included.
RepositoriesFollow ==
    orderly /\ Quiet /\ ~missed /\ bound # "none" /\ real # "gone" =>
        {r \in Repos : row[r] = "active"} = granted

\* The same for the installation itself; to bind it again makes it active whatever it was.
StatusFollows ==
    orderly /\ Quiet /\ bound # "none" /\ ~revived =>
        status = IF real = "gone" THEN "removed" ELSE real

=============================================================================
