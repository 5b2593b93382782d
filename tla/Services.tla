------------------------------ MODULE Services ------------------------------
(***************************************************************************)
(* The services around the pipeline: billing, installations, exports,      *)
(* accounts and the idempotency of requests.  They share no state, so a    *)
(* behaviour follows one of them (part) and leaves the others where they   *)
(* start.  The constants are those of the services.                        *)
(***************************************************************************)
EXTENDS Integers, FiniteSets

CONSTANTS
    Customers, Handlers, Checkouts, MaxEvents,
    Workspaces, Repos, Flows, Tasks, MaxSyncRetries,
    ExportRequests, Jobs, MaxExportRetries, MaxLost,
    Subs, Emails, BootEmail, Rows, Seed, AccountRequests, MaxHomes,
    Posts, Bodies

VARIABLES
    part,
    orderly, plan, limit, customer, deleted, checkout, subscription, event, recorded, handler, applied,
    bound, status, verified, row, real, granted, events, sent, flow, cookie, owner, sync, missed, revived,
    job, archive, request, task, lost,
    form, approval, overlap, user, session, call, approved, enabled,
    key, post, done, unreserved, lapsed

B == INSTANCE Billing

I == INSTANCE Installations WITH MaxRetries <- MaxSyncRetries

E == INSTANCE Exports WITH Requests <- ExportRequests, MaxRetries <- MaxExportRetries

A == INSTANCE Identity WITH Requests <- AccountRequests, request <- call

K == INSTANCE Idempotency

billing == <<plan, limit, customer, deleted, checkout, subscription, event, recorded, handler, applied>>

installations == <<bound, status, verified, row, real, granted, events, sent, flow, cookie, owner, sync,
                   missed, revived>>

exports == <<job, archive, request, task, lost>>

accounts == <<form, approval, overlap, user, session, call, approved, enabled>>

keys == <<key, post, done, unreserved, lapsed>>

vars == <<part, orderly, billing, installations, exports, accounts, keys>>

Init ==
    /\ part \in {"billing", "installations", "exports", "accounts", "keys"}
    /\ B!Init /\ I!Init /\ E!Init /\ A!Init /\ K!Init
    /\ part # "billing" /\ part # "installations" => orderly
    /\ part # "accounts" => form /\ approval /\ overlap
    /\ part # "keys" => \A p \in DOMAIN post : post[p].body = CHOOSE b \in Bodies : TRUE

Next ==
    \/ part = "billing" /\ B!Next /\ UNCHANGED <<part, orderly, installations, exports, accounts, keys>>
    \/ part = "installations" /\ I!Next /\ UNCHANGED <<part, orderly, billing, exports, accounts, keys>>
    \/ part = "exports" /\ E!Next /\ UNCHANGED <<part, orderly, billing, installations, accounts, keys>>
    \/ part = "accounts" /\ A!Next /\ UNCHANGED <<part, orderly, billing, installations, exports, keys>>
    \/ part = "keys" /\ K!Next /\ UNCHANGED <<part, orderly, billing, installations, exports, accounts>>

Spec == Init /\ [][Next]_vars

-----------------------------------------------------------------------------

\* The type invariant of the part that is followed.
TypeOK ==
    CASE part = "billing" -> B!TypeOK
      [] part = "installations" -> I!TypeOK
      [] part = "exports" -> E!TypeOK
      [] part = "accounts" -> A!TypeOK
      [] part = "keys" -> K!TypeOK

\* Billing: pro means unlimited, free means 25, whatever event wrote last.
PlanAndLimitAgree == B!PlanAndLimitAgree

\* Billing: an event changes the workspace at most once.
AppliedOnce == B!AppliedOnce

\* Billing: after the events in order, the workspace has the plan it pays for.
PlanFollows == B!PlanFollows

\* Installations: the first workspace to bind an installation keeps it.
BoundForGood == [][I!BoundForGood]_installations

\* Installations: two attempts in one browser are not mixed up.
CallbackMatchesFlow == I!CallbackMatchesFlow

\* Installations: once quiet, the active rows are the granted repositories.
RepositoriesFollow == I!RepositoriesFollow

\* Installations: once quiet, the row has the status of the installation.
StatusFollows == I!StatusFollows

\* Exports: the archive of a completed job is on disk.
DownloadHasArchive == E!DownloadHasArchive

\* Exports: an active job has a task that will end it.
BlockedOnlyByWork == E!BlockedOnlyByWork

\* Accounts: with approval required, nobody becomes active without one.
ApprovalHolds == A!ApprovalHolds

\* Accounts: an active user has a workspace.
ActiveHasHome == A!ActiveHasHome

\* Accounts: in turn, a user gets one workspace.
OneHome == A!OneHome

\* Accounts: in turn, the suspended and the rejected stay out.
StaysOut == [][A!StaysOutStep]_accounts

\* Idempotency: one request under a key takes effect.
TakesEffectOnce == K!TakesEffectOnce

\* Idempotency: a replayed response is that of the same request.
ReplayIsOwn == K!ReplayIsOwn

\* Idempotency: a stored response stays until it lapses.
StoredStays == [][K!StoredStaysStep]_keys

=============================================================================
