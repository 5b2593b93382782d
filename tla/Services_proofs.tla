-------------------------- MODULE Services_proofs --------------------------
(***************************************************************************)
(* Proofs about the services, for any values of their constants.  Each     *)
(* service has an inductive invariant of its own; a step of Services is a  *)
(* step of one of them and leaves the others alone, which is how the       *)
(* theorems at the end follow.                                             *)
(*                                                                         *)
(*   Exports:  only a task that has written the archive completes the job, *)
(*             and an active job has a task.                               *)
(*   Accounts: what a request is about to write, computed from a row that  *)
(*             may have changed since, makes nobody active whom an         *)
(*             approval would have to.                                     *)
(*   Keys:     mutual exclusion.  While nothing has lapsed and nobody was  *)
(*             let through without a reservation, one request has the key, *)
(*             from its reservation until it gives it back, or for good.   *)
(*   Billing:  the last event tells what the subscription is, and in order *)
(*             the plan is what the last applied event says.               *)
(*   Installations: the last event about a repository tells whether it is  *)
(*             granted; without one, and without a task that will write    *)
(*             the row, the row does.                                      *)
(***************************************************************************)
EXTENDS Services, Sequences, FiniteSetTheorems, TLAPS

-----------------------------------------------------------------------------
(* Exports.                                                                *)

\* What the arguments need of the types.
ExportsTyped ==
    /\ job \in [Jobs -> [status : {"none", "pending", "completed", "failed"}, key : BOOLEAN, expired : BOOLEAN]]
    /\ task \in [Jobs -> [at : {"none", "sending", "queued", "written", "failing"}, retries : Nat]]
    /\ lost \in Nat

\* Only a task that has written the archive completes the job.
WrittenIsOnDisk == \A j \in Jobs : task[j].at = "written" => j \in archive

ExportsInv == ExportsTyped /\ WrittenIsOnDisk /\ E!DownloadHasArchive /\ E!BlockedOnlyByWork

\* Trying a task again: it is queued with one retry less to go, or it is over.
LEMMA RetryFacts ==
    ASSUME ExportsTyped, NEW j \in Jobs, E!Retry(j)
    PROVE  /\ task' \in [Jobs -> [at : {"none", "sending", "queued", "written", "failing"}, retries : Nat]]
           /\ task'[j].at \in {"queued", "none"}
           /\ \A k \in Jobs \ {j} : task'[k] = task[k]
<1>1. CASE task[j].retries < MaxExportRetries
    <2>1. task' = [task EXCEPT ![j] = [at |-> "queued", retries |-> task[j].retries + 1]]
        BY <1>1 DEF E!Retry
    <2>2. task[j].retries + 1 \in Nat
        BY DEF ExportsTyped
    <2> QED BY <2>1, <2>2 DEF ExportsTyped
<1>2. CASE ~(task[j].retries < MaxExportRetries)
    <2>1. task' = [task EXCEPT ![j] = [task[j] EXCEPT !.at = "none"]]
        BY <1>2 DEF E!Retry
    <2> QED BY <2>1 DEF ExportsTyped
<1> QED BY <1>1, <1>2

\* No job, no archive, no task.
LEMMA ExportsInit == E!Init => ExportsInv
BY DEF E!Init, ExportsInv, ExportsTyped, WrittenIsOnDisk, E!DownloadHasArchive, E!BlockedOnlyByWork, E!NoJob, E!NoTask, E!Active

\* Every step keeps the invariant.
LEMMA ExportsStep ==
    ASSUME ExportsInv, [E!Next]_E!vars
    PROVE  ExportsInv'
<1> USE DEF ExportsInv, ExportsTyped, WrittenIsOnDisk, E!DownloadHasArchive, E!BlockedOnlyByWork, E!Active
<1>1. ASSUME NEW p \in ExportRequests, E!FindNoActive(p) PROVE ExportsInv'
    BY <1>1 DEF E!FindNoActive
<1>2. ASSUME NEW p \in ExportRequests, NEW j \in Jobs, E!InsertJob(p, j) PROVE ExportsInv'
    BY <1>2 DEF E!InsertJob, E!NoJob
<1>3. ASSUME NEW j \in Jobs, E!Send(j) PROVE ExportsInv'
    BY <1>3 DEF E!Send
<1>4. ASSUME NEW j \in Jobs, E!WriteArchive(j) PROVE ExportsInv'
    BY <1>4 DEF E!WriteArchive
<1>5. ASSUME NEW j \in Jobs, E!Complete(j) PROVE ExportsInv'
    BY <1>5 DEF E!Complete
<1>6. ASSUME NEW j \in Jobs, E!Fail(j) PROVE ExportsInv'
    BY <1>6 DEF E!Fail
<1>7. ASSUME NEW j \in Jobs, E!MarkFailed(j) PROVE ExportsInv'
    <2>1. /\ job' = [job EXCEPT ![j].status = "failed"]
          /\ UNCHANGED <<archive, lost>> /\ E!Retry(j)
        BY <1>7 DEF E!MarkFailed
    <2>2. ExportsTyped'
        BY <2>1, RetryFacts
    <2>3. WrittenIsOnDisk'
        BY <2>1, RetryFacts
    <2>4. E!DownloadHasArchive'
        BY <2>1
    <2>5. E!BlockedOnlyByWork'
        BY <2>1, RetryFacts
    <2> QED BY <2>2, <2>3, <2>4, <2>5
<1>8. ASSUME NEW j \in Jobs, E!LoseFailure(j) PROVE ExportsInv'
    <2>1. lost' = lost + 1 /\ UNCHANGED <<job, archive>> /\ E!Retry(j)
        BY <1>8 DEF E!LoseFailure
    <2>2. lost' \in Nat /\ lost' > 0
        BY <2>1
    <2>3. ExportsTyped'
        BY <2>1, <2>2, RetryFacts
    <2>4. WrittenIsOnDisk'
        BY <2>1, RetryFacts
    <2>5. E!DownloadHasArchive' /\ E!BlockedOnlyByWork'
        BY <2>1, <2>2
    <2> QED BY <2>3, <2>4, <2>5
<1>9. ASSUME NEW j \in Jobs, E!Lose(j) PROVE ExportsInv'
    BY <1>9 DEF E!Lose
<1>10. ASSUME NEW j \in Jobs, E!Expire(j) PROVE ExportsInv'
    BY <1>10 DEF E!Expire
<1>11. CASE UNCHANGED E!vars
    BY <1>11 DEF E!vars
<1> QED BY <1>1, <1>2, <1>3, <1>4, <1>5, <1>6, <1>7, <1>8, <1>9, <1>10, <1>11 DEF E!Next

-----------------------------------------------------------------------------
(* Accounts.                                                               *)

\* A row, without the bound on its workspaces.
Account == [status : A!Statuses, sub : Subs \cup {"placeholder", "gone"},
            email : Emails \cup {BootEmail, "anonymised"}, platform : BOOLEAN, homes : Int]

\* What a request writes to a row it read, with "same" for the columns it leaves; or a new row.
Updates == [row : Rows, status : A!Statuses \cup {"same"}, sub : Subs \cup {"placeholder", "gone", "same"},
            email : Emails \cup {BootEmail, "anonymised", "same"}, homes : Int, inserts : {FALSE},
            enables : BOOLEAN]

Inserted == [row : Rows, status : A!Statuses, sub : Subs \cup {"placeholder", "gone"},
             email : Emails \cup {BootEmail, "anonymised"}, homes : Int, inserts : {TRUE}, enables : BOOLEAN]

PendingWrite == Updates \cup Inserted

\* The types that the argument needs.
AccountsTyped ==
    /\ user \in [Rows -> Account \cup {A!NoUser}]
    /\ call \in [AccountRequests -> PendingWrite \cup {A!Idle}]

\* What a request is about to write makes nobody active whom an approval would have to:
\* it was computed from a row that may have changed, but not its platform flag.
Harmless(x) ==
    /\ ~x.inserts => x.row \in A!Known
    /\ approval /\ x.status = "active" => ~x.inserts /\ (x.enables \/ user[x.row].platform)

RequestsHarmless == \A p \in AccountRequests : call[p] # A!Idle => Harmless(call[p])

AccountsInv == AccountsTyped /\ RequestsHarmless /\ A!ApprovalHolds

\* A row keeps its kind.
RowsStay == \A r \in A!Known : r \in A!Known' /\ user'[r].platform = user[r].platform

-----------------------------------------------------------------------------
(* What an identity makes of a user.                                       *)

\* Whom approval concerns and who was not active becomes active by Keycloak's switch only.
Waits(kind, u, v) ==
    approval /\ v.status = "active" =>
        u.status = "active" \/ u.platform \/ (kind = "enable" /\ u.status = "suspended")

LEMMA AccountIsThere ==
  ASSUME NEW u \in Account
  PROVE  u # A!NoUser
  BY DEF Account, A!NoUser, A!Statuses

LEMMA KnownAccount ==
  ASSUME AccountsTyped, NEW r \in A!Known
  PROVE  r \in Rows /\ user[r] \in Account
  BY DEF AccountsTyped, A!Known

LEMMA ActivatedAccount ==
  ASSUME NEW u \in Account
  PROVE  A!Activated(u) \in Account /\ A!Activated(u).platform = u.platform
<1> DEFINE v == [u EXCEPT !.status = "active"]
<1>1. v \in Account /\ v.platform = u.platform
  BY DEF Account, A!Statuses
<1>2. A!Activated(u) = [v EXCEPT !.homes = v.homes + 1]
  BY DEF A!Activated
<1> HIDE DEF v
<1>3. [v EXCEPT !.homes = v.homes + 1] \in Account /\ [v EXCEPT !.homes = v.homes + 1].platform = v.platform
  BY <1>1 DEF Account
<1> QED BY <1>1, <1>2, <1>3

LEMMA AutoProvisionedAccount ==
  ASSUME NEW u \in Account, NEW isVerified
  PROVE  /\ A!AutoProvisioned(u, isVerified) \in Account
         /\ A!AutoProvisioned(u, isVerified).platform = u.platform
         /\ approval => A!AutoProvisioned(u, isVerified) = u
<1>1. A!AutoProvisioned(u, isVerified) \in {u, A!Activated(u)}
  BY Zenon DEF A!AutoProvisioned
<1>2. approval => A!AutoProvisioned(u, isVerified) = u
  <2>1. approval => ~A!AutoProvisions(isVerified)
    BY DEF A!AutoProvisions
  <2> QED BY <2>1, Zenon DEF A!AutoProvisioned
<1> QED BY <1>1, <1>2, ActivatedAccount

LEMMA ProvisionedWaits ==
  ASSUME NEW u \in Account, NEW c \in A!Claims
  PROVE  /\ A!Provisioned(u, c) \in Account
         /\ A!Provisioned(u, c).platform = u.platform
         /\ Waits("provision", u, A!Provisioned(u, c))
<1> DEFINE v == A!Synced(u, c)
           w == A!AutoProvisioned(v, c.verified)
<1>1. v \in Account /\ v.platform = u.platform
  BY DEF A!Synced, A!InitialStatus, Account, A!Claims, A!Statuses
<1>2. v.status = "active" => u.status = "active"
  BY DEF A!Synced, A!InitialStatus, Account, A!Claims
<1> HIDE DEF v
<1>3. w \in Account /\ w.platform = v.platform
  BY <1>1, AutoProvisionedAccount
<1>4. approval => w = v
  BY <1>1, AutoProvisionedAccount
<1> HIDE DEF w
<1>5. A!BootActivated(w, c.sub) \in Account /\ A!BootActivated(w, c.sub).platform = w.platform
  BY <1>3 DEF A!BootActivated, Account, A!Claims, A!Statuses
<1>6. ~w.platform => A!BootActivated(w, c.sub) = w
  BY DEF A!BootActivated
<1>7. A!Provisioned(u, c) = A!BootActivated(w, c.sub)
  BY DEF A!Provisioned, v, w
<1> QED BY <1>1, <1>2, <1>3, <1>4, <1>5, <1>6, <1>7 DEF Waits

LEMMA AppliedWaits ==
  ASSUME NEW u \in Account, NEW c \in A!Claims, NEW kind \in {"provision", "disable", "enable", "delete"}
  PROVE  /\ A!Applied(kind, u, c) \in Account
         /\ Waits(kind, u, A!Applied(kind, u, c))
<1>1. CASE kind = "provision"
  BY <1>1, ProvisionedWaits DEF A!Applied
<1>2. CASE kind = "disable"
  BY <1>2 DEF A!Applied, A!Disabled, Account, A!Statuses, Waits
<1>3. CASE kind = "enable"
  BY <1>3 DEF A!Applied, A!Enabled, Account, A!Statuses, Waits
<1>4. CASE kind = "delete"
  BY <1>4 DEF A!Applied, A!Removed, Account, A!Statuses, Waits
<1> QED BY <1>1, <1>2, <1>3, <1>4

LEMMA UpdateHarmless ==
  ASSUME NEW r \in A!Known, AccountsTyped, NEW v \in Account, NEW kind, Waits(kind, user[r], v)
  PROVE  A!Update(r, kind, user[r], v) \in PendingWrite /\ Harmless(A!Update(r, kind, user[r], v))
<1> DEFINE u == user[r]
           x == A!Update(r, kind, u, v)
<1>1. u \in Account /\ r \in Rows
  BY KnownAccount
<1>2. x \in PendingWrite /\ x.row = r /\ ~x.inserts
  BY <1>1 DEF A!Update, A!Column, PendingWrite, Updates, Account
<1>3. x.status = "active" => v.status = "active" /\ u.status # "active"
  BY <1>1 DEF A!Update, A!Column, Account
<1>4. x.enables <=> kind = "enable" /\ u.status = "suspended"
  BY DEF A!Update
<1> QED BY <1>2, <1>3, <1>4 DEF Harmless, Waits

LEMMA InsertHarmless ==
  ASSUME NEW r \in Rows, NEW c \in A!Claims, c.email # "none"
  PROVE  A!Insert(r, A!NewUser(c)) \in PendingWrite /\ Harmless(A!Insert(r, A!NewUser(c)))
<1> DEFINE n == [status |-> A!InitialStatus(c.verified), sub |-> c.sub, email |-> c.email,
                 platform |-> FALSE, homes |-> 0]
<1>1. n \in Account /\ n.status # "active"
  BY DEF A!InitialStatus, Account, A!Claims, A!Statuses
<1> HIDE DEF n
<1>2. A!NewUser(c) = A!AutoProvisioned(n, c.verified)
  BY DEF A!NewUser, n
<1>3. A!NewUser(c) \in Account
  BY <1>1, <1>2, AutoProvisionedAccount
<1>4. approval => A!NewUser(c).status # "active"
  BY <1>1, <1>2, AutoProvisionedAccount
<1> QED BY <1>3, <1>4 DEF A!Insert, PendingWrite, Inserted, Account, Harmless

-----------------------------------------------------------------------------
(* Steps.                                                                  *)

\* A request that is about to write x, or is done.
LEMMA RequestStep ==
  ASSUME AccountsInv, NEW p \in AccountRequests, NEW x \in PendingWrite \cup {A!Idle}, call' = [call EXCEPT ![p] = x],
         x # A!Idle => Harmless(x), UNCHANGED <<approval, user, approved, enabled>>
  PROVE  AccountsInv'
<1>1. call' \in [AccountRequests -> PendingWrite \cup {A!Idle}]
  BY DEF AccountsInv, AccountsTyped
<1>2. \A q \in AccountRequests : call'[q] = IF q = p THEN x ELSE call[q]
  BY DEF AccountsInv, AccountsTyped
<1>3. RequestsHarmless'
  BY <1>2 DEF AccountsInv, RequestsHarmless, Harmless, A!Known
<1> QED BY <1>1, <1>3 DEF AccountsInv, AccountsTyped, A!ApprovalHolds, A!Known

LEMMA ReadStep ==
  ASSUME AccountsInv, NEW p \in AccountRequests, A!Read(p)
  PROVE  AccountsInv'
<1>1. PICK kind \in {"provision", "disable", "enable", "delete"}, c \in A!Claims, r \in A!Known :
         call' = [call EXCEPT ![p] = A!Update(r, kind, user[r], A!Applied(kind, user[r], c))]
  BY DEF A!Read, A!Said
<1>2. /\ A!Update(r, kind, user[r], A!Applied(kind, user[r], c)) \in PendingWrite
      /\ Harmless(A!Update(r, kind, user[r], A!Applied(kind, user[r], c)))
  BY AppliedWaits, UpdateHarmless, KnownAccount DEF AccountsInv
<1>3. UNCHANGED <<approval, user, approved, enabled>>
  BY DEF A!Read
<1> QED BY <1>1, <1>2, <1>3, RequestStep

LEMMA ReadNewStep ==
  ASSUME AccountsInv, NEW p \in AccountRequests, A!ReadNew(p)
  PROVE  AccountsInv'
<1>1. PICK c \in A!Claims, r \in Rows :
         /\ c.email # "none"
         /\ IF r \in A!Known
            THEN /\ user[r].platform
                 /\ call' = [call EXCEPT ![p] = A!Update(r, "provision", user[r], A!BootActivated(user[r], c.sub))]
            ELSE call' = [call EXCEPT ![p] = A!Insert(r, A!NewUser(c))]
  BY DEF A!ReadNew
<1>2. UNCHANGED <<approval, user, approved, enabled>>
  BY DEF A!ReadNew
<1>3. CASE r \in A!Known
  <2>1. user[r] \in Account
    BY <1>3, KnownAccount DEF AccountsInv
  <2>2. A!BootActivated(user[r], c.sub) \in Account
    BY <2>1 DEF A!BootActivated, Account, A!Claims, A!Statuses
  <2>3. Waits("provision", user[r], A!BootActivated(user[r], c.sub))
    BY <1>1, <1>3 DEF Waits
  <2>4. /\ A!Update(r, "provision", user[r], A!BootActivated(user[r], c.sub)) \in PendingWrite
        /\ Harmless(A!Update(r, "provision", user[r], A!BootActivated(user[r], c.sub)))
    BY <1>3, <2>2, <2>3, UpdateHarmless DEF AccountsInv
  <2> QED BY <1>1, <1>2, <1>3, <2>4, RequestStep
<1>4. CASE r \notin A!Known
  BY <1>1, <1>2, <1>4, InsertHarmless, RequestStep
<1> QED BY <1>3, <1>4

\* A row becomes v: what is about to be written stays harmless.
LEMMA RowStep ==
  ASSUME AccountsInv, NEW r \in Rows, NEW v \in Account, user' = [user EXCEPT ![r] = v],
         r \in A!Known => v.platform = user[r].platform,
         approval /\ v.status = "active" => v.platform \/ r \in approved' \/ r \in enabled',
         approved \subseteq approved', enabled \subseteq enabled', UNCHANGED approval,
         call' \in [AccountRequests -> PendingWrite \cup {A!Idle}],
         \A q \in AccountRequests : call'[q] \in {call[q], A!Idle}
  PROVE  AccountsInv'
<1>1. user' \in [Rows -> Account \cup {A!NoUser}] /\ user'[r] = v
  BY DEF AccountsInv, AccountsTyped
<1>2. \A q \in Rows : q # r => user'[q] = user[q]
  BY DEF AccountsInv, AccountsTyped
<1>3. v # A!NoUser
  BY AccountIsThere
<1>4. RowsStay
  BY <1>1, <1>2, <1>3 DEF RowsStay, A!Known
<1>5. RequestsHarmless'
  <2> SUFFICES ASSUME NEW q \in AccountRequests, call'[q] # A!Idle
               PROVE  Harmless(call[q])'
    BY DEF RequestsHarmless
  <2>1. call'[q] = call[q] /\ Harmless(call[q])
    BY DEF AccountsInv, RequestsHarmless
  <2> QED BY <1>4, <2>1 DEF Harmless, RowsStay
<1>6. A!ApprovalHolds'
  BY <1>1, <1>2 DEF AccountsInv, A!ApprovalHolds, A!Known
<1> QED BY <1>1, <1>5, <1>6 DEF AccountsInv, AccountsTyped

LEMMA WriteStep ==
  ASSUME AccountsInv, NEW p \in AccountRequests, A!Write(p)
  PROVE  AccountsInv'
<1> DEFINE x == call[p]
           r == x.row
           v == A!Written(x)
<1>1. x \in PendingWrite /\ Harmless(x) /\ r \in Rows
  BY DEF AccountsInv, AccountsTyped, RequestsHarmless, A!Write, PendingWrite, Updates, Inserted
<1>2. /\ x.inserts => r \notin A!Known
      /\ user' = [user EXCEPT ![r] = v]
      /\ enabled' = IF x.enables THEN enabled \cup {r} ELSE enabled
      /\ UNCHANGED <<approval, approved>>
  BY DEF A!Write
<1>3. call' = [call EXCEPT ![p] = A!Idle]
  BY DEF A!Write
<1>4. /\ call' \in [AccountRequests -> PendingWrite \cup {A!Idle}]
      /\ \A q \in AccountRequests : call'[q] \in {call[q], A!Idle}
  BY <1>3 DEF AccountsInv, AccountsTyped
<1>5. CASE x.inserts
  <2>1. x \in Inserted
    BY <1>1, <1>5 DEF PendingWrite, Updates
  <2>2. v \in Account
    BY <1>5, <2>1 DEF A!Written, Inserted, Account
  <2>3. approval => v.status # "active"
    BY <1>1, <1>5 DEF A!Written, Harmless
  <2> HIDE DEF x, v
  <2> QED BY <1>1, <1>2, <1>4, <1>5, <2>2, <2>3, RowStep
<1>6. CASE ~x.inserts
  <2>1. x \in Updates /\ r \in A!Known
    BY <1>1, <1>6 DEF PendingWrite, Inserted, Harmless
  <2>2. user[r] \in Account
    BY <2>1, KnownAccount DEF AccountsInv
  <2>3. v \in Account /\ v.platform = user[r].platform /\ v.status \in {x.status, user[r].status}
    <3> DEFINE st == IF x.status = "same" THEN user[r].status ELSE x.status
               su == IF x.sub = "same" THEN user[r].sub ELSE x.sub
               em == IF x.email = "same" THEN user[r].email ELSE x.email
    <3>1. v = [status |-> st, sub |-> su, email |-> em, platform |-> user[r].platform,
               homes |-> user[r].homes + x.homes]
      BY <1>6 DEF A!Written
    <3>2. st \in A!Statuses /\ st \in {x.status, user[r].status}
      BY <2>1, <2>2 DEF Updates, Account
    <3>3. su \in Subs \cup {"placeholder", "gone"}
      BY <2>1, <2>2 DEF Updates, Account
    <3>4. em \in Emails \cup {BootEmail, "anonymised"}
      BY <2>1, <2>2 DEF Updates, Account
    <3>5. user[r].platform \in BOOLEAN /\ user[r].homes + x.homes \in Int
      <4>1. user[r].platform \in BOOLEAN /\ user[r].homes \in Int
        BY <2>2 DEF Account
      <4>2. x.homes \in Int
        BY <2>1 DEF Updates
      <4> HIDE DEF x
      <4> QED BY <4>1, <4>2
    <3> HIDE DEF st, su, em, v
    <3> QED BY <3>1, <3>2, <3>3, <3>4, <3>5 DEF Account
  <2>4. approval /\ v.status = "active" => v.platform \/ r \in approved \/ r \in enabled'
    BY <1>1, <1>2, <2>1, <2>3 DEF Harmless, AccountsInv, A!ApprovalHolds
  <2> HIDE DEF x, v
  <2> QED BY <1>1, <1>2, <1>4, <2>3, <2>4, RowStep
<1> QED BY <1>5, <1>6

\* A profile, an approval, a refusal, the end of an account.
LEMMA FormStep ==
  ASSUME AccountsInv, NEW r \in Rows, A!CompleteProfile(r) \/ A!Approve(r) \/ A!Reject(r) \/ A!DeleteAccount(r)
  PROVE  AccountsInv'
<1>1. r \in A!Known /\ user[r] \in Account
  BY KnownAccount DEF AccountsInv, A!CompleteProfile, A!Approve, A!Reject, A!DeleteAccount
<1>2. /\ call' \in [AccountRequests -> PendingWrite \cup {A!Idle}]
      /\ \A q \in AccountRequests : call'[q] \in {call[q], A!Idle}
      /\ UNCHANGED <<approval, enabled>>
  BY DEF AccountsInv, AccountsTyped, A!CompleteProfile, A!Approve, A!Reject, A!DeleteAccount
<1>3. CASE A!CompleteProfile(r)
  <2> DEFINE v == IF approval THEN [user[r] EXCEPT !.status = "pending_approval"] ELSE A!Activated(user[r])
  <2>1. v \in Account /\ v.platform = user[r].platform /\ (approval => v.status # "active")
    BY <1>1, ActivatedAccount DEF Account, A!Statuses
  <2>2. user' = [user EXCEPT ![r] = v] /\ approved' = approved
    BY <1>3 DEF A!CompleteProfile
  <2> HIDE DEF v
  <2> QED BY <1>2, <2>1, <2>2, RowStep
<1>4. CASE A!Approve(r)
  <2>1. user' = [user EXCEPT ![r] = A!Activated(user[r])] /\ approved' = approved \cup {r}
    BY <1>4 DEF A!Approve
  <2> QED BY <1>1, <1>2, <2>1, ActivatedAccount, RowStep
<1>5. CASE A!Reject(r)
  <2> DEFINE v == [user[r] EXCEPT !.status = "rejected"]
  <2>1. v \in Account /\ v.platform = user[r].platform /\ v.status # "active"
    BY <1>1 DEF Account, A!Statuses
  <2>2. user' = [user EXCEPT ![r] = v] /\ approved' = approved
    BY <1>5 DEF A!Reject
  <2> HIDE DEF v
  <2> QED BY <1>2, <2>1, <2>2, RowStep
<1>6. CASE A!DeleteAccount(r)
  <2> DEFINE w == [user[r] EXCEPT !.status = "deleted"]
             v == [w EXCEPT !.email = "anonymised"]
  <2>0. w \in Account /\ w.platform = user[r].platform /\ w.status # "active"
    BY <1>1 DEF Account, A!Statuses
  <2>1. v \in Account /\ v.platform = user[r].platform /\ v.status # "active"
    BY <2>0 DEF Account
  <2>2. user' = [user EXCEPT ![r] = v] /\ approved' = approved
    <3>1. user \in [Rows -> Account \cup {A!NoUser}] /\ approved' = approved
      BY <1>6 DEF AccountsInv, AccountsTyped, A!DeleteAccount
    <3>2. user' = [user EXCEPT ![r].status = "deleted", ![r].email = "anonymised"]
      BY <1>6 DEF A!DeleteAccount
    <3>3. user' = [user EXCEPT ![r] = v]
      BY <3>1, <3>2
    <3> QED BY <3>1, <3>3
  <2> HIDE DEF v
  <2> QED BY <1>2, <2>1, <2>2, RowStep
<1> QED BY <1>3, <1>4, <1>5, <1>6

-----------------------------------------------------------------------------

LEMMA AccountsInit == A!Init => AccountsInv
<1> SUFFICES ASSUME A!Init PROVE AccountsInv
  OBVIOUS
<1>1. A!SeededUser \in Account
  BY DEF A!SeededUser, Account, A!Statuses
<1>2. AccountsTyped
  BY <1>1 DEF A!Init, AccountsTyped
<1>3. \A r \in A!Known : r \in Rows /\ user[r].status # "active"
  BY DEF A!Init, A!Known, A!SeededUser
<1>4. RequestsHarmless
  BY DEF A!Init, RequestsHarmless
<1> QED BY <1>2, <1>3, <1>4 DEF AccountsInv, A!ApprovalHolds

LEMMA AccountsStep == AccountsInv /\ [A!Next]_A!vars => AccountsInv'
<1> SUFFICES ASSUME AccountsInv, [A!Next]_A!vars PROVE AccountsInv'
  OBVIOUS
<1>1. ASSUME NEW p \in AccountRequests, A!Fail(p) PROVE AccountsInv'
  BY <1>1, RequestStep DEF A!Fail
<1>2. ASSUME UNCHANGED <<approval, user, call, approved, enabled>> PROVE AccountsInv'
  BY <1>2 DEF AccountsInv, AccountsTyped, RequestsHarmless, Harmless, A!ApprovalHolds, A!Known
<1>3. ASSUME NEW r \in Rows, A!StartImpersonation(r) PROVE AccountsInv'
  BY <1>2, <1>3 DEF A!StartImpersonation
<1>4. CASE A!StopImpersonation
  BY <1>2, <1>4 DEF A!StopImpersonation
<1>5. CASE UNCHANGED A!vars
  BY <1>2, <1>5 DEF A!vars
<1> QED BY <1>1, <1>3, <1>4, <1>5, ReadStep, ReadNewStep, WriteStep, FormStep DEF A!Next

-----------------------------------------------------------------------------
(* Keys.                                                                   *)

Untried == {"run", "release", "delete", "crashed"}

\* A request that has reserved the key and not given it back, or has taken effect.
HoldsKey(p) == post[p].at \in Untried \cup {"store"} \/ p \in done

AsReserved == ~lapsed /\ unreserved = {}

OneHolder == \A p, q \in Posts : HoldsKey(p) /\ HoldsKey(q) => p = q

FreeIsUnheld == key = K!Nothing => \A p \in Posts : ~HoldsKey(p)

StoredIsOver == key.kind = "stored" => \A p \in Posts : post[p].at \notin {"run", "store", "release", "delete"}

UntriedNotDone == \A p \in Posts : post[p].at \in Untried => p \notin done

StoreIsDone == \A p \in Posts : K!At(p, "store") => p \in done

StoredIsDone == key.kind = "stored" => key.of \in done /\ post[key.of].body = key.body

KeyRecords == K!TypeOK /\ StoreIsDone /\ StoredIsDone /\ K!ReplayIsOwn

Exclusion == AsReserved => OneHolder /\ FreeIsUnheld /\ StoredIsOver /\ UntriedNotDone

KeysInv == KeyRecords /\ Exclusion

-----------------------------------------------------------------------------
(* One request moves.                                                      *)

\* A request that goes somewhere keeps its body and its answer, and the others stay.
LEMMA GoesFacts ==
    ASSUME K!TypeOK, NEW p \in Posts, NEW at \in K!Places, K!Goes(p, at)
    PROVE  /\ post' \in [Posts -> [at : K!Places, body : Bodies, of : Posts \cup {"none"}]]
           /\ post'[p].at = at
           /\ \A q \in Posts : post'[q].body = post[q].body /\ post'[q].of = post[q].of
           /\ \A q \in Posts \ {p} : post'[q] = post[q]
BY DEF K!TypeOK, K!Goes

\* What is stored names a request.
LEMMA StoredKey ==
    ASSUME K!TypeOK, key.kind = "stored"
    PROVE  key.of \in Posts
<1>1. CASE key = K!Nothing
    BY <1>1 DEF K!Nothing
<1>2. CASE key \in [kind : {"in flight"}, body : Bodies]
    BY <1>2
<1>3. CASE key \in [kind : {"stored"}, body : Bodies, of : Posts]
    BY <1>3
<1> QED BY <1>1, <1>2, <1>3 DEF K!TypeOK

\* A request that moves does not take back what the replayed ones rest on.
LEMMA ReplayKept ==
    ASSUME K!TypeOK, K!ReplayIsOwn, done \subseteq done',
           \A q \in Posts : post'[q].body = post[q].body,
           \A q \in Posts : post'[q].at = "replayed" => post'[q].of = post[q].of /\ post[q].at = "replayed"
    PROVE  K!ReplayIsOwn'
<1> SUFFICES ASSUME NEW q \in Posts, post'[q].at = "replayed"
             PROVE  post'[q].of \in done' /\ post'[post'[q].of].body = post'[q].body
    BY DEF K!ReplayIsOwn, K!At
<1>1. post'[q].of = post[q].of /\ post[q].of \in done /\ post[post[q].of].body = post[q].body
    BY DEF K!ReplayIsOwn, K!At
<1>2. post[q].of \in Posts
    BY <1>1 DEF K!TypeOK
<1> QED BY <1>1, <1>2

\* An answer takes the request to an end, and a replayed one is that of the stored response.
LEMMA AnswerFacts ==
    ASSUME K!TypeOK, NEW p \in Posts, K!Answer(p)
    PROVE  /\ post' \in [Posts -> [at : K!Places, body : Bodies, of : Posts \cup {"none"}]]
           /\ \A q \in Posts : post'[q].body = post[q].body
           /\ \A q \in Posts \ {p} : post'[q] = post[q]
           /\ \/ post'[p].at = "conflict"
              \/ /\ post'[p].at = "replayed" /\ key.kind = "stored"
                 /\ key.body = post[p].body /\ post'[p].of = key.of
<1>1. CASE K!HasResponse(p)
    <2>1. post' = [post EXCEPT ![p].at = "replayed", ![p].of = key.of]
        BY <1>1 DEF K!Answer
    <2>2. key.of \in Posts
        BY <1>1, StoredKey DEF K!HasResponse
    <2> QED BY <1>1, <2>1, <2>2 DEF K!TypeOK, K!Places, K!HasResponse
<1>2. CASE ~K!HasResponse(p)
    <2>1. K!Goes(p, "conflict")
        BY <1>2 DEF K!Answer
    <2> QED BY <2>1, GoesFacts DEF K!Places
<1> QED BY <1>1, <1>2

-----------------------------------------------------------------------------
(* The records: what is stored and replayed is of a request that took      *)
(* effect.  No exclusion is needed for this.                               *)

\* The records hold when the requests only move, bodies and answers kept.
LEMMA MoveKeepsRecords ==
    ASSUME KeyRecords, NEW p \in Posts, NEW at \in K!Places \ {"store", "replayed"}, K!Goes(p, at),
           UNCHANGED <<key, done, lapsed>>, unreserved' \subseteq Posts
    PROVE  KeyRecords'
<1> USE DEF KeyRecords
<1>1. K!TypeOK'
    BY GoesFacts DEF K!TypeOK
<1>2. StoreIsDone'
    BY GoesFacts DEF StoreIsDone, K!At
<1>3. StoredIsDone'
    BY GoesFacts DEF StoredIsDone, K!TypeOK, K!Nothing
<1>4. K!ReplayIsOwn'
    BY GoesFacts, ReplayKept DEF K!TypeOK
<1> QED BY <1>1, <1>2, <1>3, <1>4

\* So they do when a request is answered from the key.
LEMMA AnswerKeepsRecords ==
    ASSUME KeyRecords, NEW p \in Posts, K!Answer(p), UNCHANGED <<key, done, unreserved, lapsed>>
    PROVE  KeyRecords'
<1> USE DEF KeyRecords
<1>1. K!TypeOK'
    BY AnswerFacts DEF K!TypeOK
<1>2. StoreIsDone'
    BY AnswerFacts DEF StoreIsDone, K!At
<1>3. StoredIsDone'
    BY AnswerFacts DEF StoredIsDone, K!TypeOK, K!Nothing
<1>4. K!ReplayIsOwn'
    <2>1. CASE post'[p].at = "conflict"
        BY <2>1, AnswerFacts, ReplayKept DEF K!TypeOK
    <2>2. CASE post'[p].at # "conflict"
        <3>1. post'[p].of = key.of /\ key.kind = "stored" /\ key.body = post[p].body
            BY <2>2, AnswerFacts
        <3>2. key.of \in done /\ post[key.of].body = key.body /\ key.of \in Posts
            BY <3>1, StoredKey DEF StoredIsDone
        <3> SUFFICES ASSUME NEW q \in Posts, post'[q].at = "replayed"
                     PROVE  post'[q].of \in done' /\ post'[post'[q].of].body = post'[q].body
            BY DEF K!ReplayIsOwn, K!At
        <3>3. CASE q = p
            BY <3>1, <3>2, <3>3, AnswerFacts
        <3>4. CASE q # p
            <4>1. post'[q] = post[q]
                BY <3>4, AnswerFacts
            <4>2. post[q].of \in done /\ post[post[q].of].body = post[q].body
                BY <4>1 DEF K!ReplayIsOwn, K!At
            <4>3. post[q].of \in Posts
                BY <4>2 DEF K!TypeOK
            <4> QED BY <4>1, <4>2, <4>3, AnswerFacts
        <3> QED BY <3>3, <3>4
    <2> QED BY <2>1, <2>2
<1> QED BY <1>1, <1>2, <1>3, <1>4

\* Every step keeps the records.
LEMMA RecordsInductive ==
    ASSUME KeyRecords, [K!Next]_K!vars
    PROVE  KeyRecords'
<1> USE DEF KeyRecords
<1>1. ASSUME NEW p \in Posts, K!Look(p) PROVE KeyRecords'
    <2>1. CASE key = K!Nothing
        BY <1>1, <2>1, MoveKeepsRecords DEF K!Look, K!Places, K!TypeOK
    <2>2. CASE key # K!Nothing
        BY <1>1, <2>2, AnswerKeepsRecords DEF K!Look
    <2> QED BY <2>1, <2>2
<1>2. ASSUME NEW p \in Posts, K!Reserve(p) PROVE KeyRecords'
    <2>1. CASE K!Free
        <3>1. K!Goes(p, "run") /\ key' = [kind |-> "in flight", body |-> post[p].body]
            BY <1>2, <2>1 DEF K!Reserve
        <3>2. UNCHANGED <<done, unreserved, lapsed>>
            BY <1>2 DEF K!Reserve
        <3> HIDE DEF KeyRecords
        <3>3. K!TypeOK'
            BY <3>1, <3>2, GoesFacts DEF K!TypeOK, KeyRecords, K!Places
        <3>4. StoreIsDone'
            BY <3>1, <3>2, GoesFacts DEF StoreIsDone, K!At, KeyRecords, K!Places
        <3>5. StoredIsDone'
            BY <3>1 DEF StoredIsDone
        <3>6. K!ReplayIsOwn'
            BY <3>1, <3>2, GoesFacts, ReplayKept DEF K!TypeOK, KeyRecords, K!Places
        <3> QED BY <3>3, <3>4, <3>5, <3>6 DEF KeyRecords
    <2>2. CASE ~K!Free
        BY <1>2, <2>2, MoveKeepsRecords DEF K!Reserve, K!Places, K!TypeOK
    <2> QED BY <2>1, <2>2
<1>3. ASSUME NEW p \in Posts, K!Poll(p) PROVE KeyRecords'
    <2>1. CASE key = K!Nothing
        <3>1. K!Goes(p, "run") /\ unreserved' = unreserved \cup {p} /\ UNCHANGED <<key, done, lapsed>>
            BY <1>3, <2>1 DEF K!Poll
        <3> QED BY <3>1, MoveKeepsRecords DEF K!Places, K!TypeOK
    <2>2. CASE key # K!Nothing
        BY <1>3, <2>2, AnswerKeepsRecords DEF K!Poll
    <2> QED BY <2>1, <2>2
<1>4. ASSUME NEW p \in Posts, K!Succeed(p) PROVE KeyRecords'
    <2>1. K!Goes(p, "store") /\ done' = done \cup {p} /\ UNCHANGED <<key, unreserved, lapsed>>
        BY <1>4 DEF K!Succeed
    <2> HIDE DEF KeyRecords
    <2>2. K!TypeOK'
        BY <2>1, GoesFacts DEF K!TypeOK, KeyRecords, K!Places
    <2>3. StoreIsDone'
        BY <2>1, GoesFacts DEF StoreIsDone, K!At, KeyRecords, K!Places
    <2>4. StoredIsDone'
        BY <2>1, GoesFacts DEF StoredIsDone, K!TypeOK, K!Nothing, KeyRecords, K!Places
    <2>5. K!ReplayIsOwn'
        BY <2>1, GoesFacts, ReplayKept DEF K!TypeOK, KeyRecords, K!Places
    <2> QED BY <2>2, <2>3, <2>4, <2>5 DEF KeyRecords
<1>5. ASSUME NEW p \in Posts, K!Error(p) PROVE KeyRecords'
    <2>1. PICK at \in {"release", "crashed"} : K!Goes(p, at)
        BY <1>5 DEF K!Error
    <2> QED BY <1>5, <2>1, MoveKeepsRecords DEF K!Error, K!Places, K!TypeOK
<1>6. ASSUME NEW p \in Posts, K!Store(p) PROVE KeyRecords'
    <2>1. /\ K!Goes(p, "answered") /\ K!At(p, "store") /\ UNCHANGED <<done, unreserved, lapsed>>
          /\ key' = [kind |-> "stored", body |-> post[p].body, of |-> p]
        BY <1>6 DEF K!Store
    <2> HIDE DEF KeyRecords
    <2>2. K!TypeOK'
        BY <2>1, GoesFacts DEF K!TypeOK, KeyRecords, K!Places
    <2>3. StoreIsDone'
        BY <2>1, GoesFacts DEF StoreIsDone, K!At, KeyRecords, K!Places
    <2>4. StoredIsDone'
        BY <2>1, GoesFacts DEF StoredIsDone, StoreIsDone, KeyRecords, K!Places
    <2>5. K!ReplayIsOwn'
        BY <2>1, GoesFacts, ReplayKept DEF K!TypeOK, KeyRecords, K!Places
    <2> QED BY <2>2, <2>3, <2>4, <2>5 DEF KeyRecords
<1>7. ASSUME NEW p \in Posts, K!Release(p) PROVE KeyRecords'
    <2>1. PICK at \in {"delete", "answered"} : K!Goes(p, at)
        BY <1>7 DEF K!Release
    <2> QED BY <1>7, <2>1, MoveKeepsRecords DEF K!Release, K!Places, K!TypeOK
<1>8. ASSUME NEW p \in Posts, K!Delete(p) PROVE KeyRecords'
    <2>1. K!Goes(p, "answered") /\ key' = K!Nothing /\ UNCHANGED <<done, unreserved, lapsed>>
        BY <1>8 DEF K!Delete
    <2> HIDE DEF KeyRecords
    <2>2. K!TypeOK'
        BY <2>1, GoesFacts DEF K!TypeOK, KeyRecords, K!Places
    <2>3. StoreIsDone'
        BY <2>1, GoesFacts DEF StoreIsDone, K!At, KeyRecords, K!Places
    <2>4. StoredIsDone'
        BY <2>1 DEF StoredIsDone, K!Nothing
    <2>5. K!ReplayIsOwn'
        BY <2>1, GoesFacts, ReplayKept DEF K!TypeOK, KeyRecords, K!Places
    <2> QED BY <2>2, <2>3, <2>4, <2>5 DEF KeyRecords
<1>9. CASE K!Lapse
    BY <1>9 DEF K!Lapse, K!TypeOK, StoreIsDone, StoredIsDone, K!ReplayIsOwn, K!At, K!Nothing
<1>10. CASE UNCHANGED K!vars
    BY <1>10 DEF K!vars, K!TypeOK, StoreIsDone, StoredIsDone, K!ReplayIsOwn, K!At, K!Nothing
<1> QED BY <1>1, <1>2, <1>3, <1>4, <1>5, <1>6, <1>7, <1>8, <1>9, <1>10 DEF K!Next

-----------------------------------------------------------------------------
(* The exclusion.                                                          *)

\* A request that takes nothing, and neither stores nor frees the key, keeps the exclusion.
LEMMA LeavingKeepsExclusion ==
    ASSUME KeyRecords, AsReserved, Exclusion, NEW p \in Posts,
           \A q \in Posts \ {p} : post'[q] = post[q],
           post'[p].at \notin {"run", "store"},
           post'[p].at \in Untried => post[p].at \in Untried,
           post'[p].at \in {"release", "delete"} => post[p].at \in {"run", "release"},
           UNCHANGED <<key, done>>
    PROVE  Exclusion'
<1>1. \A q \in Posts : HoldsKey(q)' => HoldsKey(q)
    BY DEF HoldsKey, Untried
<1>2. OneHolder'
    BY <1>1 DEF OneHolder, Exclusion
<1>3. FreeIsUnheld'
    BY <1>1 DEF FreeIsUnheld, Exclusion
<1>4. StoredIsOver'
    BY DEF StoredIsOver, Exclusion
<1>5. UntriedNotDone'
    BY DEF UntriedNotDone, Exclusion
<1> QED BY <1>2, <1>3, <1>4, <1>5 DEF Exclusion

\* So does a request that is answered from the key.
LEMMA AnswerKeepsExclusion ==
    ASSUME KeyRecords, AsReserved, Exclusion, NEW p \in Posts, K!Answer(p), UNCHANGED <<key, done>>
    PROVE  Exclusion'
<1>1. post'[p].at \in {"conflict", "replayed"} /\ \A q \in Posts \ {p} : post'[q] = post[q]
    BY AnswerFacts DEF KeyRecords
<1> QED BY <1>1, LeavingKeepsExclusion DEF Untried

\* Reserving: the key was free, so nobody held it.
LEMMA ReserveKeepsExclusion ==
    ASSUME KeyRecords, AsReserved, Exclusion, NEW p \in Posts, K!Reserve(p)
    PROVE  Exclusion'
<1>1. CASE key = K!Nothing
    <2>1. K!Goes(p, "run") /\ key' = [kind |-> "in flight", body |-> post[p].body] /\ done' = done
        BY <1>1 DEF K!Reserve, K!Free
    <2>2. \A q \in Posts : ~HoldsKey(q)
        BY <1>1 DEF FreeIsUnheld, Exclusion
    <2>3. post'[p].at = "run" /\ \A q \in Posts \ {p} : post'[q] = post[q]
        BY <2>1, GoesFacts DEF KeyRecords, K!Places
    <2>4. \A q \in Posts : HoldsKey(q)' <=> q = p
        BY <2>1, <2>2, <2>3 DEF HoldsKey, Untried
    <2>5. OneHolder'
        BY <2>4 DEF OneHolder
    <2>6. key'.kind # "nothing" /\ key'.kind # "stored"
        BY <2>1
    <2>7. FreeIsUnheld' /\ StoredIsOver'
        BY <2>6 DEF FreeIsUnheld, StoredIsOver, K!Nothing
    <2>8. UntriedNotDone'
        BY <2>1, <2>2 DEF UntriedNotDone, HoldsKey
    <2> QED BY <2>5, <2>7, <2>8 DEF Exclusion
<1>2. CASE key # K!Nothing
    <2>1. K!Goes(p, "poll") /\ UNCHANGED <<key, done>>
        BY <1>2 DEF K!Reserve, K!Free
    <2>2. post'[p].at = "poll" /\ \A q \in Posts \ {p} : post'[q] = post[q]
        BY <2>1, GoesFacts DEF KeyRecords, K!Places
    <2> QED BY <2>1, <2>2, LeavingKeepsExclusion DEF Untried
<1> QED BY <1>1, <1>2

\* Taking effect and storing: by the request that has the key.
LEMMA FinishingKeepsExclusion ==
    ASSUME KeyRecords, AsReserved, Exclusion, NEW p \in Posts, K!Succeed(p) \/ K!Store(p)
    PROVE  Exclusion'
<1>1. HoldsKey(p) /\ OneHolder
    BY DEF K!Succeed, K!Store, K!At, HoldsKey, Untried, Exclusion
<1>2. \A q \in Posts \ {p} : ~HoldsKey(q)
    BY <1>1 DEF OneHolder
<1>3. \A q \in Posts \ {p} : post'[q] = post[q]
    BY GoesFacts DEF K!Succeed, K!Store, KeyRecords, K!Places
<1>4. \A q \in Posts \ {p} : q \in done' => q \in done
    BY DEF K!Succeed, K!Store
<1>5. \A q \in Posts : HoldsKey(q)' => q = p
    BY <1>2, <1>3, <1>4 DEF HoldsKey
<1>6. OneHolder'
    BY <1>5 DEF OneHolder
<1>7. CASE K!Succeed(p)
    <2>1. post'[p].at = "store" /\ key' = key /\ K!At(p, "run")
        BY <1>7, GoesFacts DEF K!Succeed, KeyRecords, K!Places
    <2>2. key # K!Nothing /\ key.kind # "stored"
        BY <1>1, <2>1 DEF Exclusion, FreeIsUnheld, StoredIsOver, K!At
    <2>3. UntriedNotDone'
        BY <1>2, <1>3, <1>4, <2>1 DEF UntriedNotDone, HoldsKey, Untried
    <2> QED BY <1>6, <2>1, <2>2, <2>3 DEF Exclusion, FreeIsUnheld, StoredIsOver
<1>8. CASE K!Store(p)
    <2>1. post'[p].at = "answered" /\ key'.kind = "stored"
        BY <1>8, GoesFacts DEF K!Store, KeyRecords, K!Places
    <2>2. FreeIsUnheld'
        BY <2>1 DEF FreeIsUnheld, K!Nothing
    <2>3. StoredIsOver'
        BY <1>2, <1>3, <2>1 DEF StoredIsOver, HoldsKey, Untried
    <2>4. UntriedNotDone'
        BY <1>2, <1>3, <1>4, <2>1 DEF UntriedNotDone, HoldsKey, Untried
    <2> QED BY <1>6, <2>2, <2>3, <2>4 DEF Exclusion
<1> QED BY <1>7, <1>8

\* Freeing the key: by the request that has it, and that did not take effect.
LEMMA DeleteKeepsExclusion ==
    ASSUME KeyRecords, AsReserved, Exclusion, NEW p \in Posts, K!Delete(p)
    PROVE  Exclusion'
<1>1. K!At(p, "delete") /\ K!Goes(p, "answered") /\ key' = K!Nothing /\ done' = done
    BY DEF K!Delete
<1>2. p \notin done
    BY <1>1 DEF K!At, Exclusion, UntriedNotDone, Untried
<1>3. \A q \in Posts \ {p} : ~HoldsKey(q)
    BY <1>1 DEF K!At, Exclusion, OneHolder, HoldsKey, Untried
<1>4. post'[p].at = "answered" /\ \A q \in Posts \ {p} : post'[q] = post[q]
    BY <1>1, GoesFacts DEF KeyRecords, K!Places
<1>5. \A q \in Posts : ~HoldsKey(q)'
    BY <1>1, <1>2, <1>3, <1>4 DEF HoldsKey, Untried
<1>6. key'.kind # "stored"
    BY <1>1 DEF K!Nothing
<1> QED BY <1>5, <1>6 DEF Exclusion, OneHolder, FreeIsUnheld, StoredIsOver, UntriedNotDone, HoldsKey

\* Every step keeps the exclusion.
LEMMA ExclusionInductive ==
    ASSUME KeysInv, [K!Next]_K!vars
    PROVE  Exclusion'
<1> SUFFICES ASSUME AsReserved'
             PROVE  Exclusion'
    BY DEF Exclusion
<1>0. AsReserved /\ KeyRecords /\ Exclusion
    <2>1. lapsed => lapsed'
        BY DEF KeysInv, KeyRecords, K!TypeOK, K!Next, K!vars, K!Look, K!Reserve, K!Poll, K!Succeed, K!Error, K!Store, K!Release, K!Delete, K!Lapse
    <2>2. unreserved \subseteq unreserved'
        BY DEF K!Next, K!vars, K!Look, K!Reserve, K!Poll, K!Succeed, K!Error, K!Store, K!Release, K!Delete, K!Lapse
    <2> QED BY <2>1, <2>2 DEF AsReserved, KeysInv
<1>1. ASSUME NEW p \in Posts, K!Look(p) PROVE Exclusion'
    <2>1. CASE key = K!Nothing
        <3>1. post'[p].at = "reserve" /\ \A q \in Posts \ {p} : post'[q] = post[q]
            BY <1>0, <1>1, <2>1, GoesFacts DEF K!Look, KeyRecords, K!Places
        <3> QED BY <1>0, <1>1, <3>1, LeavingKeepsExclusion DEF K!Look, Untried
    <2>2. CASE key # K!Nothing
        BY <1>0, <1>1, <2>2, AnswerKeepsExclusion DEF K!Look
    <2> QED BY <2>1, <2>2
<1>2. ASSUME NEW p \in Posts, K!Reserve(p) PROVE Exclusion'
    BY <1>0, <1>2, ReserveKeepsExclusion
<1>3. ASSUME NEW p \in Posts, K!Poll(p) PROVE Exclusion'
    <2>1. key # K!Nothing
        BY <1>3 DEF K!Poll, AsReserved
    <2> QED BY <1>0, <1>3, <2>1, AnswerKeepsExclusion DEF K!Poll
<1>4. ASSUME NEW p \in Posts, K!Succeed(p) \/ K!Store(p) PROVE Exclusion'
    BY <1>0, <1>4, FinishingKeepsExclusion
<1>5. ASSUME NEW p \in Posts, K!Error(p) PROVE Exclusion'
    <2>1. PICK at \in {"release", "crashed"} : K!Goes(p, at)
        BY <1>5 DEF K!Error
    <2>2. post'[p].at = at /\ \A q \in Posts \ {p} : post'[q] = post[q]
        BY <1>0, <2>1, GoesFacts DEF KeyRecords, K!Places
    <2> QED BY <1>0, <1>5, <2>2, LeavingKeepsExclusion DEF K!Error, K!At, Untried
<1>6. ASSUME NEW p \in Posts, K!Release(p) PROVE Exclusion'
    <2>1. PICK at \in {"delete", "answered"} : K!Goes(p, at)
        BY <1>6 DEF K!Release
    <2>2. post'[p].at = at /\ \A q \in Posts \ {p} : post'[q] = post[q]
        BY <1>0, <2>1, GoesFacts DEF KeyRecords, K!Places
    <2> QED BY <1>0, <1>6, <2>2, LeavingKeepsExclusion DEF K!Release, K!At, Untried
<1>7. ASSUME NEW p \in Posts, K!Delete(p) PROVE Exclusion'
    BY <1>0, <1>7, DeleteKeepsExclusion
<1>8. CASE K!Lapse
    BY <1>8 DEF K!Lapse, AsReserved
<1>9. CASE UNCHANGED K!vars
    BY <1>0, <1>9 DEF K!vars, Exclusion, OneHolder, FreeIsUnheld, StoredIsOver, UntriedNotDone, HoldsKey
<1> QED BY <1>1, <1>2, <1>3, <1>4, <1>5, <1>6, <1>7, <1>8, <1>9 DEF K!Next

\* At the start nobody has come.
LEMMA KeysInit == K!Init => KeysInv
<1> SUFFICES ASSUME K!Init PROVE KeysInv
    OBVIOUS
<1>1. \A p \in Posts : post[p].at = "new"
    BY DEF K!Init
<1>2. K!TypeOK
    <2>1. \A b \in Bodies : [at |-> "new", body |-> b, of |-> "none"]
                              \in [at : K!Places, body : Bodies, of : Posts \cup {"none"}]
        BY DEF K!Places
    <2>2. post \in [Posts -> [at : K!Places, body : Bodies, of : Posts \cup {"none"}]]
        BY <2>1 DEF K!Init
    <2> QED BY <2>2 DEF K!Init, K!TypeOK
<1>3. StoreIsDone /\ StoredIsDone /\ K!ReplayIsOwn
    BY <1>1 DEF K!Init, StoreIsDone, StoredIsDone, K!ReplayIsOwn, K!At, K!Nothing
<1>4. Exclusion
    BY <1>1 DEF K!Init, Exclusion, OneHolder, FreeIsUnheld, StoredIsOver, UntriedNotDone, HoldsKey, Untried
<1> QED BY <1>2, <1>3, <1>4 DEF KeysInv, KeyRecords

LEMMA KeysStep == KeysInv /\ [K!Next]_K!vars => KeysInv'
BY RecordsInductive, ExclusionInductive DEF KeysInv

-----------------------------------------------------------------------------
(* Billing.                                                                *)

Told == [kind : {"checkout", "updated", "deleted", "invoice"}, of : Customers,
         status : {"active", "unpaid", "ended"}]

ReadByHandler == [at : {"apply"}, event : Nat, plan : {"free", "pro"}, limit : {B!FreeLimit, B!Unlimited},
                  mine : BOOLEAN]

\* What the arguments need of the types.
BillingTyped ==
    /\ plan \in {"free", "pro"} /\ limit \in {B!FreeLimit, B!Unlimited}
    /\ subscription \in [Customers -> {"unknown", "none", "active", "unpaid", "ended"}]
    /\ event \in Seq(Told)
    /\ handler \in [Handlers -> {B!Idle} \cup ReadByHandler]
    /\ recorded \subseteq DOMAIN event
    /\ \A h \in B!Busy : handler[h].event \in DOMAIN event

\* Stripe tells of customers who paid, and its last word on one is what the subscription is.
StripeTells ==
    /\ IsFiniteSet(B!Paying)
    /\ \A n \in DOMAIN event : event[n].of \in B!Paying
    /\ \A c \in B!Paying : \E n \in DOMAIN event :
          /\ event[n].of = c /\ event[n].status = subscription[c]
          /\ \A m \in DOMAIN event : m > n => event[m].of # c

OnePays == \A c, d \in B!Paying : c = d

\* An invoice says what the event before it said, when there is one customer.
InvoiceRepeats ==
    OnePays => \A n \in DOMAIN event :
        event[n].kind = "invoice" => n > 1 /\ event[n - 1].status = event[n].status

\* In order, one event is handled at a time, and what its handler read is what there is.
InTurn ==
    orderly => \E k \in Nat :
        /\ recorded = 1 .. k /\ k <= Len(event)
        /\ \A g, h \in B!Busy : g = h
        /\ \A h \in B!Busy : handler[h].event = k + 1 /\ handler[h].plan = plan /\ handler[h].limit = limit
        /\ OnePays => (plan = "pro" <=> k > 0 /\ event[k].status = "active")

\* Plan and limit were read together, and are written together or not at all.
ReadAgrees == \A h \in B!Busy : handler[h].plan = "pro" <=> handler[h].limit = B!Unlimited

BillingInv ==
    /\ BillingTyped /\ StripeTells /\ InvoiceRepeats /\ InTurn
    /\ B!PlanAndLimitAgree /\ ReadAgrees

\* The insert of an event excludes another one: no two handlers have the same, and none has
\* one that was applied.
OneHandler ==
    /\ recorded \subseteq DOMAIN event
    /\ applied \in [1 .. MaxEvents -> Nat]
    /\ \A n \in 1 .. MaxEvents : applied[n] = IF n \in recorded THEN 1 ELSE 0
    /\ \A h \in B!Busy : handler[h].event \notin recorded
    /\ \A g, h \in B!Busy : handler[g].event = handler[h].event => g = h

\* Cardinality is the same in an instance of FiniteSets.
LEMMA SameCardinality ==
    ASSUME NEW S
    PROVE  B!Cardinality(S) = Cardinality(S) /\ K!Cardinality(S) = Cardinality(S)
<1>1. B!Cardinality(S) = Cardinality(S)
    BY Zenon DEF B!Cardinality, Cardinality
<1>2. K!Cardinality(S) = Cardinality(S)
    BY Zenon DEF K!Cardinality, Cardinality
<1> QED BY <1>1, <1>2

\* Several customers pay as soon as two do.
LEMMA OnePaysFacts ==
    ASSUME BillingInv, Cardinality(B!Paying) <= 1
    PROVE  OnePays
<1> SUFFICES ASSUME NEW c \in B!Paying, NEW d \in B!Paying, c # d
             PROVE  FALSE
    BY DEF OnePays
<1>1. IsFiniteSet({c}) /\ Cardinality({c}) = 1
    BY FS_Singleton
<1>2. Cardinality({c, d}) = 2
    <2>1. {c, d} = {c} \cup {d}
        OBVIOUS
    <2> QED BY <1>1, <2>1, FS_AddElement
<1>3. Cardinality({c, d}) <= Cardinality(B!Paying) /\ Cardinality(B!Paying) \in Nat
    BY FS_Subset, FS_CardinalityType, {c, d} \subseteq B!Paying DEF BillingInv, StripeTells
<1>4. Cardinality({c, d}) \in Nat
    BY <1>2
<1> QED BY <1>2, <1>3

\* An event that was appended comes last.
LEMMA AppendFacts ==
    ASSUME event \in Seq(Told), NEW e \in Told, event' = Append(event, e)
    PROVE  /\ event' \in Seq(Told)
           /\ Len(event') = Len(event) + 1
           /\ DOMAIN event' = DOMAIN event \cup {Len(event) + 1}
           /\ DOMAIN event = 1 .. Len(event)
           /\ \A n \in DOMAIN event : event'[n] = event[n]
           /\ event'[Len(event) + 1] = e
OBVIOUS

\* What Stripe tells of a paying customer does not disturb what was told.
LEMMA TellsStep ==
    ASSUME BillingInv, NEW c \in Customers,
           NEW kind \in {"checkout", "updated", "deleted", "invoice"},
           NEW st \in {"active", "unpaid", "ended"},
           B!Tells(kind, c, st),
           subscription' = [subscription EXCEPT ![c] = st],
           kind = "invoice" => c \in B!Paying /\ subscription[c] = st
    PROVE  BillingInv'
<1> DEFINE e == [kind |-> kind, of |-> c, status |-> st]
           z == Len(event) + 1
<1>1. event' = Append(event, e) /\ e \in Told /\ event \in Seq(Told)
    BY DEF B!Tells, Told, BillingInv, BillingTyped
<1>2. UNCHANGED <<orderly, plan, limit, recorded, handler>>
    BY DEF B!Tells
<1>3. /\ event' \in Seq(Told) /\ Len(event') = z
      /\ DOMAIN event' = DOMAIN event \cup {z} /\ DOMAIN event = 1 .. Len(event)
      /\ \A n \in DOMAIN event : event'[n] = event[n]
      /\ event'[z] = e /\ Len(event) \in Nat
    BY <1>1, AppendFacts
<1>4. /\ subscription' \in [Customers -> {"unknown", "none", "active", "unpaid", "ended"}]
      /\ subscription'[c] = st
      /\ \A d \in Customers : d # c => subscription'[d] = subscription[d]
    BY DEF BillingInv, BillingTyped
<1>5. B!Paying' = B!Paying \cup {c}
    BY <1>4 DEF B!Paying
<1>6. e.of = c /\ e.status = st /\ e.kind = kind
    OBVIOUS
<1> HIDE DEF e, z
<1>7. BillingTyped'
    BY <1>2, <1>3, <1>4 DEF BillingInv, BillingTyped, B!Busy
<1>8. StripeTells'
    <2>1. IsFiniteSet(B!Paying')
        BY <1>5, FS_AddElement DEF BillingInv, StripeTells
    <2>2. \A n \in DOMAIN event' : event'[n].of \in B!Paying'
        BY <1>3, <1>5, <1>6 DEF BillingInv, StripeTells
    <2>3. ASSUME NEW d \in B!Paying'
          PROVE  \E n \in DOMAIN event' :
                    /\ event'[n].of = d /\ event'[n].status = subscription'[d]
                    /\ \A m \in DOMAIN event' : m > n => event'[m].of # d
        <3>1. CASE d = c
            <4>1. z \in DOMAIN event' /\ \A m \in DOMAIN event' : ~(m > z)
                BY <1>3 DEF z
            <4> QED BY <1>3, <1>4, <1>6, <3>1, <4>1
        <3>2. CASE d # c
            <4>1. d \in B!Paying /\ subscription'[d] = subscription[d]
                BY <1>4, <1>5, <3>2 DEF B!Paying
            <4>2. PICK n \in DOMAIN event :
                    /\ event[n].of = d /\ event[n].status = subscription[d]
                    /\ \A m \in DOMAIN event : m > n => event[m].of # d
                BY <4>1 DEF BillingInv, StripeTells
            <4>3. \A m \in DOMAIN event' : m > n => event'[m].of # d
                BY <1>3, <1>6, <3>2, <4>2
            <4> QED BY <1>3, <4>1, <4>2, <4>3
        <3> QED BY <3>1, <3>2
    <2> QED BY <2>1, <2>2, <2>3 DEF StripeTells
<1>9. InvoiceRepeats'
    <2> SUFFICES ASSUME OnePays', NEW n \in DOMAIN event', event'[n].kind = "invoice"
                 PROVE  n > 1 /\ event'[n - 1].status = event'[n].status
        BY DEF InvoiceRepeats
    <2>1. OnePays
        BY <1>5 DEF OnePays
    <2>2. CASE n \in DOMAIN event
        <3>1. n > 1 /\ event[n - 1].status = event[n].status
            BY <1>3, <2>1, <2>2 DEF BillingInv, InvoiceRepeats
        <3>2. n - 1 \in DOMAIN event
            BY <1>3, <2>2, <3>1
        <3> QED BY <1>3, <2>2, <3>1, <3>2
    <2>3. CASE n = z
        <3>1. c \in B!Paying /\ subscription[c] = st
            BY <1>3, <1>6, <2>3
        <3>2. PICK m \in DOMAIN event :
                /\ event[m].of = c /\ event[m].status = st
                /\ \A k \in DOMAIN event : k > m => event[k].of # c
            BY <3>1 DEF BillingInv, StripeTells
        <3>3. event[Len(event)].of = c
            <4>1. Len(event) \in DOMAIN event
                BY <1>3
            <4> QED BY <2>1, <3>1, <4>1 DEF OnePays, BillingInv, StripeTells
        <3>4. m = Len(event)
            BY <1>3, <3>2, <3>3
        <3> QED BY <1>3, <1>6, <2>3, <3>2, <3>4 DEF z
    <2> QED BY <1>3, <2>2, <2>3
<1>10. InTurn'
    <2> SUFFICES ASSUME orderly PROVE InTurn'
        BY <1>2 DEF InTurn
    <2>1. PICK k \in Nat :
            /\ recorded = 1 .. k /\ k <= Len(event)
            /\ \A g, h \in B!Busy : g = h
            /\ \A h \in B!Busy : handler[h].event = k + 1 /\ handler[h].plan = plan /\ handler[h].limit = limit
            /\ OnePays => (plan = "pro" <=> k > 0 /\ event[k].status = "active")
        BY DEF BillingInv, InTurn
    <2>2. OnePays' => OnePays
        BY <1>5 DEF OnePays
    <2>3. k > 0 => event'[k] = event[k]
        BY <1>3, <2>1
    <2> QED BY <1>2, <1>3, <2>1, <2>2, <2>3 DEF InTurn, B!Busy, z
<1>11. (B!PlanAndLimitAgree /\ ReadAgrees)'
    BY <1>2 DEF BillingInv, B!PlanAndLimitAgree, ReadAgrees, B!Busy
<1> QED BY <1>7, <1>8, <1>9, <1>10, <1>11 DEF BillingInv

\* A step that moves neither an event nor a plan, and pays nothing.
LEMMA AsideStep ==
    ASSUME BillingInv, UNCHANGED <<orderly, plan, limit, event, recorded, handler>>,
           subscription' \in [Customers -> {"unknown", "none", "active", "unpaid", "ended"}],
           \A c \in Customers : subscription'[c] = subscription[c] \/ {subscription[c], subscription'[c]} \subseteq {"unknown", "none"}
    PROVE  BillingInv'
<1>1. B!Paying' = B!Paying /\ \A c \in B!Paying : subscription'[c] = subscription[c]
    BY DEF B!Paying
<1>2. BillingTyped'
    BY DEF BillingInv, BillingTyped, B!Busy
<1>3. StripeTells'
    BY <1>1 DEF BillingInv, StripeTells
<1>4. InvoiceRepeats' /\ InTurn'
    BY <1>1 DEF BillingInv, InvoiceRepeats, InTurn, OnePays, B!Busy
<1>5. (B!PlanAndLimitAgree /\ ReadAgrees)'
    BY DEF BillingInv, B!PlanAndLimitAgree, ReadAgrees, B!Busy
<1> QED BY <1>2, <1>3, <1>4, <1>5 DEF BillingInv

LEMMA RecordStep ==
    ASSUME BillingInv, NEW h \in Handlers, B!Record(h)
    PROVE  BillingInv'
<1>1. PICK n \in DOMAIN event :
        /\ B!Inserts(n) /\ B!InOrder(n)
        /\ handler' = [handler EXCEPT ![h] =
              [at |-> "apply", event |-> n, plan |-> plan, limit |-> limit, mine |-> event[n].of = customer]]
    BY DEF B!Record
<1> DEFINE x == [at |-> "apply", event |-> n, plan |-> plan, limit |-> limit, mine |-> event[n].of = customer]
<1>2. UNCHANGED <<orderly, plan, limit, subscription, event, recorded>>
    BY DEF B!Record
<1>3. n \in Nat /\ n > 0 /\ n <= Len(event)
    BY DEF BillingInv, BillingTyped
<1>4. x \in ReadByHandler /\ x # B!Idle /\ x.event = n /\ x.plan = plan /\ x.limit = limit
    BY <1>3 DEF ReadByHandler, BillingInv, BillingTyped, B!Idle
<1> HIDE DEF x
<1>5. /\ handler' \in [Handlers -> {B!Idle} \cup ReadByHandler]
      /\ handler'[h] = x /\ \A g \in Handlers : g # h => handler'[g] = handler[g]
    BY <1>1, <1>4 DEF BillingInv, BillingTyped, x
<1>6. B!Busy' = B!Busy \cup {h}
    BY <1>4, <1>5 DEF B!Busy
<1>7. BillingTyped'
    BY <1>2, <1>4, <1>5, <1>6 DEF BillingInv, BillingTyped, B!Busy
<1>8. StripeTells' /\ InvoiceRepeats'
    BY <1>2 DEF BillingInv, StripeTells, InvoiceRepeats, OnePays, B!Paying
<1>9. InTurn'
    <2> SUFFICES ASSUME orderly PROVE InTurn'
        BY <1>2 DEF InTurn
    <2>1. PICK k \in Nat :
            /\ recorded = 1 .. k /\ k <= Len(event)
            /\ OnePays => (plan = "pro" <=> k > 0 /\ event[k].status = "active")
        BY DEF BillingInv, InTurn
    <2>2. recorded = 1 .. n - 1 /\ B!Busy = {}
        BY <1>1 DEF B!InOrder
    <2>3. n = k + 1
        <3>1. k <= n - 1
            BY <1>3, <2>1, <2>2
        <3>2. n - 1 <= k
            BY <1>3, <2>1, <2>2
        <3> QED BY <1>3, <3>1, <3>2
    <2>4. B!Busy' = {h}
        BY <1>6, <2>2
    <2> QED BY <1>2, <1>4, <1>5, <2>1, <2>3, <2>4 DEF InTurn, OnePays, B!Paying
<1>10. (B!PlanAndLimitAgree /\ ReadAgrees)'
    BY <1>2, <1>4, <1>5, <1>6 DEF BillingInv, B!PlanAndLimitAgree, ReadAgrees, B!Busy
<1> QED BY <1>7, <1>8, <1>9, <1>10 DEF BillingInv

\* What an event makes of the plan and of the limit: both become what it says, or both stay.
LEMMA ApplyFacts ==
    ASSUME BillingInv, NEW h \in Handlers, B!Apply(h)
    PROVE  /\ h \in B!Busy /\ handler[h] \in ReadByHandler
           /\ handler[h].event \in DOMAIN event /\ event[handler[h].event] \in Told
           /\ handler' = [handler EXCEPT ![h] = B!Idle]
           /\ recorded' = recorded \cup {handler[h].event}
           /\ UNCHANGED <<orderly, subscription, event>>
           /\ LET x == handler[h]
                  e == event[x.event]
              IN  IF B!Changes(e)
                  THEN /\ plan' = IF B!PlanOf(e) = x.plan THEN plan ELSE B!PlanOf(e)
                       /\ limit' = IF B!LimitOf(e, x.limit) = x.limit THEN limit ELSE B!LimitOf(e, x.limit)
                  ELSE UNCHANGED <<plan, limit>>
<1>1. h \in B!Busy
    BY DEF B!Apply, B!Busy, B!Idle
<1>2. handler[h] \in ReadByHandler
    BY <1>1 DEF B!Busy, BillingInv, BillingTyped
<1>3. handler[h].event \in DOMAIN event /\ event[handler[h].event] \in Told
    BY <1>1 DEF BillingInv, BillingTyped
<1> QED BY <1>1, <1>2, <1>3 DEF B!Apply, B!Column

LEMMA ApplyStep ==
    ASSUME BillingInv, NEW h \in Handlers, B!Apply(h)
    PROVE  BillingInv'
<1> DEFINE x == handler[h]
           e == event[x.event]
<1>1. /\ h \in B!Busy /\ x \in ReadByHandler /\ x.event \in DOMAIN event /\ e \in Told
      /\ handler' = [handler EXCEPT ![h] = B!Idle] /\ recorded' = recorded \cup {x.event}
      /\ UNCHANGED <<orderly, subscription, event>>
    BY ApplyFacts
<1>2. /\ B!Changes(e) => /\ plan' = IF B!PlanOf(e) = x.plan THEN plan ELSE B!PlanOf(e)
                         /\ limit' = IF B!LimitOf(e, x.limit) = x.limit THEN limit ELSE B!LimitOf(e, x.limit)
      /\ ~B!Changes(e) => UNCHANGED <<plan, limit>>
    BY ApplyFacts
<1>3. x.plan = "pro" <=> x.limit = B!Unlimited
    BY <1>1 DEF BillingInv, ReadAgrees
<1>4. /\ B!PlanOf(e) \in {"free", "pro"} /\ B!LimitOf(e, x.limit) \in {B!FreeLimit, B!Unlimited}
      /\ B!PlanOf(e) = "pro" <=> B!LimitOf(e, x.limit) = B!Unlimited
      /\ B!PlanOf(e) = "pro" <=> e.status = "active"
    BY DEF B!PlanOf, B!LimitOf, B!FreeLimit, B!Unlimited
<1>5. x.plan \in {"free", "pro"} /\ x.limit \in {B!FreeLimit, B!Unlimited} /\ B!FreeLimit # B!Unlimited
    BY <1>1 DEF ReadByHandler, B!FreeLimit, B!Unlimited
<1>6. /\ handler' \in [Handlers -> {B!Idle} \cup ReadByHandler]
      /\ \A g \in Handlers : g # h => handler'[g] = handler[g]
      /\ B!Busy' = B!Busy \ {h}
    BY <1>1 DEF BillingInv, BillingTyped, B!Busy
<1>7. e.kind = "invoice" <=> ~B!Changes(e)
    BY <1>1 DEF B!Changes, Told
<1> HIDE DEF x, e
<1>8. BillingTyped'
    <2>1. plan' \in {"free", "pro"} /\ limit' \in {B!FreeLimit, B!Unlimited}
        BY <1>2, <1>4 DEF BillingInv, BillingTyped
    <2>2. recorded' \subseteq DOMAIN event'
        BY <1>1 DEF BillingInv, BillingTyped
    <2>3. \A g \in B!Busy' : handler'[g].event \in DOMAIN event'
        BY <1>1, <1>6 DEF BillingInv, BillingTyped, B!Busy
    <2> QED BY <1>1, <1>6, <2>1, <2>2, <2>3 DEF BillingInv, BillingTyped
<1>9. StripeTells' /\ InvoiceRepeats'
    BY <1>1 DEF BillingInv, StripeTells, InvoiceRepeats, OnePays, B!Paying
<1>10. InTurn'
    <2> SUFFICES ASSUME orderly PROVE InTurn'
        BY <1>1 DEF InTurn
    <2>1. PICK k \in Nat :
            /\ recorded = 1 .. k /\ k <= Len(event)
            /\ \A f, g \in B!Busy : f = g
            /\ \A g \in B!Busy : handler[g].event = k + 1 /\ handler[g].plan = plan /\ handler[g].limit = limit
            /\ OnePays => (plan = "pro" <=> k > 0 /\ event[k].status = "active")
        BY DEF BillingInv, InTurn
    <2>2. x.event = k + 1 /\ x.plan = plan /\ B!Busy' = {}
        BY <1>1, <1>6, <2>1 DEF x
    <2>3. recorded' = 1 .. k + 1 /\ k + 1 <= Len(event)
        BY <1>1, <2>1, <2>2 DEF BillingInv, BillingTyped
    <2>4. OnePays => (plan' = "pro" <=> e.status = "active")
        <3>1. CASE B!Changes(e)
            BY <1>2, <1>4, <2>2, <3>1
        <3>2. CASE ~B!Changes(e)
            <4> SUFFICES ASSUME OnePays PROVE plan' = "pro" <=> e.status = "active"
                OBVIOUS
            <4>1. k + 1 > 1 /\ event[k].status = e.status
                BY <1>1, <1>7, <2>2, <3>2 DEF BillingInv, InvoiceRepeats, e
            <4> QED BY <1>2, <2>1, <3>2, <4>1
        <3> QED BY <3>1, <3>2
    <2>5. OnePays' <=> OnePays
        BY <1>1 DEF OnePays, B!Paying
    <2> QED BY <1>1, <2>1, <2>2, <2>3, <2>4, <2>5 DEF InTurn, e
<1>11. B!PlanAndLimitAgree'
    BY <1>2, <1>3, <1>4, <1>5 DEF BillingInv, B!PlanAndLimitAgree
<1>12. ReadAgrees'
    BY <1>6 DEF BillingInv, ReadAgrees, B!Busy
<1> QED BY <1>8, <1>9, <1>10, <1>11, <1>12 DEF BillingInv

LEMMA FailStep ==
    ASSUME BillingInv, NEW h \in Handlers, B!Fail(h)
    PROVE  BillingInv'
<1>1. handler' = [handler EXCEPT ![h] = B!Idle] /\ UNCHANGED <<orderly, plan, limit, subscription, event, recorded>>
    BY DEF B!Fail
<1>2. /\ handler' \in [Handlers -> {B!Idle} \cup ReadByHandler]
      /\ \A g \in Handlers : g # h => handler'[g] = handler[g]
      /\ B!Busy' = B!Busy \ {h}
    BY <1>1 DEF BillingInv, BillingTyped, B!Busy
<1>3. \A g \in B!Busy' : g \in B!Busy /\ handler'[g] = handler[g]
    BY <1>2 DEF B!Busy
<1>4. BillingTyped'
    BY <1>1, <1>2, <1>3 DEF BillingInv, BillingTyped
<1>5. StripeTells' /\ InvoiceRepeats'
    BY <1>1 DEF BillingInv, StripeTells, InvoiceRepeats, OnePays, B!Paying
<1>6. InTurn'
    BY <1>1, <1>3 DEF BillingInv, InTurn, OnePays, B!Paying
<1>7. (B!PlanAndLimitAgree /\ ReadAgrees)'
    BY <1>1, <1>3 DEF BillingInv, B!PlanAndLimitAgree, ReadAgrees
<1> QED BY <1>4, <1>5, <1>6, <1>7 DEF BillingInv

\* Nobody pays yet, and nothing was told.
LEMMA BillingInit == B!Init => BillingInv
<1> SUFFICES ASSUME B!Init PROVE BillingInv
    OBVIOUS
<1>1. B!Paying = {} /\ B!Busy = {} /\ event = <<>> /\ recorded = {} /\ plan = "free" /\ limit = B!FreeLimit
    BY DEF B!Init, B!Paying, B!Busy
<1>2. BillingTyped
    BY <1>1 DEF B!Init, BillingTyped
<1>3. StripeTells
    BY <1>1, FS_EmptySet DEF StripeTells
<1>4. InTurn
    <2>1. {} = 1 .. 0 /\ 0 <= Len(event) /\ 0 \in Nat
        BY <1>1
    <2> QED BY <1>1, <2>1 DEF InTurn
<1>5. InvoiceRepeats /\ ReadAgrees /\ B!PlanAndLimitAgree
    BY <1>1 DEF InvoiceRepeats, ReadAgrees, B!PlanAndLimitAgree, B!FreeLimit, B!Unlimited
<1> QED BY <1>2, <1>3, <1>4, <1>5 DEF BillingInv

\* Every step keeps the invariant.
LEMMA BillingStep ==
    ASSUME BillingInv, [B!Next]_B!vars
    PROVE  BillingInv'
<1> USE DEF BillingInv, BillingTyped
<1>1. ASSUME NEW p \in Checkouts, B!StartCheckout(p) PROVE BillingInv'
    BY <1>1, AsideStep DEF B!StartCheckout
<1>2. ASSUME NEW p \in Checkouts, B!CommitCheckout(p) PROVE BillingInv'
    BY <1>2, AsideStep DEF B!CommitCheckout
<1>3. CASE B!DeleteWorkspace
    BY <1>3, AsideStep DEF B!DeleteWorkspace
<1>4. ASSUME NEW c \in Customers, B!Pay(c) PROVE BillingInv'
    BY <1>4, TellsStep DEF B!Pay
<1>5. ASSUME NEW c \in Customers, B!Renew(c) PROVE BillingInv'
    BY <1>5, TellsStep DEF B!Renew
<1>6. ASSUME NEW c \in Customers, B!Cancel(c) PROVE BillingInv'
    BY <1>6, TellsStep DEF B!Cancel
<1>7. ASSUME NEW c \in Customers, B!Invoice(c) PROVE BillingInv'
    <2>1. c \in B!Paying /\ subscription[c] \in {"active", "unpaid", "ended"}
        BY <1>7 DEF B!Invoice, B!Paying
    <2>2. subscription' = [subscription EXCEPT ![c] = subscription[c]]
        BY <1>7 DEF B!Invoice
    <2> QED BY <1>7, <2>1, <2>2, TellsStep DEF B!Invoice
<1>8. CASE UNCHANGED B!vars
    BY <1>8, AsideStep DEF B!vars
<1> QED BY <1>1, <1>2, <1>3, <1>4, <1>5, <1>6, <1>7, <1>8, RecordStep, ApplyStep, FailStep DEF B!Next

\* The exclusion of the inserts, and every step of it.
LEMMA OneHandlerInit == B!Init => OneHandler
BY DEF B!Init, OneHandler, B!Busy

LEMMA OneHandlerStep ==
    ASSUME BillingInv, OneHandler, [B!Next]_B!vars
    PROVE  OneHandler'
<1>1. ASSUME UNCHANGED <<recorded, handler, applied>>, DOMAIN event \subseteq DOMAIN event' PROVE OneHandler'
    BY <1>1 DEF OneHandler, B!Busy
<1>2. ASSUME NEW kind, NEW c, NEW st, B!Tells(kind, c, st) PROVE OneHandler'
    <2>1. DOMAIN event \subseteq DOMAIN event'
        BY <1>2 DEF B!Tells, BillingInv, BillingTyped
    <2> QED BY <1>1, <1>2, <2>1 DEF B!Tells
<1>3. ASSUME NEW h \in Handlers, B!Record(h) PROVE OneHandler'
    <2>1. PICK n \in DOMAIN event :
            /\ B!Inserts(n)
            /\ handler' = [handler EXCEPT ![h] =
                  [at |-> "apply", event |-> n, plan |-> plan, limit |-> limit, mine |-> event[n].of = customer]]
        BY <1>3 DEF B!Record
    <2>2. handler'[h].event = n /\ \A g \in Handlers : g # h => handler'[g] = handler[g]
        BY <2>1 DEF BillingInv, BillingTyped
    <2>3. B!Busy' \subseteq B!Busy \cup {h}
        BY <2>2 DEF B!Busy
    <2>4. \A g \in B!Busy' : g # h => g \in B!Busy /\ handler'[g] = handler[g]
        BY <2>2, <2>3 DEF B!Busy
    <2> QED BY <1>3, <2>1, <2>2, <2>4 DEF OneHandler, B!Inserts, B!Record
<1>4. ASSUME NEW h \in Handlers, B!Fail(h) PROVE OneHandler'
    <2>1. \A g \in B!Busy' : g \in B!Busy /\ handler'[g] = handler[g]
        BY <1>4 DEF B!Fail, B!Busy, BillingInv, BillingTyped
    <2> QED BY <1>4, <2>1 DEF OneHandler, B!Fail
<1>5. ASSUME NEW h \in Handlers, B!Apply(h) PROVE OneHandler'
    <2> DEFINE n == handler[h].event
    <2>1. /\ h \in B!Busy /\ n \in DOMAIN event /\ recorded' = recorded \cup {n} /\ event' = event
          /\ handler' = [handler EXCEPT ![h] = B!Idle]
        BY <1>5, ApplyFacts
    <2>2. applied' = [applied EXCEPT ![n] = @ + 1]
        BY <1>5 DEF B!Apply
    <2>3. \A g \in B!Busy' : g \in B!Busy /\ g # h /\ handler'[g] = handler[g]
        BY <2>1 DEF B!Busy, BillingInv, BillingTyped
    <2>4. n \notin recorded
        BY <2>1 DEF OneHandler
    <2> HIDE DEF n
    <2>5. /\ applied' \in [1 .. MaxEvents -> Nat]
          /\ \A m \in 1 .. MaxEvents : applied'[m] = IF m \in recorded' THEN 1 ELSE 0
        <3>1. applied' \in [1 .. MaxEvents -> Nat]
            <4>1. CASE n \in 1 .. MaxEvents
                <5> DEFINE v == applied[n] + 1
                <5>1. applied' = [applied EXCEPT ![n] = v]
                    BY <2>2
                <5>2. v \in Nat
                    BY <4>1 DEF OneHandler
                <5> HIDE DEF v
                <5> QED BY <5>1, <5>2 DEF OneHandler
            <4>2. CASE n \notin 1 .. MaxEvents
                BY <2>2, <4>2 DEF OneHandler
            <4> QED BY <4>1, <4>2
        <3>2. ASSUME NEW m \in 1 .. MaxEvents
              PROVE  applied'[m] = IF m \in recorded' THEN 1 ELSE 0
            <4>1. CASE m = n
                <5>1. applied'[m] = applied[n] + 1 /\ applied[n] = 0
                    BY <2>2, <2>4, <4>1 DEF OneHandler
                <5> QED BY <2>1, <4>1, <5>1
            <4>2. CASE m # n
                BY <2>1, <2>2, <4>2 DEF OneHandler
            <4> QED BY <4>1, <4>2
        <3> QED BY <3>1, <3>2
    <2>6. \A g \in B!Busy' : handler'[g].event \notin recorded'
        BY <2>1, <2>3 DEF OneHandler, n
    <2> QED BY <2>1, <2>3, <2>5, <2>6 DEF OneHandler
<1>6. ASSUME NEW p \in Checkouts, B!StartCheckout(p) \/ B!CommitCheckout(p) PROVE OneHandler'
    BY <1>1, <1>6 DEF B!StartCheckout, B!CommitCheckout
<1>7. CASE B!DeleteWorkspace \/ UNCHANGED B!vars
    BY <1>1, <1>7 DEF B!DeleteWorkspace, B!vars
<1>8. ASSUME NEW c \in Customers, B!Pay(c) \/ B!Renew(c) \/ B!Cancel(c) \/ B!Invoice(c) PROVE OneHandler'
    BY <1>2, <1>8 DEF B!Pay, B!Renew, B!Cancel, B!Invoice
<1> QED BY <1>3, <1>4, <1>5, <1>6, <1>7, <1>8 DEF B!Next

\* In order, all applied and one customer: the last event is its last word.
LEMMA PlanFromLastEvent == BillingInv => B!PlanFollows
<1> SUFFICES ASSUME BillingInv, orderly, recorded = DOMAIN event, Cardinality(B!Paying) <= 1
             PROVE  plan = "pro" <=> \E c \in Customers : subscription[c] = "active"
    BY SameCardinality DEF B!PlanFollows
<1>1. OnePays
    BY OnePaysFacts
<1>2. DOMAIN event = 1 .. Len(event) /\ Len(event) \in Nat
    BY DEF BillingInv, BillingTyped
<1>3. plan = "pro" <=> Len(event) > 0 /\ event[Len(event)].status = "active"
    <2>1. PICK k \in Nat :
            /\ recorded = 1 .. k /\ k <= Len(event)
            /\ OnePays => (plan = "pro" <=> k > 0 /\ event[k].status = "active")
        BY DEF BillingInv, InTurn
    <2>2. Len(event) <= k
        <3>1. 1 .. Len(event) = 1 .. k
            BY <1>2, <2>1
        <3>2. CASE Len(event) = 0
            BY <3>2
        <3>3. CASE Len(event) # 0
            <4>1. Len(event) \in 1 .. Len(event)
                BY <1>2, <3>3
            <4>2. Len(event) \in 1 .. k
                BY <3>1, <4>1
            <4> QED BY <4>2
        <3> QED BY <3>2, <3>3
    <2>3. k = Len(event)
        <3>1. Len(event) \in Nat /\ k <= Len(event)
            BY <1>2, <2>1
        <3> HIDE <1>2, <2>1
        <3> QED BY <2>2, <3>1, SMT
    <2> QED BY <2>3, <1>1, <2>1, <2>2
<1>4. ASSUME NEW c \in B!Paying PROVE Len(event) > 0 /\ event[Len(event)].status = subscription[c]
    <2>1. PICK n \in DOMAIN event :
            /\ event[n].of = c /\ event[n].status = subscription[c]
            /\ \A m \in DOMAIN event : m > n => event[m].of # c
        BY DEF BillingInv, StripeTells
    <2>2. Len(event) > 0 /\ Len(event) \in DOMAIN event
        BY <1>2, <2>1
    <2>3. event[Len(event)].of = c
        BY <1>1, <2>2 DEF OnePays, BillingInv, StripeTells
    <2> QED BY <1>2, <2>1, <2>2, <2>3
<1>5. \A c \in Customers : subscription[c] = "active" => c \in B!Paying
    BY DEF B!Paying
<1>6. Len(event) > 0 => event[Len(event)].of \in B!Paying /\ B!Paying \subseteq Customers
    BY <1>2 DEF BillingInv, StripeTells, B!Paying
<1> QED BY <1>3, <1>4, <1>5, <1>6

-----------------------------------------------------------------------------
(* Installations.                                                          *)

RepoEvents == [kind : {"added", "removed"}, repo : Repos]

StatusEvents == [kind : {"installation"}, action : {"created", "suspend", "unsuspend", "deleted"}]

SyncTasks == [at : {"queued"}, retries : Nat] \cup [at : {"listed"}, retries : Nat, list : SUBSET Repos]

\* What the arguments need of the types.
InstallationsTyped ==
    /\ row \in [Repos -> {"none", "active", "removed"}]
    /\ granted \subseteq Repos
    /\ events \in Seq(RepoEvents \cup StatusEvents)
    /\ sync \in [Tasks -> {I!NoTask} \cup SyncTasks]
    /\ DOMAIN flow = Flows

\* A callback binds to the workspace of its own attempt, and the attempt that bound is not
\* started again.
FlowsMatch ==
    /\ \A f \in Flows : flow[f].at = "bind" => flow[f].to = flow[f].ws
    /\ owner # "none" => owner \in Flows /\ flow[owner].at # "none"
    /\ I!CallbackMatchesFlow

\* Nothing happens here before the App was installed.
InstalledFirst ==
    real = "none" =>
        /\ events = <<>> /\ bound = "none"
        /\ \A f \in Flows : flow[f].at \notin {"setup", "bind"}

\* The events about a repository that are still to come.
About(r) == {i \in DOMAIN events : events[i] \in RepoEvents /\ events[i].repo = r}

\* The last of them says whether the repository is granted.
LastTells ==
    orderly /\ real # "gone" =>
        \A r \in Repos : \A i \in About(r) :
            (\A j \in About(r) : j <= i) => (events[i].kind = "added" <=> r \in granted)

\* Nothing is granted or withdrawn between a list and its write.
ListIsCurrent ==
    orderly => \A t \in Tasks : sync[t].at = "listed" => sync[t].list = granted

\* Without a task that will write the row of a repository, and without an event about it,
\* the row says whether it is granted.
RowTells ==
    orderly /\ bound # "none" /\ real # "gone" /\ ~missed /\ (\A t \in Tasks : sync[t] = I!NoTask) =>
        \A r \in Repos : About(r) = {} => (row[r] = "active" <=> r \in granted)

RepositoriesInv == InstallationsTyped /\ InstalledFirst /\ LastTells /\ ListIsCurrent /\ RowTells

\* The invariant of the attempts, whose steps need nothing else.
LEMMA FlowsInit == I!Init => FlowsMatch
BY DEF I!Init, FlowsMatch, I!NoFlow, I!CallbackMatchesFlow

LEMMA FlowsStep ==
    ASSUME FlowsMatch, DOMAIN flow = Flows, [I!Next]_I!vars
    PROVE  FlowsMatch'
<1> USE DEF FlowsMatch, I!CallbackMatchesFlow
<1>1. ASSUME UNCHANGED <<flow, owner, bound>> PROVE FlowsMatch'
    BY <1>1
<1>2. ASSUME NEW f \in Flows, NEW w, I!Connect(f, w) PROVE FlowsMatch'
    BY <1>2 DEF I!Connect, I!tables
<1>3. ASSUME NEW f \in Flows, I!Setup(f) \/ I!Abandon(f) \/ I!Verify(f) PROVE FlowsMatch'
    <2>1. UNCHANGED <<owner, bound>> /\ \E at \in {"setup", "done"} : flow' = [flow EXCEPT ![f].at = at]
        BY <1>3 DEF I!Setup, I!Abandon, I!Verify, I!tables
    <2> QED BY <2>1
<1>4. ASSUME NEW f \in Flows, I!Callback(f) PROVE FlowsMatch'
    <2>1. UNCHANGED <<owner, bound>> /\ flow[f].at = "setup"
        BY <1>4 DEF I!Callback, I!tables
    <2>2. CASE I!Matches(f) /\ real # "gone"
        <3>1. flow' = [flow EXCEPT ![f] = [at |-> "bind", ws |-> flow[f].ws, to |-> flow[f].ws]]
            BY <1>4, <2>2 DEF I!Callback, I!Matches
        <3> QED BY <2>1, <3>1
    <2>3. CASE ~(I!Matches(f) /\ real # "gone")
        <3>1. flow' = [flow EXCEPT ![f] = [flow[f] EXCEPT !.at = "done"]]
            BY <1>4, <2>3 DEF I!Callback
        <3> QED BY <2>1, <3>1
    <2> QED BY <2>2, <2>3
<1>5. ASSUME NEW f \in Flows, I!Bind(f) PROVE FlowsMatch'
    <2>1. CASE I!MayBind(flow[f].to)
        <3>1. /\ flow' = [flow EXCEPT ![f].at = "verify"] /\ flow[f].at = "bind"
              /\ bound' = flow[f].to /\ owner' = IF bound = flow[f].to THEN owner ELSE f
            BY <1>5, <2>1 DEF I!Bind
        <3> QED BY <3>1
    <2>2. CASE ~I!MayBind(flow[f].to)
        <3>1. flow' = [flow EXCEPT ![f].at = "done"] /\ UNCHANGED <<bound, owner>>
            BY <1>5, <2>2 DEF I!Bind
        <3> QED BY <3>1
    <2> QED BY <2>1, <2>2
<1>6. CASE I!Install \/ I!Suspend \/ I!Unsuspend \/ I!Uninstall
    BY <1>1, <1>6 DEF I!Install, I!Suspend, I!Unsuspend, I!Uninstall, I!Sends, I!tables, I!setup
<1>7. ASSUME NEW r \in Repos, I!Grant(r) \/ I!Withdraw(r) PROVE FlowsMatch'
    BY <1>1, <1>7 DEF I!Grant, I!Withdraw, I!Sends, I!tables, I!setup
<1>8. ASSUME NEW i, I!Deliver(i) PROVE FlowsMatch'
    BY <1>1, <1>8 DEF I!Deliver, I!setup
<1>9. ASSUME NEW t \in Tasks, I!List(t) \/ I!Reconcile(t) \/ I!FailSync(t) PROVE FlowsMatch'
    BY <1>1, <1>9 DEF I!List, I!Reconcile, I!FailSync, I!tables, I!setup
<1>10. CASE I!RequestSync \/ UNCHANGED I!vars
    BY <1>1, <1>10 DEF I!RequestSync, I!vars, I!tables, I!setup
<1> QED BY <1>2, <1>3, <1>4, <1>5, <1>6, <1>7, <1>8, <1>9, <1>10 DEF I!Next

\* The queue of events, with one more.
LEMMA SendsFacts ==
    ASSUME InstallationsTyped, NEW e \in RepoEvents \cup StatusEvents, I!Sends(e)
    PROVE  /\ events' \in Seq(RepoEvents \cup StatusEvents)
           /\ DOMAIN events = 1 .. Len(events) /\ Len(events) \in Nat
           /\ DOMAIN events' = 1 .. Len(events) + 1
           /\ \A i \in DOMAIN events : events'[i] = events[i]
           /\ events'[Len(events) + 1] = e
           /\ UNCHANGED <<orderly, bound, status, row, flow, cookie, owner, sync, missed, revived>>
           /\ orderly => ~I!ReadSomething
BY DEF InstallationsTyped, I!Sends, I!tables, I!setup

\* A change at GitHub that leaves the granted repositories alone, or takes them all away.
LEMMA StatusStep ==
    ASSUME RepositoriesInv, NEW e \in StatusEvents, I!Sends(e), granted' \subseteq Repos,
           real' # "none", real # "none", real' # "gone" => granted' = granted /\ real # "gone"
    PROVE  RepositoriesInv'
<1> USE DEF RepositoriesInv
<1>1. /\ events' \in Seq(RepoEvents \cup StatusEvents)
      /\ DOMAIN events = 1 .. Len(events) /\ Len(events) \in Nat
      /\ DOMAIN events' = 1 .. Len(events) + 1
      /\ \A i \in DOMAIN events : events'[i] = events[i]
      /\ events'[Len(events) + 1] = e
      /\ UNCHANGED <<orderly, bound, status, row, flow, cookie, owner, sync, missed, revived>>
      /\ orderly => ~I!ReadSomething
    BY SendsFacts
<1>2. e \notin RepoEvents
    BY DEF RepoEvents, StatusEvents
<1>3. \A r \in Repos : About(r)' = About(r)
    BY <1>1, <1>2 DEF About
<1>4. InstallationsTyped' /\ InstalledFirst'
    BY <1>1 DEF InstallationsTyped, InstalledFirst
<1>5. LastTells'
    <2> SUFFICES ASSUME orderly, real' # "gone", NEW r \in Repos, NEW i \in About(r)',
                        \A j \in About(r)' : j <= i
                 PROVE  events'[i].kind = "added" <=> r \in granted'
        BY <1>1 DEF LastTells
    <2>1. i \in About(r) /\ i \in DOMAIN events /\ \A j \in About(r) : j <= i
        BY <1>3 DEF About
    <2> QED BY <1>1, <2>1 DEF LastTells
<1>6. ListIsCurrent'
    BY <1>1 DEF ListIsCurrent, I!ReadSomething
<1>7. RowTells'
    BY <1>1, <1>3 DEF RowTells
<1> QED BY <1>4, <1>5, <1>6, <1>7

LEMMA InstallStep ==
    ASSUME RepositoriesInv, I!Install
    PROVE  RepositoriesInv'
<1> USE DEF RepositoriesInv
<1> DEFINE e == [kind |-> "installation", action |-> "created"]
<1>1. e \in StatusEvents /\ e \notin RepoEvents /\ I!Sends(e) /\ real = "none" /\ real' = "active" /\ granted' \subseteq Repos
    BY DEF StatusEvents, RepoEvents, I!Install, I!Status
<1> HIDE DEF e
<1>2. /\ events' \in Seq(RepoEvents \cup StatusEvents)
      /\ DOMAIN events' = 1 .. Len(events) + 1
      /\ events'[Len(events) + 1] = e
      /\ UNCHANGED <<orderly, bound, status, row, flow, cookie, owner, sync, missed, revived>>
      /\ orderly => ~I!ReadSomething
    BY <1>1, SendsFacts
<1>3. events = <<>> /\ bound = "none"
    BY <1>1 DEF InstalledFirst
<1>4. \A r \in Repos : About(r)' = {}
    <2>1. DOMAIN events' = {1} /\ events'[1] = e
        BY <1>2, <1>3
    <2> QED BY <1>1, <2>1 DEF About
<1>5. InstallationsTyped' /\ InstalledFirst'
    BY <1>1, <1>2 DEF InstallationsTyped, InstalledFirst
<1>6. LastTells'
    BY <1>4 DEF LastTells
<1>7. ListIsCurrent'
    BY <1>2 DEF ListIsCurrent, I!ReadSomething
<1>8. RowTells'
    BY <1>2, <1>3 DEF RowTells
<1> QED BY <1>5, <1>6, <1>7, <1>8

\* A repository is granted or withdrawn: the event that says so is its last.
LEMMA GrantStep ==
    ASSUME RepositoriesInv, NEW r \in Repos, I!Grant(r) \/ I!Withdraw(r)
    PROVE  RepositoriesInv'
<1> USE DEF RepositoriesInv
<1>1. PICK e \in RepoEvents :
        /\ e.repo = r /\ I!Sends(e) /\ (e.kind = "added" <=> r \in granted')
        /\ \A q \in Repos : q # r => (q \in granted' <=> q \in granted)
        /\ granted' \subseteq Repos /\ real = "active" /\ real' = real
    <2>1. CASE I!Grant(r)
        <3>1. [kind |-> "added", repo |-> r] \in RepoEvents
            BY DEF RepoEvents
        <3> QED BY <2>1, <3>1 DEF I!Grant, InstallationsTyped
    <2>2. CASE I!Withdraw(r)
        <3>1. [kind |-> "removed", repo |-> r] \in RepoEvents
            BY DEF RepoEvents
        <3> QED BY <2>2, <3>1 DEF I!Withdraw, InstallationsTyped
    <2> QED BY <2>1, <2>2
<1>2. /\ events' \in Seq(RepoEvents \cup StatusEvents)
      /\ DOMAIN events = 1 .. Len(events) /\ Len(events) \in Nat
      /\ DOMAIN events' = 1 .. Len(events) + 1
      /\ \A i \in DOMAIN events : events'[i] = events[i]
      /\ events'[Len(events) + 1] = e
      /\ UNCHANGED <<orderly, bound, status, row, flow, cookie, owner, sync, missed, revived>>
      /\ orderly => ~I!ReadSomething
    BY <1>1, SendsFacts
<1>3. \A q \in Repos : q # r => About(q)' = About(q)
    BY <1>1, <1>2 DEF About
<1>4. Len(events) + 1 \in About(r)' /\ \A j \in About(r)' : j <= Len(events) + 1
    BY <1>1, <1>2 DEF About
<1>5. InstallationsTyped' /\ InstalledFirst'
    BY <1>1, <1>2 DEF InstallationsTyped, InstalledFirst
<1>6. LastTells'
    <2> SUFFICES ASSUME orderly, NEW q \in Repos, NEW i \in About(q)',
                        \A j \in About(q)' : j <= i
                 PROVE  events'[i].kind = "added" <=> q \in granted'
        BY <1>2 DEF LastTells
    <2>1. CASE q = r
        <3>1. i \in 1 .. Len(events) + 1
            BY <1>2 DEF About
        <3>2. i <= Len(events) + 1 /\ Len(events) + 1 <= i
            BY <1>4, <2>1
        <3>3. i = Len(events) + 1
            BY <1>2, <3>1, <3>2
        <3> QED BY <1>1, <1>2, <2>1, <3>3
    <2>2. CASE q # r
        <3>1. i \in About(q) /\ i \in DOMAIN events /\ \A j \in About(q) : j <= i
            BY <1>3, <2>2 DEF About
        <3> QED BY <1>1, <1>2, <2>2, <3>1 DEF LastTells
    <2> QED BY <2>1, <2>2
<1>7. ListIsCurrent'
    BY <1>2 DEF ListIsCurrent, I!ReadSomething
<1>8. RowTells'
    <2> SUFFICES ASSUME orderly, bound # "none", ~missed, \A t \in Tasks : sync[t] = I!NoTask,
                        NEW q \in Repos, About(q)' = {}
                 PROVE  row[q] = "active" <=> q \in granted'
        BY <1>2 DEF RowTells
    <2>1. q # r /\ About(q) = {}
        BY <1>3, <1>4
    <2> QED BY <1>1, <2>1 DEF RowTells
<1> QED BY <1>5, <1>6, <1>7, <1>8

\* The first event leaves the queue.
LEMMA ShiftFacts ==
    ASSUME InstallationsTyped, 1 \in DOMAIN events,
           events' = [j \in 1 .. Len(events) - 1 |-> events[IF j < 1 THEN j ELSE j + 1]]
    PROVE  /\ DOMAIN events' = 1 .. Len(events) - 1 /\ DOMAIN events = 1 .. Len(events) /\ Len(events) \in Nat
           /\ \A j \in DOMAIN events' : events'[j] = events[j + 1] /\ j + 1 \in DOMAIN events
           /\ \A r : \A j \in Int : j \in About(r)' <=> j > 0 /\ j + 1 \in About(r)
BY DEF InstallationsTyped, About

\* The queue stays one, whichever event leaves it.
LEMMA DeliverTyped ==
    ASSUME InstallationsTyped, NEW i \in DOMAIN events,
           events' = [j \in 1 .. Len(events) - 1 |-> events[IF j < i THEN j ELSE j + 1]]
    PROVE  events' \in Seq(RepoEvents \cup StatusEvents)
<1> DEFINE n == Len(events) - 1
<1>1. n \in Nat /\ DOMAIN events = 1 .. Len(events) /\ Len(events) \in Nat /\ i \in 1 .. Len(events)
    BY DEF InstallationsTyped
<1>2. ASSUME NEW j \in 1 .. n
      PROVE  events[IF j < i THEN j ELSE j + 1] \in RepoEvents \cup StatusEvents
    <2>1. (IF j < i THEN j ELSE j + 1) \in DOMAIN events
        BY <1>1
    <2> QED BY <2>1 DEF InstallationsTyped
<1> HIDE DEF n
<1> QED BY <1>1, <1>2 DEF n

\* An event is taken from the queue: the row follows it when it is the last about its
\* repository, and if there is no other the row is what it says.
LEMMA DeliverStep ==
    ASSUME RepositoriesInv, NEW i \in DOMAIN events, I!Deliver(i)
    PROVE  RepositoriesInv'
<1> USE DEF RepositoriesInv
<1>1. /\ UNCHANGED <<orderly, bound, real, granted, flow, sync, missed>>
      /\ I!Apply(events[i]) /\ (orderly => i = 1)
      /\ events' = [j \in 1 .. Len(events) - 1 |-> events[IF j < i THEN j ELSE j + 1]]
    BY DEF I!Deliver, I!setup
<1>2. events' \in Seq(RepoEvents \cup StatusEvents)
    BY <1>1, DeliverTyped
<1>3. /\ DOMAIN row' = Repos /\ row' \in [Repos -> {"none", "active", "removed"}]
      /\ \A r \in Repos : i \notin About(r) => row'[r] = row[r]
      /\ bound # "none" => \A r \in Repos :
            i \in About(r) => (row'[r] = "active" <=> events[i].kind = "added")
    <2>1. events[i] \in RepoEvents \cup StatusEvents
        BY DEF InstallationsTyped
    <2>2. CASE bound = "none" \/ events[i].kind = "installation"
        <3>1. row' = row
            BY <1>1, <2>2 DEF I!Apply
        <3> QED BY <2>2, <3>1 DEF InstallationsTyped, About, RepoEvents
    <2>3. CASE bound # "none" /\ events[i].kind # "installation"
        <3>1. events[i] \in RepoEvents
            BY <2>1, <2>3 DEF StatusEvents
        <3> DEFINE q == events[i].repo
                   v == IF events[i].kind = "added" THEN "active" ELSE IF row[q] = "none" THEN "none" ELSE "removed"
        <3>2. row' = [row EXCEPT ![q] = v] /\ q \in Repos
            BY <1>1, <2>3, <3>1 DEF I!Apply, I!Upserted, I!MarkedRemoved, RepoEvents
        <3>3. v \in {"none", "active", "removed"} /\ (v = "active" <=> events[i].kind = "added")
            OBVIOUS
        <3>4. \A r \in Repos : i \in About(r) <=> r = q
            BY <3>1 DEF About
        <3> HIDE DEF q, v
        <3> QED BY <3>2, <3>3, <3>4 DEF InstallationsTyped
    <2> QED BY <2>2, <2>3
<1>4. InstallationsTyped'
    BY <1>1, <1>2, <1>3 DEF InstallationsTyped
<1>5. InstalledFirst'
    BY <1>1 DEF InstalledFirst
<1>6. ListIsCurrent'
    BY <1>1 DEF ListIsCurrent
<1>7. ASSUME orderly
      PROVE  /\ DOMAIN events' = 1 .. Len(events) - 1 /\ DOMAIN events = 1 .. Len(events) /\ Len(events) \in Nat
             /\ \A j \in DOMAIN events' : events'[j] = events[j + 1] /\ j + 1 \in DOMAIN events
             /\ \A r : \A j \in Int : j \in About(r)' <=> j > 0 /\ j + 1 \in About(r)
    BY <1>1, <1>7, ShiftFacts
<1>8. LastTells'
    <2> SUFFICES ASSUME orderly, real # "gone", NEW r \in Repos, NEW j \in About(r)',
                        \A k \in About(r)' : k <= j
                 PROVE  events'[j].kind = "added" <=> r \in granted
        BY <1>1 DEF LastTells
    <2>1. j \in DOMAIN events' /\ j \in Nat /\ j + 1 \in About(r) /\ events'[j] = events[j + 1]
        BY <1>7 DEF About
    <2>2. ASSUME NEW k \in About(r) PROVE k <= j + 1
        <3>1. k \in Nat /\ k > 0
            BY <1>7 DEF About
        <3>2. CASE k = 1
            BY <2>1, <3>2
        <3>3. CASE k > 1
            <4> DEFINE m == k - 1
            <4>1. m \in Int /\ m > 0 /\ m + 1 = k
                BY <3>1, <3>3
            <4> HIDE DEF m
            <4>2. m \in About(r)'
                BY <1>7, <4>1
            <4> QED BY <2>1, <3>1, <4>1, <4>2
        <3> QED BY <3>1, <3>2, <3>3
    <2> QED BY <2>1, <2>2 DEF LastTells
<1>9. RowTells'
    <2> SUFFICES ASSUME orderly, bound # "none", real # "gone", ~missed, \A t \in Tasks : sync[t] = I!NoTask,
                        NEW r \in Repos, About(r)' = {}
                 PROVE  row'[r] = "active" <=> r \in granted
        BY <1>1 DEF RowTells
    <2>1. \A k \in About(r) : k = 1
        <3> SUFFICES ASSUME NEW k \in About(r), k # 1 PROVE FALSE
            OBVIOUS
        <3>1. k \in Nat /\ k > 1
            BY <1>7 DEF About
        <3> DEFINE m == k - 1
        <3>2. m \in Int /\ m > 0 /\ m + 1 = k
            BY <3>1
        <3> HIDE DEF m
        <3>3. m \in About(r)'
            BY <1>7, <3>2
        <3> QED BY <3>3
    <2>2. i = 1
        BY <1>1
    <2>3. CASE 1 \in About(r)
        <3>1. events[1].kind = "added" <=> r \in granted
            BY <2>1, <2>3 DEF LastTells
        <3> QED BY <1>3, <2>2, <2>3, <3>1
    <2>4. CASE 1 \notin About(r)
        <3>1. About(r) = {}
            BY <2>1, <2>4
        <3> QED BY <1>3, <2>2, <2>4, <3>1 DEF RowTells
    <2> QED BY <2>3, <2>4
<1> QED BY <1>4, <1>5, <1>6, <1>8, <1>9

\* Steps that leave GitHub, the events and the rows alone.
LEMMA QuietStep ==
    ASSUME RepositoriesInv, UNCHANGED <<orderly, row, granted, real, events>>,
           DOMAIN flow' = Flows, sync' \in [Tasks -> {I!NoTask} \cup SyncTasks],
           \A f \in Flows : flow'[f].at \in {"setup", "bind"} => real # "none",
           bound' # bound => real # "none",
           \A t \in Tasks : sync'[t].at = "listed" => sync'[t] = sync[t] \/ sync'[t].list = granted,
           missed \/ (\E t \in Tasks : sync[t] # I!NoTask) \/ bound' # bound =>
               missed' \/ \E t \in Tasks : sync'[t] # I!NoTask
    PROVE  RepositoriesInv'
<1> USE DEF RepositoriesInv
<1>1. InstallationsTyped' /\ InstalledFirst'
    BY DEF InstallationsTyped, InstalledFirst
<1>2. \A r : About(r)' = About(r)
    BY DEF About
<1>3. LastTells' /\ ListIsCurrent'
    BY <1>2 DEF LastTells, ListIsCurrent
<1>4. RowTells'
    BY <1>2 DEF RowTells
<1> QED BY <1>1, <1>3, <1>4

\* A task that is queued is there.
LEMMA EnqueueFacts ==
    ASSUME InstallationsTyped, NEW t \in Tasks, I!Enqueue(t)
    PROVE  /\ sync' \in [Tasks -> {I!NoTask} \cup SyncTasks]
           /\ sync'[t].at = "queued" /\ sync'[t] # I!NoTask
           /\ \A u \in Tasks : u # t => sync'[u] = sync[u]
<1> DEFINE x == [at |-> "queued", retries |-> 0]
<1>1. x \in SyncTasks /\ x # I!NoTask /\ x.at = "queued"
    BY DEF SyncTasks, I!NoTask
<1>2. sync' = [sync EXCEPT ![t] = x]
    BY DEF I!Enqueue
<1> HIDE DEF x
<1> QED BY <1>1, <1>2 DEF InstallationsTyped

LEMMA SetupStep ==
    ASSUME RepositoriesInv, NEW f \in Flows,
           I!Setup(f) \/ I!Abandon(f) \/ I!Callback(f) \/ I!Verify(f) \/ \E w \in Workspaces : I!Connect(f, w)
    PROVE  RepositoriesInv'
<1>1. UNCHANGED <<orderly, row, granted, real, events, bound, sync, missed>>
    BY DEF I!Setup, I!Abandon, I!Callback, I!Verify, I!Connect, I!tables, I!github
<1>2. DOMAIN flow' = Flows /\ \A g \in Flows : g # f => flow'[g] = flow[g]
    BY DEF I!Setup, I!Abandon, I!Callback, I!Verify, I!Connect, RepositoriesInv, InstallationsTyped
<1>3. flow'[f].at \in {"setup", "bind"} => real # "none"
    <2>1. CASE I!Setup(f)
        BY <2>1 DEF I!Setup
    <2>2. CASE I!Callback(f)
        BY <2>2 DEF I!Callback, RepositoriesInv, InstalledFirst
    <2>3. CASE I!Abandon(f) \/ I!Verify(f)
        <3>1. flow' = [flow EXCEPT ![f].at = "done"]
            BY <2>3 DEF I!Abandon, I!Verify
        <3> QED BY <3>1 DEF RepositoriesInv, InstallationsTyped
    <2>4. ASSUME NEW w \in Workspaces, I!Connect(f, w) PROVE flow'[f].at = "connect"
        BY <2>4 DEF I!Connect, RepositoriesInv, InstallationsTyped
    <2> QED BY <2>1, <2>2, <2>3, <2>4
<1>4. \A g \in Flows : flow'[g].at \in {"setup", "bind"} => real # "none"
    BY <1>2, <1>3 DEF RepositoriesInv, InstalledFirst
<1> QED BY <1>1, <1>2, <1>4, QuietStep DEF RepositoriesInv, InstallationsTyped

\* To bind is to leave a task that will write the rows.
LEMMA BindStep ==
    ASSUME RepositoriesInv, NEW f \in Flows, I!Bind(f)
    PROVE  RepositoriesInv'
<1>1. UNCHANGED <<orderly, row, granted, real, events, missed>> /\ flow[f].at = "bind"
    BY DEF I!Bind, I!github
<1>2. real # "none"
    BY <1>1 DEF RepositoriesInv, InstalledFirst
<1>3. DOMAIN flow' = Flows
    BY DEF I!Bind, RepositoriesInv, InstallationsTyped
<1>4. CASE I!MayBind(flow[f].to)
    <2>1. PICK t \in Tasks : I!Enqueue(t)
        BY <1>4 DEF I!Bind
    <2> QED BY <1>1, <1>2, <1>3, <2>1, EnqueueFacts, QuietStep DEF RepositoriesInv
<1>5. CASE ~I!MayBind(flow[f].to)
    <2>1. UNCHANGED <<bound, sync>>
        BY <1>5 DEF I!Bind
    <2> QED BY <1>1, <1>2, <1>3, <2>1, QuietStep DEF RepositoriesInv, InstallationsTyped
<1> QED BY <1>4, <1>5

LEMMA RequestSyncStep ==
    ASSUME RepositoriesInv, I!RequestSync
    PROVE  RepositoriesInv'
<1>1. UNCHANGED <<orderly, row, granted, real, events, missed, bound, flow>>
    BY DEF I!RequestSync, I!tables, I!github, I!setup
<1>2. PICK t \in Tasks : I!Enqueue(t)
    BY DEF I!RequestSync
<1>3. DOMAIN flow' = Flows /\ \A f \in Flows : flow'[f].at \in {"setup", "bind"} => real # "none"
    BY <1>1 DEF RepositoriesInv, InstallationsTyped, InstalledFirst
<1> QED BY <1>1, <1>2, <1>3, EnqueueFacts, QuietStep DEF RepositoriesInv

\* The list is what is granted; a task that fails is queued again or was given up.
LEMMA TaskStep ==
    ASSUME RepositoriesInv, NEW t \in Tasks, I!List(t) \/ I!FailSync(t)
    PROVE  RepositoriesInv'
<1>1. /\ UNCHANGED <<orderly, row, granted, real, events, bound, flow>>
      /\ sync[t] \in SyncTasks /\ sync[t].retries \in Nat
    BY DEF I!List, I!FailSync, I!tables, I!github, I!setup, RepositoriesInv, InstallationsTyped, I!NoTask, SyncTasks
<1>2. DOMAIN flow' = Flows /\ \A f \in Flows : flow'[f].at \in {"setup", "bind"} => real # "none"
    BY <1>1 DEF RepositoriesInv, InstallationsTyped, InstalledFirst
<1>3. CASE I!List(t)
    <2> DEFINE x == [at |-> "listed", retries |-> sync[t].retries, list |-> granted]
    <2>1. x \in SyncTasks /\ x # I!NoTask /\ x.list = granted
        BY <1>1 DEF SyncTasks, I!NoTask, RepositoriesInv, InstallationsTyped
    <2>2. sync' = [sync EXCEPT ![t] = x] /\ missed' = missed
        BY <1>3 DEF I!List
    <2> HIDE DEF x
    <2>3. sync' \in [Tasks -> {I!NoTask} \cup SyncTasks] /\ sync'[t] = x /\ \A u \in Tasks : u # t => sync'[u] = sync[u]
        BY <2>1, <2>2 DEF RepositoriesInv, InstallationsTyped
    <2> QED BY <1>1, <1>2, <2>1, <2>2, <2>3, QuietStep
<1>4. CASE I!FailSync(t) /\ sync[t].retries < MaxSyncRetries
    <2> DEFINE x == [at |-> "queued", retries |-> sync[t].retries + 1]
    <2>1. x \in SyncTasks /\ x # I!NoTask /\ x.at = "queued"
        BY <1>1 DEF SyncTasks, I!NoTask
    <2>2. sync' = [sync EXCEPT ![t] = x] /\ (missed => missed')
        BY <1>4 DEF I!FailSync
    <2> HIDE DEF x
    <2>3. sync' \in [Tasks -> {I!NoTask} \cup SyncTasks] /\ sync'[t] = x /\ \A u \in Tasks : u # t => sync'[u] = sync[u]
        BY <2>1, <2>2 DEF RepositoriesInv, InstallationsTyped
    <2> QED BY <1>1, <1>2, <2>1, <2>2, <2>3, QuietStep
<1>5. CASE I!FailSync(t) /\ ~(sync[t].retries < MaxSyncRetries)
    <2>1. sync' = [sync EXCEPT ![t] = I!NoTask] /\ missed' = TRUE
        BY <1>5 DEF I!FailSync
    <2>2. sync' \in [Tasks -> {I!NoTask} \cup SyncTasks] /\ sync'[t] = I!NoTask /\ \A u \in Tasks : u # t => sync'[u] = sync[u]
        BY <2>1 DEF RepositoriesInv, InstallationsTyped
    <2> QED BY <1>1, <1>2, <2>1, <2>2, QuietStep DEF I!NoTask
<1> QED BY <1>3, <1>4, <1>5

\* A task writes its list, which is what is granted.
LEMMA ReconcileStep ==
    ASSUME RepositoriesInv, NEW t \in Tasks, I!Reconcile(t)
    PROVE  RepositoriesInv'
<1> USE DEF RepositoriesInv
<1>1. /\ UNCHANGED <<orderly, granted, real, events, bound, flow, missed>> /\ sync[t].at = "listed"
      /\ sync' = [sync EXCEPT ![t] = I!NoTask]
      /\ row' = [r \in Repos |-> IF r \in sync[t].list THEN "active"
                                 ELSE IF row[r] = "none" THEN "none" ELSE "removed"]
    BY DEF I!Reconcile, I!github, I!setup, I!Upserted, I!MarkedRemoved
<1>2. sync' \in [Tasks -> {I!NoTask} \cup SyncTasks] /\ \A u \in Tasks : sync'[u].at = "listed" => sync'[u] = sync[u]
    BY <1>1 DEF InstallationsTyped, I!NoTask
<1>3. row' \in [Repos -> {"none", "active", "removed"}]
    BY <1>1 DEF InstallationsTyped
<1>4. InstallationsTyped' /\ InstalledFirst'
    BY <1>1, <1>2, <1>3 DEF InstallationsTyped, InstalledFirst
<1>5. \A r : About(r)' = About(r)
    BY <1>1 DEF About
<1>6. LastTells' /\ ListIsCurrent'
    BY <1>1, <1>2, <1>5 DEF LastTells, ListIsCurrent
<1>7. RowTells'
    <2> SUFFICES ASSUME orderly, NEW r \in Repos
                 PROVE  row'[r] = "active" <=> r \in granted
        BY <1>1 DEF RowTells
    <2>1. sync[t].list = granted
        BY <1>1 DEF ListIsCurrent
    <2> QED BY <1>1, <2>1 DEF InstallationsTyped
<1> QED BY <1>4, <1>6, <1>7

LEMMA RepositoriesInit == I!Init => RepositoriesInv
BY DEF I!Init, RepositoriesInv, InstallationsTyped, InstalledFirst, LastTells, ListIsCurrent, RowTells, About,
       I!NoFlow, I!NoTask

\* Every step keeps the invariant.
LEMMA RepositoriesStep ==
    ASSUME RepositoriesInv, [I!Next]_I!vars
    PROVE  RepositoriesInv'
<1>1. CASE I!Suspend \/ I!Unsuspend \/ I!Uninstall
    <2>1. \A a \in {"suspend", "unsuspend", "deleted"} : I!Status(a) \in StatusEvents
        BY DEF I!Status, StatusEvents
    <2> QED BY <1>1, <2>1, StatusStep DEF I!Suspend, I!Unsuspend, I!Uninstall, RepositoriesInv, InstallationsTyped
<1>2. CASE UNCHANGED I!vars
    BY <1>2, QuietStep DEF I!vars, I!tables, I!github, I!setup, RepositoriesInv, InstallationsTyped, InstalledFirst
<1> QED BY <1>1, <1>2, InstallStep, GrantStep, DeliverStep, SetupStep, BindStep, RequestSyncStep, TaskStep,
           ReconcileStep DEF I!Next

\* With no event and no task left, the rows are what is granted.
LEMMA RowsFromQuiet == RepositoriesInv => I!RepositoriesFollow
<1> SUFFICES ASSUME RepositoriesInv, orderly, I!Quiet, ~missed, bound # "none", real # "gone"
             PROVE  {r \in Repos : row[r] = "active"} = granted
    BY DEF I!RepositoriesFollow
<1>1. \A r \in Repos : About(r) = {}
    BY DEF I!Quiet, About
<1> QED BY <1>1 DEF RepositoriesInv, RowTells, InstallationsTyped, I!Quiet

-----------------------------------------------------------------------------
(* The services together.                                                  *)

ServicesInv == ExportsInv /\ AccountsInv /\ KeysInv /\ BillingInv /\ OneHandler /\ FlowsMatch /\ RepositoriesInv

\* A step is one of each service, or leaves it alone.
LEMMA StepOfEach ==
    ASSUME [Next]_vars
    PROVE  /\ [E!Next]_E!vars /\ [A!Next]_A!vars /\ [K!Next]_K!vars
           /\ [B!Next]_B!vars /\ [I!Next]_I!vars
BY DEF Next, vars, billing, installations, exports, accounts, keys, E!vars, A!vars, K!vars, B!vars, I!vars

LEMMA ServicesInvHolds == Spec => []ServicesInv
<1>1. Init => ServicesInv
    BY ExportsInit, AccountsInit, KeysInit, BillingInit, OneHandlerInit, FlowsInit, RepositoriesInit
       DEF Init, ServicesInv
<1>2. ServicesInv /\ [Next]_vars => ServicesInv'
    <2> SUFFICES ASSUME ServicesInv, [Next]_vars PROVE ServicesInv'
        OBVIOUS
    <2>1. ExportsInv' /\ AccountsInv' /\ KeysInv'
        BY StepOfEach, ExportsStep, AccountsStep, KeysStep DEF ServicesInv
    <2>2. BillingInv' /\ OneHandler'
        BY StepOfEach, BillingStep, OneHandlerStep DEF ServicesInv
    <2>3. FlowsMatch' /\ RepositoriesInv'
        BY StepOfEach, FlowsStep, RepositoriesStep DEF ServicesInv, RepositoriesInv, InstallationsTyped
    <2> QED BY <2>1, <2>2, <2>3 DEF ServicesInv
<1> QED BY <1>1, <1>2, PTL DEF Spec

\* _apply_subscription_update and _handle_checkout_completed: whatever number of customers
\* and events, after the events in Stripe's order the workspace has the plan it pays for.
THEOREM PlanFollowsHolds == Spec => []PlanFollows
<1>1. ServicesInv => PlanFollows
    BY PlanFromLastEvent DEF ServicesInv, PlanFollows
<1> QED BY <1>1, ServicesInvHolds, PTL

\* However the events are ordered, repeated, lost to errors and handled at the same time,
\* pro means unlimited and free means 25.
THEOREM PlanAndLimitAgreeHolds == Spec => []PlanAndLimitAgree
<1>1. ServicesInv => PlanAndLimitAgree
    BY DEF ServicesInv, BillingInv, PlanAndLimitAgree
<1> QED BY <1>1, ServicesInvHolds, PTL

\* try_record_webhook_event: an event changes the workspace at most once.
THEOREM AppliedOnceHolds == Spec => []AppliedOnce
<1>1. ServicesInv => AppliedOnce
    <2> SUFFICES ASSUME OneHandler, NEW n \in 1 .. MaxEvents PROVE applied[n] <= 1
        BY DEF ServicesInv, AppliedOnce, B!AppliedOnce
    <2>1. applied[n] = IF n \in recorded THEN 1 ELSE 0
        BY DEF OneHandler
    <2> QED BY <2>1
<1> QED BY <1>1, ServicesInvHolds, PTL

\* get_github_callback: whatever attempts share a browser, an installation gets into the
\* workspace of the attempt that was authorised.
THEOREM CallbackMatchesFlowHolds == Spec => []CallbackMatchesFlow
<1>1. ServicesInv => CallbackMatchesFlow
    BY DEF ServicesInv, FlowsMatch, CallbackMatchesFlow
<1> QED BY <1>1, ServicesInvHolds, PTL

\* reconcile_repositories and the webhooks: with events in order, once the tasks ended and
\* none was given up, the active rows are the granted repositories, whatever was granted
\* before the installation was bound and whatever failed and was tried again.
THEOREM RepositoriesFollowHolds == Spec => []RepositoriesFollow
<1>1. ServicesInv => RepositoriesFollow
    BY RowsFromQuiet DEF ServicesInv, RepositoriesFollow
<1> QED BY <1>1, ServicesInvHolds, PTL

\* bind_github_installation: the first workspace to bind an installation keeps it.
THEOREM BoundForGoodHolds == Spec => BoundForGood
<1>1. [I!Next]_I!vars => [I!BoundForGood]_installations
    <2> SUFFICES ASSUME I!Next, bound # "none" PROVE bound' = bound
        BY DEF I!BoundForGood, I!vars, I!tables, installations
    <2>1. ASSUME NEW f \in Flows, I!Bind(f) PROVE bound' = bound
        BY <2>1 DEF I!Bind, I!MayBind
    <2>2. CASE I!Install \/ I!Suspend \/ I!Unsuspend \/ I!Uninstall \/ I!RequestSync
        BY <2>2 DEF I!Install, I!Suspend, I!Unsuspend, I!Uninstall, I!RequestSync, I!Sends, I!tables
    <2>3. ASSUME NEW r \in Repos, I!Grant(r) \/ I!Withdraw(r) PROVE bound' = bound
        BY <2>3 DEF I!Grant, I!Withdraw, I!Sends, I!tables
    <2>4. ASSUME NEW i, I!Deliver(i) PROVE bound' = bound
        BY <2>4 DEF I!Deliver
    <2>5. ASSUME NEW f \in Flows, I!Setup(f) \/ I!Abandon(f) \/ I!Callback(f) \/ I!Verify(f) PROVE bound' = bound
        BY <2>5 DEF I!Setup, I!Abandon, I!Callback, I!Verify, I!tables
    <2>6. ASSUME NEW f \in Flows, NEW w, I!Connect(f, w) PROVE bound' = bound
        BY <2>6 DEF I!Connect, I!tables
    <2>7. ASSUME NEW t \in Tasks, I!List(t) \/ I!Reconcile(t) \/ I!FailSync(t) PROVE bound' = bound
        BY <2>7 DEF I!List, I!Reconcile, I!FailSync, I!tables
    <2> QED BY <2>1, <2>2, <2>3, <2>4, <2>5, <2>6, <2>7 DEF I!Next
<1>2. [Next]_vars => [I!BoundForGood]_installations
    BY <1>1, StepOfEach
<1> QED BY <1>2, PTL DEF Spec, BoundForGood

\* However many attempts failed or were repeated, a completed job that names an archive
\* has it on disk (resolve_download_path).
THEOREM DownloadHasArchiveHolds == Spec => []DownloadHasArchive
<1>1. ServicesInv => DownloadHasArchive
    BY DEF ServicesInv, ExportsInv, DownloadHasArchive
<1> QED BY <1>1, ServicesInvHolds, PTL

\* Unless a task was lost, a job that keeps its user from a new export has a task that
\* will end it (create_export_job).
THEOREM BlockedOnlyByWorkHolds == Spec => []BlockedOnlyByWork
<1>1. ServicesInv => BlockedOnlyByWork
    BY DEF ServicesInv, ExportsInv, BlockedOnlyByWork
<1> QED BY <1>1, ServicesInvHolds, PTL

\* registration_require_admin_approval, however many requests and webhooks read a row,
\* compute from it and write to what has become of it: who is active was approved, or is the
\* platform's administrator, or came back by Keycloak's switch.
THEOREM ApprovalAlwaysHolds == Spec => []ApprovalHolds
<1>1. ServicesInv => ApprovalHolds
    BY DEF ServicesInv, AccountsInv, ApprovalHolds
<1> QED BY <1>1, ServicesInvHolds, PTL

\* The key and the requests are of their types, whatever requests and bodies there are.
THEOREM KeyTypes == Spec => []K!TypeOK
<1>1. ServicesInv => K!TypeOK
    BY DEF ServicesInv, KeysInv, KeyRecords
<1> QED BY <1>1, ServicesInvHolds, PTL

\* However many requests use one key, one takes effect, unless a reservation lapsed under
\* a request or one was let through after its wait (load_idempotent_response).
THEOREM TakesEffectOnceHolds == Spec => []TakesEffectOnce
<1>1. ServicesInv => TakesEffectOnce
    <2> SUFFICES ASSUME KeysInv, AsReserved PROVE ~(Cardinality(done) > 1)
        BY SameCardinality DEF ServicesInv, TakesEffectOnce, K!TakesEffectOnce, AsReserved
    <2>1. \A p, q \in done : p = q
        BY DEF KeysInv, Exclusion, OneHolder, HoldsKey, KeyRecords, K!TypeOK
    <2>2. CASE done = {}
        BY <2>2, FS_EmptySet
    <2>3. CASE done # {}
        <3>1. PICK p \in done : TRUE
            BY <2>3
        <3>2. done = {p}
            BY <2>1, <3>1
        <3>3. Cardinality({p}) = 1
            BY FS_Singleton
        <3> QED BY <3>2, <3>3
    <2> QED BY <2>2, <2>3
<1> QED BY <1>1, ServicesInvHolds, PTL

\* A replayed response is that of a request of the same body which took effect, with no
\* excuse for reservations that lapse (_response_from_cached).
THEOREM ReplayIsOwnHolds == Spec => []ReplayIsOwn
<1>1. ServicesInv => ReplayIsOwn
    BY DEF ServicesInv, KeysInv, KeyRecords, ReplayIsOwn
<1> QED BY <1>1, ServicesInvHolds, PTL

\* What is stored under a key stays until it lapses: neither the release of a failed
\* request nor the answer of a later one replaces it (release_idempotency_reservation).
THEOREM StoredStaysHolds == Spec => StoredStays
<1>1. KeysInv /\ [K!Next]_K!vars => [K!StoredStaysStep]_keys
    <2> SUFFICES ASSUME KeysInv, K!Next, key.kind = "stored", ~lapsed', unreserved = {}
                 PROVE  key' = key
        BY DEF K!StoredStaysStep, K!vars, keys
    <2>1. key # K!Nothing
        BY DEF K!Nothing
    <2>2. lapsed = FALSE
        BY DEF KeysInv, KeyRecords, K!TypeOK, K!Next, K!Look, K!Reserve, K!Poll, K!Succeed, K!Error, K!Store, K!Release, K!Delete, K!Lapse
    <2>3. \A p \in Posts : post[p].at \notin {"run", "store", "release", "delete"}
        BY <2>2 DEF KeysInv, Exclusion, AsReserved, StoredIsOver
    <2> QED BY <2>1, <2>3 DEF K!Next, K!Look, K!Reserve, K!Free, K!Poll, K!Succeed, K!Error, K!Store, K!Release, K!Delete, K!Lapse, K!At
<1>2. ServicesInv /\ [Next]_vars => [K!StoredStaysStep]_keys
    BY <1>1, StepOfEach DEF ServicesInv
<1> QED BY <1>2, ServicesInvHolds, PTL DEF Spec, StoredStays

=============================================================================
