------------------------------ MODULE Identity ------------------------------
(***************************************************************************)
(* Accounts: from a Keycloak identity to an active user, and back out.     *)
(*                                                                         *)
(* Every authenticated request, and every webhook of Keycloak, brings what *)
(* a token or an event says about an identity, which may be old.  It reads *)
(* the user's row without a lock and writes the columns it changed; two of *)
(* them may overlap.  The profile form, the approval by an administrator   *)
(* and the deletion of an account lock the row and are one step each.      *)
(***************************************************************************)
EXTENDS Integers, FiniteSets

CONSTANTS
    Subs,        \* identities of Keycloak
    Emails,
    BootEmail,   \* BOOTSTRAP_SUPER_ADMIN_EMAIL
    Rows,        \* bound: rows of the table users
    Seed,        \* the row of the platform administrator
    Requests,    \* bound: requests and webhooks that are served at the same time
    MaxHomes     \* bound: workspaces that are created for one user

VARIABLES
    form, approval,  \* registration_require_profile_form, registration_require_admin_approval
    overlap,         \* whether requests of one identity overlap
    user,            \* the table users
    session,         \* target of the administrator's active impersonation session
    request,         \* what a request or webhook has read and computed
    approved,        \* history: users that an administrator approved
    enabled          \* history: users that Keycloak enabled again after it had suspended them

vars == <<form, approval, overlap, user, session, request, approved, enabled>>

NoUser == [status |-> "none"]

Idle == [row |-> "idle"]

\* The row that the deployment seeds for its first administrator.
SeededUser == [status |-> "pending_activation", sub |-> "placeholder", email |-> BootEmail,
               platform |-> TRUE, homes |-> 0]

Init ==
    /\ form \in BOOLEAN /\ approval \in BOOLEAN /\ overlap \in BOOLEAN
    /\ user = [r \in Rows |-> IF r = Seed THEN SeededUser ELSE NoUser]
    /\ session = "none"
    /\ request = [p \in Requests |-> Idle]
    /\ approved = {} /\ enabled = {}

Known == {r \in Rows : user[r] # NoUser}

-----------------------------------------------------------------------------
(* What an identity makes of a user.                                       *)

InitialStatus(verified) ==
    IF ~verified THEN "pending_email_verification"
    ELSE IF form \/ ~approval THEN "pending_profile"
    ELSE "pending_approval"

\* Fault: the approval is not looked at.
AutoProvisionsUnapproved(verified) == verified /\ ~form

\* Open registration.
AutoProvisions(verified) == verified /\ ~form /\ ~approval

\* A workspace of its own, and the user is active.
Activated(u) == [u EXCEPT !.status = "active", !.homes = @ + 1]

Synced(u, c) ==
    IF c.email = "none" THEN u
    ELSE [u EXCEPT !.email = c.email,
                   !.status = IF c.verified /\ @ = "pending_email_verification" THEN InitialStatus(TRUE) ELSE @]

AutoProvisioned(u, verified) ==
    IF /\ AutoProvisions(verified)
       /\ u.status \in {"pending_profile", "pending_email_verification", "pending_approval"}
    THEN Activated(u) ELSE u

\* The administrator is activated whatever became of the row, when its email is the configured one.
BootActivated(u, sub) ==
    IF u.platform /\ u.email = BootEmail
    THEN [u EXCEPT !.sub = sub, !.status = "active"] ELSE u

\* provision_user_from_keycloak, for an identity that has a row.
Provisioned(u, c) == BootActivated(AutoProvisioned(Synced(u, c), c.verified), c.sub)

NewUser(c) ==
    AutoProvisioned([status |-> InitialStatus(c.verified), sub |-> c.sub, email |-> c.email,
                     platform |-> FALSE, homes |-> 0], c.verified)

Available(email, r) == email = "none" \/ \A q \in Known \ {r} : user[q].email # email

\* What the webhooks of the console do.
Disabled(u, c) == [u EXCEPT !.status = "suspended"]

Enabled(u, c) == IF u.status = "suspended" THEN [u EXCEPT !.status = "active"] ELSE u

\* The row keeps its email.
Removed(u, c) == [u EXCEPT !.status = "deleted", !.sub = IF @ = "placeholder" THEN @ ELSE "gone"]

Applied(kind, u, c) ==
    CASE kind = "provision" -> Provisioned(u, c)
      [] kind = "disable" -> Disabled(u, c)
      [] kind = "enable" -> Enabled(u, c)
      [] kind = "delete" -> Removed(u, c)

-----------------------------------------------------------------------------
(* Requests and webhooks.                                                  *)

Claims == [sub : Subs, email : Emails \cup {"none"}, verified : BOOLEAN]

\* Of an event of the console, only whom it is about is used.
Said(kind) == IF kind = "provision" THEN Claims ELSE {c \in Claims : c.email = "none" /\ ~c.verified}

\* Without overlap, a request waits for the one that is under way.
Undisturbed == overlap \/ \A p \in Requests : request[p] = Idle

\* The columns that a request changes in the row it read, or inserts.
Column(old, new) == IF new = old THEN "same" ELSE new

Update(r, kind, old, new) ==
    [row |-> r, status |-> Column(old.status, new.status), sub |-> Column(old.sub, new.sub),
     email |-> Column(old.email, new.email), homes |-> new.homes - old.homes,
     inserts |-> FALSE, enables |-> kind = "enable" /\ old.status = "suspended"]

Insert(r, new) ==
    [row |-> r, status |-> new.status, sub |-> new.sub, email |-> new.email, homes |-> new.homes,
     inserts |-> TRUE, enables |-> FALSE]

\* The row of an identity is read, and what to write is computed.
Read(p) ==
    /\ request[p] = Idle
    /\ \E kind \in {"provision", "disable", "enable", "delete"} : \E c \in Said(kind), r \in Known :
          /\ user[r].sub = c.sub
          /\ kind = "provision" => Available(c.email, r)
          /\ Undisturbed
          /\ request' = [request EXCEPT ![p] = Update(r, kind, user[r], Applied(kind, user[r], c))]
    /\ UNCHANGED <<form, approval, overlap, user, session, approved, enabled>>

\* The same for an identity that has no row: it takes the administrator's, or a new one.
ReadNew(p) ==
    /\ request[p] = Idle
    /\ Undisturbed
    /\ \E c \in Claims, r \in Rows :
          /\ c.email # "none"
          /\ \A q \in Known : user[q].sub # c.sub
          /\ IF r \in Known
             THEN /\ user[r].platform /\ user[r].email = c.email /\ c.email = BootEmail
                  /\ user[r].status \in {"pending_activation", "active"}
                  /\ request' = [request EXCEPT ![p] = Update(r, "provision", user[r], BootActivated(user[r], c.sub))]
             ELSE /\ Available(c.email, r)
                  /\ request' = [request EXCEPT ![p] = Insert(r, NewUser(c))]
    /\ UNCHANGED <<form, approval, overlap, user, session, approved, enabled>>

\* The changed columns over the row as it is now.
Written(x) ==
    LET now == user[x.row]
        Put(new, kept) == IF new = "same" THEN kept ELSE new
    IN  IF x.inserts
        THEN [status |-> x.status, sub |-> x.sub, email |-> x.email, platform |-> FALSE, homes |-> x.homes]
        ELSE [status |-> Put(x.status, now.status), sub |-> Put(x.sub, now.sub), email |-> Put(x.email, now.email),
              platform |-> now.platform, homes |-> now.homes + x.homes]

\* The unique constraints: no other row has the identity or the email.
Unique(r, u) ==
    \A q \in Known \ {r} :
        /\ user[q].sub # u.sub \/ u.sub = "gone"
        /\ user[q].email # u.email \/ u.email = "anonymised"

Write(p) ==
    /\ request[p] # Idle
    /\ LET x == request[p]
       IN  /\ x.inserts => x.row \notin Known
           /\ Unique(x.row, Written(x))
           /\ Written(x).homes <= MaxHomes
           /\ user' = [user EXCEPT ![x.row] = Written(x)]
           /\ enabled' = IF x.enables THEN enabled \cup {x.row} ELSE enabled
    /\ request' = [request EXCEPT ![p] = Idle]
    /\ UNCHANGED <<form, approval, overlap, session, approved>>

\* An error, a conflict, a crash: nothing is written.
Fail(p) ==
    /\ request[p] # Idle
    /\ request' = [request EXCEPT ![p] = Idle]
    /\ UNCHANGED <<form, approval, overlap, user, session, approved, enabled>>

-----------------------------------------------------------------------------
(* The profile form, the approval, the end of an account.                  *)

CompleteProfile(r) ==
    /\ r \in Known /\ Undisturbed
    /\ user[r].status = "pending_profile"
    /\ user[r].homes < MaxHomes
    /\ user' = [user EXCEPT ![r] = IF approval THEN [@ EXCEPT !.status = "pending_approval"] ELSE Activated(@)]
    /\ UNCHANGED <<form, approval, overlap, session, request, approved, enabled>>

\* An administrator, who must not be impersonating anyone who cannot sign in.
Administers ==
    /\ \E r \in Known : user[r].platform /\ user[r].status = "active"
    /\ session # "none" => user[session].status \notin {"suspended", "rejected", "deleted"}

Approve(r) ==
    /\ r \in Known /\ Undisturbed /\ Administers
    /\ user[r].status = "pending_approval"
    /\ user[r].homes < MaxHomes
    /\ user' = [user EXCEPT ![r] = Activated(@)]
    /\ approved' = approved \cup {r}
    /\ UNCHANGED <<form, approval, overlap, session, request, enabled>>

Reject(r) ==
    /\ r \in Known /\ Undisturbed /\ Administers
    /\ user[r].status = "pending_approval"
    /\ user' = [user EXCEPT ![r].status = "rejected"]
    /\ UNCHANGED <<form, approval, overlap, session, request, approved, enabled>>

\* Whoever may sign in may delete the account; the identity stays on the row.
DeleteAccount(r) ==
    /\ r \in Known /\ Undisturbed
    /\ ~user[r].platform
    /\ user[r].status \notin {"suspended", "rejected", "deleted"}
    /\ user' = [user EXCEPT ![r].status = "deleted", ![r].email = "anonymised"]
    /\ UNCHANGED <<form, approval, overlap, session, request, approved, enabled>>

-----------------------------------------------------------------------------
(* Impersonation.                                                          *)

StartImpersonation(r) ==
    /\ r \in Known /\ Administers
    /\ session = "none"
    /\ ~user[r].platform /\ user[r].status = "active"
    /\ session' = r
    /\ UNCHANGED <<form, approval, overlap, user, request, approved, enabled>>

\* Out of reach while the target may not sign in.
StopImpersonation ==
    /\ session # "none" /\ Administers
    /\ session' = "none"
    /\ UNCHANGED <<form, approval, overlap, user, request, approved, enabled>>

-----------------------------------------------------------------------------

Next ==
    \/ \E p \in Requests : Read(p) \/ ReadNew(p) \/ Write(p) \/ Fail(p)
    \/ \E r \in Rows : CompleteProfile(r) \/ Approve(r) \/ Reject(r) \/ DeleteAccount(r) \/ StartImpersonation(r)
    \/ StopImpersonation

Spec == Init /\ [][Next]_vars

-----------------------------------------------------------------------------
(* Properties.                                                             *)

Statuses == {"pending_activation", "pending_email_verification", "pending_profile", "pending_approval",
             "active", "rejected", "suspended", "deleted"}

User == [status : Statuses, sub : Subs \cup {"placeholder", "gone"}, email : Emails \cup {"anonymised"},
         platform : BOOLEAN, homes : 0 .. MaxHomes]

Change == [row : Rows, status : Statuses \cup {"same"}, sub : Subs \cup {"same", "gone"},
           email : Emails \cup {"same"}, homes : {0, 1}, inserts : BOOLEAN, enables : BOOLEAN]

\* The rows and requests are of their types, and the unique constraints hold.
TypeOK ==
    /\ form \in BOOLEAN /\ approval \in BOOLEAN /\ overlap \in BOOLEAN
    /\ user \in [Rows -> User \cup {NoUser}]
    /\ session \in Known \cup {"none"}
    /\ request \in [Requests -> Change \cup {Idle}]
    /\ approved \subseteq Rows /\ enabled \subseteq Rows
    /\ \A q, r \in Known : q # r =>
          /\ user[q].sub = user[r].sub => user[r].sub = "gone"
          /\ user[q].email = user[r].email => user[r].email = "anonymised"

\* registration_require_admin_approval: whatever tokens, webhooks and forms arrive in
\* whatever order and overlap, a user becomes active by an approval only.  The one way around
\* it in the code is Keycloak's switch: a user it suspends while waiting comes back active.
ApprovalHolds ==
    approval => \A r \in Known : user[r].status = "active" =>
                    user[r].platform \/ r \in approved \/ r \in enabled

\* activate_user_with_workspace: an active user has a workspace of its own, also when the
\* activation and another request write the row at once; the exception is the same switch.
ActiveHasHome ==
    \A r \in Known : user[r].status = "active" =>
        user[r].platform \/ user[r].homes > 0 \/ r \in enabled

\* provision_user_from_keycloak is called by every request and webhook: as long as those of
\* one identity come one after the other, however old what they say, a user gets one
\* workspace, through whichever of the three ways to become active.
OneHome == ~overlap => \A r \in Known : user[r].homes <= 1

\* The same without the proviso.
ProvisionedOnce == \A r \in Known : user[r].homes <= 1

\* A user who was suspended or rejected, and whose requests come one after the other, is let
\* in again by Keycloak's switch only: no token, form or approval does.
StaysOutStep ==
    \A r \in Known :
        ~overlap /\ ~user[r].platform /\ user[r].status \in {"suspended", "rejected"}
            /\ user'[r].status \notin {user[r].status, "deleted", "suspended"} => r \in enabled'

\* delete_account replaces the email of a deleted account.
DeletedIsAnonymous ==
    [][\A r \in Known : user[r].status = "deleted" /\ user[r].email = "anonymised"
          => user'[r].email = "anonymised"]_vars

=============================================================================
