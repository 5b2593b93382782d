------------------------------ MODULE Tenancy ------------------------------
(***************************************************************************)
(* Workspaces, members, invitations and the end of accounts.               *)
(*                                                                         *)
(* Every request authenticates in one transaction and acts in a later one, *)
(* so what it was allowed to do is old when it does it.  The database runs *)
(* at READ COMMITTED: what a request may rely on is what it reads again    *)
(* under a row lock.  A request that takes the lock of a workspace, counts *)
(* its admins and commits is one step; one that reads first and writes     *)
(* later, or keeps a lock over several statements, is several.             *)
(***************************************************************************)
EXTENDS Integers, FiniteSets

CONSTANTS
    Users,       \* accounts that were set up, none of them platform staff
    Workspaces,
    Requests,    \* bound: requests that are served at the same time
    Invites,     \* bound: invitations
    Staff        \* a platform administrator: passes every check of a role

ASSUME TenancyAssumption ==
    /\ IsFiniteSet(Users)
    /\ Staff \notin Users

\* Operators and viewers differ in nothing that is modelled here.
Roles == {"admin", "viewer"}

VARIABLES
    workspace,   \* workspaces.status
    role,        \* workspace_memberships: the role of a user, or "none"
    invite,      \* workspace_invitations
    gone,        \* users whose account was deleted
    request,     \* what each request is about to do
    unguarded    \* history: workspaces that lost the protection of their last admin

vars == <<workspace, role, invite, gone, request, unguarded>>

Idle == [at |-> "idle"]

NoInvite == [state |-> "none"]

\* A workspace is created together with the membership of its first admin.
Init ==
    /\ workspace = [w \in Workspaces |-> "active"]
    /\ \E founder \in [Workspaces -> Users] :
          role = [w \in Workspaces |-> [u \in Users |-> IF u = founder[w] THEN "admin" ELSE "none"]]
    /\ invite = [i \in Invites |-> NoInvite]
    /\ gone = {}
    /\ request = [p \in Requests |-> Idle]
    /\ unguarded = {}

-----------------------------------------------------------------------------
(* Who may do what.                                                        *)

Member(w, u) == u \in Users /\ role[w][u] # "none"

Admins(w) == {u \in Users : role[w][u] = "admin"}

\* The workspace of a request: the one of its header unless that is suspended, or else
\* the only one, suspended or not.
Access(w, u) ==
    \/ u = Staff
    \/ /\ Member(w, u)
       /\ \/ workspace[w] # "suspended"
          \/ \A v \in Workspaces : Member(v, u) => v = w

\* Fault: the pending invitation is looked for without the lock of the workspace.
HoldsToClose(p) == IF request[p].at = "close" THEN request[p].counted ELSE {}

\* Rows of workspaces that a request holds until it commits.
Holds(p) ==
    IF request[p].at = "insert" THEN {request[p].ws}
    ELSE IF request[p].at = "close" THEN request[p].counted
    ELSE {}

\* The row of a user who deletes the account is locked as well.
Closes(p, u) == request[p].at = "close" /\ request[p].by = u

Free(w) == \A p \in Requests : w \notin Holds(p)

\* Fault: the admins are counted without the lock of the workspace.
MayLoseUnlocked(w) == Cardinality(Admins(w)) > 1

\* The lock of the workspace is taken, then its admins are counted.
MayLoseAdmin(w) == Free(w) /\ Cardinality(Admins(w)) > 1

\* Authentication.  The account is looked at again only by the requests that say so.
Begin(p) ==
    /\ request[p] = Idle
    /\ \E u \in (Users \ gone) \cup {Staff}, w \in Workspaces :
          /\ Access(w, u)
          /\ request' = [request EXCEPT ![p] =
                [at |-> "ready", by |-> u, ws |-> w, admin |-> u = Staff \/ u \in Admins(w)]]
    /\ UNCHANGED <<workspace, role, invite, gone, unguarded>>

\* A refusal, an error, an aborted transaction: nothing was written.
End(p) ==
    /\ request[p] # Idle
    /\ request' = [request EXCEPT ![p] = Idle]
    /\ UNCHANGED <<workspace, role, invite, gone, unguarded>>

Done(p) == request' = [request EXCEPT ![p] = Idle]

ActsAsAdmin(p) == request[p].at = "ready" /\ request[p].admin

-----------------------------------------------------------------------------
(* Members.                                                                *)

ChangeRole(p) ==
    /\ ActsAsAdmin(p)
    /\ LET w == request[p].ws
       IN  \E u \in Users, r \in Roles :
              /\ Member(w, u)
              /\ role[w][u] = "admin" /\ r # "admin" => MayLoseAdmin(w)
              /\ role' = [role EXCEPT ![w][u] = r]
    /\ Done(p)
    /\ UNCHANGED <<workspace, invite, gone, unguarded>>

RemoveMember(p) ==
    /\ ActsAsAdmin(p)
    /\ LET w == request[p].ws
       IN  \E u \in Users :
              /\ Member(w, u)
              /\ role[w][u] = "admin" => MayLoseAdmin(w)
              /\ role' = [role EXCEPT ![w][u] = "none"]
    /\ Done(p)
    /\ UNCHANGED <<workspace, invite, gone, unguarded>>

Leave(p) ==
    /\ request[p].at = "ready"
    /\ LET w == request[p].ws
           u == request[p].by
       IN  /\ Member(w, u)
           /\ role[w][u] = "admin" => MayLoseAdmin(w)
           /\ role' = [role EXCEPT ![w][u] = "none"]
    /\ Done(p)
    /\ UNCHANGED <<workspace, invite, gone, unguarded>>

-----------------------------------------------------------------------------
(* Workspaces.  A paying one is refused (End); its invitations stay.       *)

DeleteWorkspace(p) ==
    /\ ActsAsAdmin(p)
    /\ LET w == request[p].ws
       IN  /\ Free(w)
           /\ workspace[w] # "deleted"
           /\ workspace' = [workspace EXCEPT ![w] = "deleted"]
           /\ role' = [role EXCEPT ![w] = [u \in Users |-> "none"]]
    /\ Done(p)
    /\ UNCHANGED <<invite, gone, unguarded>>

\* The console's two buttons ask nothing of the workspace: a deleted one comes back.
SetStatus(w, status) ==
    /\ workspace[w] # status
    /\ workspace' = [workspace EXCEPT ![w] = status]
    /\ unguarded' = IF workspace[w] = "deleted" THEN unguarded \cup {w} ELSE unguarded
    /\ UNCHANGED <<role, invite, gone, request>>

SuspendWorkspace(w) == Free(w) /\ SetStatus(w, "suspended")

UnsuspendWorkspace(w) == Free(w) /\ SetStatus(w, "active")

-----------------------------------------------------------------------------
(* Invitations.                                                            *)

\* Whether the invitee is a member is read before the lock of the workspace is taken.
Invite(p) ==
    /\ ActsAsAdmin(p)
    /\ \E u \in Users, r \in Roles :
          /\ ~Member(request[p].ws, u) \/ u \in gone
          /\ request' = [request EXCEPT ![p] = [at |-> "lock", ws |-> request[p].ws, to |-> u, as |-> r]]
    /\ UNCHANGED <<workspace, role, invite, gone, unguarded>>

Pending(i) == invite[i].state = "pending" /\ invite[i].live

LockForInvite(p) ==
    /\ request[p].at = "lock"
    /\ Free(request[p].ws)
    /\ ~\E i \in Invites :
          Pending(i) /\ invite[i].ws = request[p].ws /\ invite[i].to = request[p].to
    /\ request' = [request EXCEPT ![p].at = "insert"]
    /\ UNCHANGED <<workspace, role, invite, gone, unguarded>>

InsertInvite(p) ==
    /\ request[p].at = "insert"
    /\ \E i \in Invites :
          /\ invite[i] = NoInvite
          /\ invite' = [invite EXCEPT ![i] =
                [state |-> "pending", live |-> TRUE, ws |-> request[p].ws, to |-> request[p].to,
                 as |-> request[p].as, accepted |-> FALSE]]
    /\ Done(p)
    /\ UNCHANGED <<workspace, role, gone, unguarded>>

\* Seven days pass; no one writes that down.
Expire(i) ==
    /\ Pending(i)
    /\ invite' = [invite EXCEPT ![i].live = FALSE]
    /\ UNCHANGED <<workspace, role, gone, request, unguarded>>

\* The route loads the user who accepts, and the service believes it.
BeginAccept(p) ==
    /\ request[p] = Idle
    /\ \E u \in Users \ gone, i \in Invites :
          /\ invite[i] # NoInvite
          /\ request' = [request EXCEPT ![p] = [at |-> "accept", by |-> u, inv |-> i]]
    /\ UNCHANGED <<workspace, role, invite, gone, unguarded>>

\* What is looked at once the row of the invitation is locked.
Acceptable(i, u) == Pending(i) /\ invite[i].to = u /\ ~Member(invite[i].ws, u)

\* The new row refers to a workspace and a user, and waits for who locked them.
Inserts(w, u) == Free(w) /\ ~\E q \in Requests : Closes(q, u)

Accept(p) ==
    /\ request[p].at = "accept"
    /\ LET i == request[p].inv
           u == request[p].by
       IN  /\ Acceptable(i, u)
           /\ Inserts(invite[i].ws, u)
           /\ role' = [role EXCEPT ![invite[i].ws][u] = invite[i].as]
           /\ invite' = [invite EXCEPT ![i].state = "accepted", ![i].accepted = TRUE]
           /\ unguarded' = IF u \in gone THEN unguarded \cup {invite[i].ws} ELSE unguarded
    /\ Done(p)
    /\ UNCHANGED <<workspace, gone>>

BeginRevoke(p) ==
    /\ ActsAsAdmin(p)
    /\ \E i \in Invites :
          /\ invite[i].state = "pending"
          /\ invite[i].ws = request[p].ws
          /\ request' = [request EXCEPT ![p] = [at |-> "revoke", inv |-> i]]
    /\ UNCHANGED <<workspace, role, invite, gone, unguarded>>

\* The row was not locked: it may have been accepted since.
Revoke(p) ==
    /\ request[p].at = "revoke"
    /\ invite' = [invite EXCEPT ![request[p].inv].state = "revoked"]
    /\ Done(p)
    /\ UNCHANGED <<workspace, role, gone, unguarded>>

-----------------------------------------------------------------------------
(* The end of an account.                                                  *)

\* The user is locked and the workspaces that it administers are listed.
BeginClose(p) ==
    /\ request[p] = Idle
    /\ \E u \in Users \ gone :
          /\ \A q \in Requests : ~Closes(q, u)
          /\ request' = [request EXCEPT ![p] =
                [at |-> "close", by |-> u, todo |-> {w \in Workspaces : u \in Admins(w)}, counted |-> {}]]
    /\ UNCHANGED <<workspace, role, invite, gone, unguarded>>

CountAdmins(p) ==
    /\ request[p].at = "close"
    /\ \E w \in request[p].todo \ request[p].counted :
          /\ MayLoseAdmin(w)
          /\ request' = [request EXCEPT ![p].counted = @ \cup {w}]
    /\ UNCHANGED <<workspace, role, invite, gone, unguarded>>

\* Every membership goes, also one that was granted since the list was read.
Close(p) ==
    /\ request[p].at = "close"
    /\ request[p].todo = request[p].counted
    /\ LET u == request[p].by
       IN  /\ gone' = gone \cup {u}
           /\ role' = [w \in Workspaces |-> [role[w] EXCEPT ![u] = "none"]]
           /\ unguarded' = unguarded \cup {w \in Workspaces \ request[p].counted : u \in Admins(w)}
    /\ Done(p)
    /\ UNCHANGED <<workspace, invite>>

-----------------------------------------------------------------------------

Next ==
    \/ \E p \in Requests :
          \/ Begin(p) \/ End(p)
          \/ ChangeRole(p) \/ RemoveMember(p) \/ Leave(p) \/ DeleteWorkspace(p)
          \/ Invite(p) \/ LockForInvite(p) \/ InsertInvite(p)
          \/ BeginAccept(p) \/ Accept(p) \/ BeginRevoke(p) \/ Revoke(p)
          \/ BeginClose(p) \/ CountAdmins(p) \/ Close(p)
    \/ \E w \in Workspaces : SuspendWorkspace(w) \/ UnsuspendWorkspace(w)
    \/ \E i \in Invites : Expire(i)

Spec == Init /\ [][Next]_vars

-----------------------------------------------------------------------------
(* Properties.                                                             *)

Ready == [at : {"ready"}, by : Users \cup {Staff}, ws : Workspaces, admin : BOOLEAN]

Inviting == [at : {"lock", "insert"}, ws : Workspaces, to : Users, as : Roles]

Closing == [at : {"close"}, by : Users, todo : SUBSET Workspaces, counted : SUBSET Workspaces]

Request ==
    {Idle} \cup Ready \cup Inviting \cup Closing
    \cup [at : {"accept"}, by : Users, inv : Invites]
    \cup [at : {"revoke"}, inv : Invites]

Invitation ==
    {NoInvite}
    \cup [state : {"pending", "accepted", "revoked"}, live : BOOLEAN, ws : Workspaces, to : Users,
          as : Roles, accepted : BOOLEAN]

\* What the rows and the requests may hold; no two requests hold a workspace.
TypeOK ==
    /\ workspace \in [Workspaces -> {"active", "suspended", "deleted"}]
    /\ role \in [Workspaces -> [Users -> Roles \cup {"none"}]]
    /\ invite \in [Invites -> Invitation]
    /\ gone \subseteq Users
    /\ request \in [Requests -> Request]
    /\ unguarded \subseteq Workspaces
    /\ \A p, q \in Requests : p # q => Holds(p) \cap Holds(q) = {}

\* _assert_not_last_admin and _assert_not_sole_workspace_admin together: however the
\* demotions, removals, leaves and account deletions of several requests interleave, a
\* workspace that was not deleted has an admin whose account exists.  What the code does
\* not protect is recorded in unguarded: a deleted workspace that the console revives, an
\* account that is deleted while it is promoted, an invitation that is accepted by a
\* request of an account deleted meanwhile.
KeepsAnAdmin ==
    \A w \in Workspaces \ unguarded :
        workspace[w] # "deleted" => \E u \in Users \ gone : role[w][u] = "admin"

\* create_invitation looks for a pending invitation under the lock of the workspace: two
\* admins that invite the same address at once leave one invitation that can be used.
OnePendingInvitation ==
    \A i, j \in Invites :
        Pending(i) /\ Pending(j) /\ invite[i].ws = invite[j].ws /\ invite[i].to = invite[j].to => i = j

\* accept_invitation believes only the row it locked: once revoked, an invitation lets
\* nobody in any more, not even a request that began before.
RevokedIsFinal ==
    [][\A i \in Invites : invite[i].state = "revoked" => invite'[i] \in {invite[i], [invite[i] EXCEPT !.live = FALSE]}]_vars

=============================================================================
