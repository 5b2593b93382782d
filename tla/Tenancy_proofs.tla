--------------------------- MODULE Tenancy_proofs ---------------------------
(***************************************************************************)
(* Proofs that a workspace keeps an admin and that an address has one      *)
(* pending invitation to it, for any number of users, workspaces,          *)
(* invitations and requests.                                               *)
(***************************************************************************)
EXTENDS Tenancy, FiniteSetTheorems, TLAPS

LockedOnce == \A p, q \in Requests : p # q => Holds(p) \cap Holds(q) = {}

\* The memberships of a deleted account are gone with it.
GoneHaveNoRole == \A w \in Workspaces \ unguarded, u \in gone : role[w][u] = "none"

\* A workspace that a deletion of an account has counted, and still locks, has another admin.
CountedHasAnother ==
    \A p \in Requests :
        request[p].at = "close" =>
            \A w \in request[p].counted \ unguarded :
                workspace[w] # "deleted" =>
                    \E u \in Users \ gone : u # request[p].by /\ role[w][u] = "admin"

\* An invitation that is about to be revoked is there.
RevokesWhatIsThere ==
    \A p \in Requests : request[p].at = "revoke" => invite[request[p].inv] # NoInvite

IInv == TypeOK /\ RevokesWhatIsThere /\ GoneHaveNoRole /\ CountedHasAnother /\ KeepsAnAdmin

\* Invitations are written and rewritten, never deleted.
InvitesKept ==
    /\ invite' \in [Invites -> Invitation]
    /\ \A i \in Invites : invite[i] # NoInvite => invite'[i] # NoInvite

-----------------------------------------------------------------------------
(* Admins and locks.                                                       *)

\* Of more than one admin, one is left whoever goes.
LEMMA AnotherAdmin ==
  ASSUME NEW w \in Workspaces, NEW v, Cardinality(Admins(w)) > 1
  PROVE  \E u \in Admins(w) : u # v
<1> SUFFICES ASSUME \A u \in Admins(w) : u = v PROVE FALSE
  OBVIOUS
<1>1. Admins(w) \subseteq {v}
  OBVIOUS
<1>2. IsFiniteSet({v}) /\ Cardinality({v}) = 1
  BY FS_Singleton
<1>3. Cardinality(Admins(w)) <= 1
  BY <1>1, <1>2, FS_Subset
<1>4. Cardinality(Admins(w)) \in Nat
  BY <1>1, <1>2, FS_Subset, FS_CardinalityType
<1> QED BY <1>3, <1>4

\* The same, among the accounts that exist.
LEMMA AnotherLivingAdmin ==
  ASSUME IInv, NEW w \in Workspaces \ unguarded, NEW v, MayLoseAdmin(w)
  PROVE  \E u \in Users \ gone : u # v /\ role[w][u] = "admin"
<1>1. PICK u \in Admins(w) : u # v
  BY AnotherAdmin DEF MayLoseAdmin
<1>2. u \in Users /\ role[w][u] = "admin"
  BY DEF Admins
<1>3. u \notin gone
  BY <1>2 DEF IInv, GoneHaveNoRole
<1> QED BY <1>1, <1>2, <1>3

\* A workspace that is counted is not free.
LEMMA CountedIsHeld ==
  ASSUME NEW p \in Requests, request[p].at = "close", NEW w \in request[p].counted
  PROVE  ~Free(w)
  BY DEF Free, Holds

\* Requests are disjoint kinds of records.
LEMMA Kinds ==
  ASSUME TypeOK, NEW p \in Requests
  PROVE  /\ request[p].at = "ready" => request[p] \in Ready
         /\ request[p].at \in {"lock", "insert"} => request[p] \in Inviting
         /\ request[p].at = "close" => request[p] \in Closing
         /\ request[p].at = "accept" => request[p].by \in Users /\ request[p].inv \in Invites
         /\ request[p].at = "revoke" => request[p].inv \in Invites
<1>1. request[p] \in Request
  BY DEF TypeOK
<1> QED BY <1>1 DEF Request, Idle, Ready, Inviting, Closing

-----------------------------------------------------------------------------
(* Requests that take or keep no lock.                                     *)

\* A request that moves on without a lock, and changes no row.
LEMMA Moves ==
  ASSUME IInv, NEW p \in Requests, NEW r \in Request, r.at \notin {"insert", "close"},
         request' = [request EXCEPT ![p] = r],
         r.at = "revoke" => invite[r.inv] # NoInvite /\ r.inv \in Invites,
         UNCHANGED <<workspace, role, gone, unguarded>>, InvitesKept
  PROVE  IInv'
<1>1. request' \in [Requests -> Request]
  BY DEF IInv, TypeOK
<1>2. \A q \in Requests : q # p => request'[q] = request[q]
  BY DEF IInv, TypeOK
<1>3. request'[p] = r
  BY DEF IInv, TypeOK
<1>4. Holds(p)' = {}
  BY <1>3 DEF Holds
<1>5. \A q \in Requests : q # p => Holds(q)' = Holds(q)
  BY <1>2 DEF Holds
<1>6. TypeOK'
  BY <1>1, <1>4, <1>5 DEF IInv, TypeOK, InvitesKept
<1>7. CountedHasAnother'
  BY <1>2, <1>3 DEF IInv, CountedHasAnother
<1>8. \A q \in Requests : request[q].at = "revoke" => request[q].inv \in Invites
  BY Kinds DEF IInv
<1>9. RevokesWhatIsThere'
  BY <1>2, <1>3, <1>8 DEF IInv, RevokesWhatIsThere, InvitesKept
<1> QED BY <1>6, <1>7, <1>9 DEF IInv, GoneHaveNoRole, KeepsAnAdmin

LEMMA BeginStep ==
  ASSUME IInv, NEW p \in Requests, Begin(p)
  PROVE  IInv'
<1>1. PICK u \in (Users \ gone) \cup {Staff}, w \in Workspaces :
         request' = [request EXCEPT ![p] =
            [at |-> "ready", by |-> u, ws |-> w, admin |-> u = Staff \/ u \in Admins(w)]]
  BY DEF Begin
<1> DEFINE r == [at |-> "ready", by |-> u, ws |-> w, admin |-> u = Staff \/ u \in Admins(w)]
<1>2. r \in Ready
  BY DEF Ready
<1>3. r \in Request /\ r.at \notin {"insert", "close", "revoke"}
  BY <1>2 DEF Request
<1>4. UNCHANGED <<workspace, role, gone, unguarded>> /\ InvitesKept
  BY DEF Begin, IInv, TypeOK, InvitesKept
<1> HIDE DEF r
<1> QED BY <1>1, <1>3, <1>4, Moves DEF r

LEMMA DoneStep ==
  ASSUME IInv, NEW p \in Requests, Done(p), UNCHANGED <<workspace, role, gone, unguarded>>, InvitesKept
  PROVE  IInv'
<1>1. Idle \in Request /\ Idle.at \notin {"insert", "close", "revoke"}
  BY DEF Request, Idle
<1> QED BY <1>1, Moves DEF Done

LEMMA InviteStep ==
  ASSUME IInv, NEW p \in Requests, Invite(p)
  PROVE  IInv'
<1>1. PICK u \in Users, a \in Roles :
         request' = [request EXCEPT ![p] = [at |-> "lock", ws |-> request[p].ws, to |-> u, as |-> a]]
  BY DEF Invite
<1> DEFINE r == [at |-> "lock", ws |-> request[p].ws, to |-> u, as |-> a]
<1>2. request[p].ws \in Workspaces
  BY Kinds DEF IInv, Invite, ActsAsAdmin, Ready
<1>3. r \in Inviting
  BY <1>2 DEF Inviting
<1>4. r \in Request /\ r.at \notin {"insert", "close", "revoke"}
  BY <1>3 DEF Request
<1>5. UNCHANGED <<workspace, role, gone, unguarded>> /\ InvitesKept
  BY DEF Invite, IInv, TypeOK, InvitesKept
<1> HIDE DEF r
<1> QED BY <1>1, <1>4, <1>5, Moves DEF r

LEMMA BeginAcceptStep ==
  ASSUME IInv, NEW p \in Requests, BeginAccept(p)
  PROVE  IInv'
<1>1. PICK u \in Users, i \in Invites :
         request' = [request EXCEPT ![p] = [at |-> "accept", by |-> u, inv |-> i]]
  BY DEF BeginAccept
<1> DEFINE r == [at |-> "accept", by |-> u, inv |-> i]
<1>2. r \in Request /\ r.at \notin {"insert", "close", "revoke"}
  BY DEF Request
<1>3. UNCHANGED <<workspace, role, gone, unguarded>> /\ InvitesKept
  BY DEF BeginAccept, IInv, TypeOK, InvitesKept
<1> HIDE DEF r
<1> QED BY <1>1, <1>2, <1>3, Moves DEF r

LEMMA BeginRevokeStep ==
  ASSUME IInv, NEW p \in Requests, BeginRevoke(p)
  PROVE  IInv'
<1>1. PICK i \in Invites : /\ invite[i].state = "pending"
                          /\ request' = [request EXCEPT ![p] = [at |-> "revoke", inv |-> i]]
  BY DEF BeginRevoke
<1>0. invite[i] # NoInvite
  BY <1>1 DEF NoInvite
<1> DEFINE r == [at |-> "revoke", inv |-> i]
<1>2. r \in Request /\ r.at \notin {"insert", "close"} /\ r.inv = i
  BY DEF Request
<1>3. UNCHANGED <<workspace, role, gone, unguarded>> /\ InvitesKept
  BY DEF BeginRevoke, IInv, TypeOK, InvitesKept
<1> HIDE DEF r
<1> QED BY <1>0, <1>1, <1>2, <1>3, Moves DEF r

\* An invitation that is not there is not pending, accepted or revoked.
LEMMA Invited ==
  ASSUME TypeOK, NEW i \in Invites, invite[i] # NoInvite
  PROVE  invite[i] \in [state : {"pending", "accepted", "revoked"}, live : BOOLEAN, ws : Workspaces,
                        to : Users, as : Roles, accepted : BOOLEAN]
  BY DEF TypeOK, Invitation

LEMMA InsertInviteStep ==
  ASSUME IInv, NEW p \in Requests, InsertInvite(p)
  PROVE  IInv'
<1>1. request[p] \in Inviting
  BY Kinds DEF IInv, InsertInvite
<1>2. PICK i \in Invites : invite' = [invite EXCEPT ![i] =
                [state |-> "pending", live |-> TRUE, ws |-> request[p].ws, to |-> request[p].to,
                 as |-> request[p].as, accepted |-> FALSE]]
  BY DEF InsertInvite
<1>3. [state |-> "pending", live |-> TRUE, ws |-> request[p].ws, to |-> request[p].to,
       as |-> request[p].as, accepted |-> FALSE] \in Invitation
  BY <1>1 DEF Inviting, Invitation
<1>4. InvitesKept
  BY <1>2, <1>3 DEF IInv, TypeOK, InvitesKept, NoInvite
<1> QED BY <1>4, DoneStep DEF InsertInvite

LEMMA RevokeStep ==
  ASSUME IInv, NEW p \in Requests, Revoke(p)
  PROVE  IInv'
<1>1. PICK i \in Invites : i = request[p].inv
  BY Kinds DEF IInv, Revoke
<1> DEFINE j == [invite[i] EXCEPT !.state = "revoked"]
<1>2. invite[i] # NoInvite
  BY <1>1 DEF IInv, RevokesWhatIsThere, Revoke
<1>3. j \in Invitation /\ j.state = "revoked"
  BY <1>2, Invited DEF IInv, Invitation
<1>4. invite' = [invite EXCEPT ![i] = j]
  BY <1>1 DEF Revoke
<1> HIDE DEF j
<1>5. InvitesKept
  BY <1>3, <1>4 DEF IInv, TypeOK, InvitesKept, NoInvite
<1> QED BY <1>5, DoneStep DEF Revoke

LEMMA ExpireStep ==
  ASSUME IInv, NEW i \in Invites, Expire(i)
  PROVE  IInv'
<1> DEFINE j == [invite[i] EXCEPT !.live = FALSE]
<1>1. invite[i] # NoInvite
  BY DEF Expire, Pending, NoInvite
<1>2. j \in Invitation /\ j.state = invite[i].state
  BY <1>1, Invited DEF IInv, Invitation
<1>3. j # NoInvite
  BY <1>2 DEF Expire, Pending, NoInvite
<1>4. invite' = [invite EXCEPT ![i] = j]
  BY DEF Expire
<1> HIDE DEF j
<1>5. InvitesKept
  BY <1>2, <1>3, <1>4 DEF IInv, TypeOK, InvitesKept
<1>6. UNCHANGED <<workspace, role, gone, request, unguarded>>
  BY DEF Expire
<1>7. TypeOK'
  BY <1>5, <1>6 DEF IInv, TypeOK, InvitesKept, Holds
<1>8. \A q \in Requests : request[q].at = "revoke" => request[q].inv \in Invites
  BY Kinds DEF IInv
<1>9. RevokesWhatIsThere'
  BY <1>5, <1>6, <1>8 DEF IInv, RevokesWhatIsThere, InvitesKept
<1> QED BY <1>6, <1>7, <1>9 DEF IInv, GoneHaveNoRole, CountedHasAnother, KeepsAnAdmin

-----------------------------------------------------------------------------
(* Requests that write memberships.                                        *)

\* What a request that is done leaves of the other requests.
LEMMA Ends ==
  ASSUME IInv, NEW p \in Requests, Done(p)
  PROVE  /\ request' \in [Requests -> Request]
         /\ request'[p] = Idle
         /\ \A q \in Requests : q # p => request'[q] = request[q] /\ Holds(q)' = Holds(q)
         /\ Holds(p)' = {}
         /\ LockedOnce'
         /\ \A q \in Requests : request'[q].at \in {"close", "revoke"} => request'[q] = request[q]
<1>1. Idle \in Request
  BY DEF Request
<1>2. request' \in [Requests -> Request] /\ request'[p] = Idle
  BY <1>1 DEF IInv, TypeOK, Done
<1>3. \A q \in Requests : q # p => request'[q] = request[q]
  BY DEF IInv, TypeOK, Done
<1>4. \A q \in Requests : q # p => Holds(q)' = Holds(q)
  BY <1>3 DEF Holds
<1>5. Holds(p)' = {}
  BY <1>2 DEF Holds, Idle
<1>6. LockedOnce'
  BY <1>4, <1>5 DEF IInv, TypeOK, LockedOnce
<1>7. \A q \in Requests : request'[q].at \in {"close", "revoke"} => request'[q] = request[q]
  BY <1>2, <1>3 DEF Idle
<1> QED BY <1>2, <1>3, <1>4, <1>5, <1>6, <1>7

\* A member gets another role, or none: no workspace loses its last admin.
LEMMA RoleStep ==
  ASSUME IInv, NEW p \in Requests, Done(p), NEW w \in Workspaces, NEW u \in Users,
         NEW r \in Roles \cup {"none"}, Member(w, u),
         role[w][u] = "admin" /\ r # "admin" => MayLoseAdmin(w),
         role' = [role EXCEPT ![w][u] = r],
         UNCHANGED <<workspace, invite, gone, unguarded>>
  PROVE  IInv'
<1>1. \A x \in Workspaces, v \in Users : role'[x][v] = IF x = w /\ v = u THEN r ELSE role[x][v]
  BY DEF IInv, TypeOK
<1>2. TypeOK'
  <2>1. role' \in [Workspaces -> [Users -> Roles \cup {"none"}]]
    BY DEF IInv, TypeOK
  <2> QED BY <2>1, Ends DEF IInv, TypeOK, LockedOnce
<1>3. GoneHaveNoRole'
  <2> SUFFICES ASSUME NEW x \in Workspaces \ unguarded, NEW v \in gone
               PROVE  role'[x][v] = "none"
    BY DEF GoneHaveNoRole
  <2>1. role[x][v] = "none" /\ v \in Users
    BY DEF IInv, TypeOK, GoneHaveNoRole
  <2> QED BY <1>1, <2>1 DEF Member
<1>4. CountedHasAnother'
  <2> SUFFICES ASSUME NEW q \in Requests, request'[q].at = "close",
                      NEW x \in request'[q].counted \ unguarded, workspace[x] # "deleted"
               PROVE  \E v \in Users \ gone : v # request'[q].by /\ role'[x][v] = "admin"
    BY DEF CountedHasAnother
  <2>1. request'[q] = request[q]
    BY Ends
  <2>2. x \in Workspaces
    BY <2>1, Kinds DEF IInv, Closing
  <2>3. PICK v \in Users \ gone : v # request[q].by /\ role[x][v] = "admin"
    BY <2>1 DEF IInv, CountedHasAnother
  <2>4. x # w \/ v # u \/ r = "admin"
    BY <2>1, <2>3, CountedIsHeld DEF MayLoseAdmin
  <2> QED BY <1>1, <2>1, <2>2, <2>3, <2>4
<1>5. KeepsAnAdmin'
  <2> SUFFICES ASSUME NEW x \in Workspaces \ unguarded, workspace[x] # "deleted"
               PROVE  \E v \in Users \ gone : role'[x][v] = "admin"
    BY DEF KeepsAnAdmin
  <2>1. PICK v \in Users \ gone : role[x][v] = "admin"
    BY DEF IInv, KeepsAnAdmin
  <2>2. CASE x # w \/ v # u \/ r = "admin"
    BY <1>1, <2>1, <2>2
  <2>3. CASE x = w /\ v = u /\ r # "admin"
    <3>1. PICK y \in Users \ gone : y # u /\ role[w][y] = "admin"
      BY <2>1, <2>3, AnotherLivingAdmin
    <3> QED BY <1>1, <2>3, <3>1
  <2> QED BY <2>2, <2>3
<1>6. RevokesWhatIsThere'
  BY Ends DEF IInv, RevokesWhatIsThere
<1> QED BY <1>2, <1>3, <1>4, <1>5, <1>6 DEF IInv

LEMMA AcceptStep ==
  ASSUME IInv, NEW p \in Requests, Accept(p)
  PROVE  IInv'
<1>1. PICK i \in Invites, u \in Users : i = request[p].inv /\ u = request[p].by
  BY Kinds DEF IInv, Accept
<1>2. invite[i] # NoInvite
  BY <1>1 DEF Accept, Acceptable, Pending, NoInvite
<1> DEFINE w == invite[i].ws
           a == invite[i].as
<1>3. w \in Workspaces /\ a \in Roles
  BY <1>2, Invited DEF IInv
<1>4. role' = [role EXCEPT ![w][u] = a] /\ ~Member(w, u)
  BY <1>1 DEF Accept, Acceptable
<1>5. unguarded' = IF u \in gone THEN unguarded \cup {w} ELSE unguarded
  BY <1>1 DEF Accept
<1>6. Done(p) /\ UNCHANGED <<workspace, gone>>
  BY DEF Accept
<1>7. [invite[i] EXCEPT !.state = "accepted", !.accepted = TRUE] \in Invitation
  BY <1>2, Invited DEF IInv, Invitation
<1>8. InvitesKept
  <2> DEFINE j == [invite[i] EXCEPT !.state = "accepted", !.accepted = TRUE]
  <2>1. j.state = "accepted"
    BY <1>2, Invited DEF IInv
  <2>2. invite' = [invite EXCEPT ![i] = j]
    BY <1>1 DEF Accept
  <2>3. j \in Invitation
    BY <1>7
  <2> HIDE DEF j
  <2> QED BY <2>1, <2>2, <2>3 DEF IInv, TypeOK, InvitesKept, NoInvite
<1> HIDE DEF w, a
<1>9. \A x \in Workspaces, v \in Users : role'[x][v] = IF x = w /\ v = u THEN a ELSE role[x][v]
  BY <1>3, <1>4 DEF IInv, TypeOK
<1>10. \A x \in Workspaces, v \in Users : role[x][v] # "none" => role'[x][v] = role[x][v]
  BY <1>4, <1>9 DEF Member
<1>11. TypeOK'
  <2>1. role' \in [Workspaces -> [Users -> Roles \cup {"none"}]]
    BY <1>3, <1>4 DEF IInv, TypeOK
  <2>2. unguarded' \subseteq Workspaces
    BY <1>3, <1>5 DEF IInv, TypeOK
  <2> QED BY <1>6, <1>8, <2>1, <2>2, Ends DEF IInv, TypeOK, LockedOnce, InvitesKept
<1>12. GoneHaveNoRole'
  <2> SUFFICES ASSUME NEW x \in Workspaces \ unguarded', NEW v \in gone
               PROVE  role'[x][v] = "none"
    BY <1>6 DEF GoneHaveNoRole
  <2>1. role[x][v] = "none" /\ v \in Users
    BY <1>5 DEF IInv, TypeOK, GoneHaveNoRole
  <2> QED BY <1>5, <1>9, <2>1
<1>13. CountedHasAnother'
  <2> SUFFICES ASSUME NEW q \in Requests, request'[q].at = "close",
                      NEW x \in request'[q].counted \ unguarded', workspace[x] # "deleted"
               PROVE  \E v \in Users \ gone : v # request'[q].by /\ role'[x][v] = "admin"
    BY <1>6 DEF CountedHasAnother
  <2>1. request'[q] = request[q]
    BY <1>6, Ends
  <2>2. x \in Workspaces /\ x \notin unguarded
    BY <1>5, <2>1, Kinds DEF IInv, Closing
  <2>3. PICK v \in Users \ gone : v # request[q].by /\ role[x][v] = "admin"
    BY <2>1, <2>2 DEF IInv, CountedHasAnother
  <2> QED BY <1>10, <2>1, <2>2, <2>3
<1>14. KeepsAnAdmin'
  BY <1>5, <1>6, <1>10 DEF IInv, KeepsAnAdmin
<1>15. RevokesWhatIsThere'
  <2>1. \A q \in Requests : request[q].at = "revoke" => request[q].inv \in Invites
    BY Kinds DEF IInv
  <2> QED BY <1>6, <1>8, <2>1, Ends DEF IInv, RevokesWhatIsThere, InvitesKept
<1> QED BY <1>11, <1>12, <1>13, <1>14, <1>15 DEF IInv

-----------------------------------------------------------------------------
(* Workspaces.                                                             *)

LEMMA DeleteWorkspaceStep ==
  ASSUME IInv, NEW p \in Requests, DeleteWorkspace(p)
  PROVE  IInv'
<1>1. PICK w \in Workspaces : w = request[p].ws
  BY Kinds DEF IInv, DeleteWorkspace, ActsAsAdmin, Ready
<1>2. /\ Free(w)
      /\ workspace' = [workspace EXCEPT ![w] = "deleted"]
      /\ role' = [role EXCEPT ![w] = [u \in Users |-> "none"]]
      /\ Done(p)
      /\ UNCHANGED <<invite, gone, unguarded>>
  BY <1>1 DEF DeleteWorkspace
<1>3. \A x \in Workspaces : x # w => workspace'[x] = workspace[x] /\ role'[x] = role[x]
  BY <1>2 DEF IInv, TypeOK
<1>4. workspace'[w] = "deleted" /\ \A u \in Users : role'[w][u] = "none"
  BY <1>2 DEF IInv, TypeOK
<1>5. TypeOK'
  <2>1. role' \in [Workspaces -> [Users -> Roles \cup {"none"}]]
    BY <1>2 DEF IInv, TypeOK
  <2>2. workspace' \in [Workspaces -> {"active", "suspended", "deleted"}]
    BY <1>2 DEF IInv, TypeOK
  <2> QED BY <1>2, <2>1, <2>2, Ends DEF IInv, TypeOK, LockedOnce
<1>6. GoneHaveNoRole'
  BY <1>2, <1>3, <1>4 DEF IInv, TypeOK, GoneHaveNoRole
<1>7. CountedHasAnother'
  <2> SUFFICES ASSUME NEW q \in Requests, request'[q].at = "close",
                      NEW x \in request'[q].counted \ unguarded, workspace'[x] # "deleted"
               PROVE  \E v \in Users \ gone : v # request'[q].by /\ role'[x][v] = "admin"
    BY <1>2 DEF CountedHasAnother
  <2>1. request'[q] = request[q]
    BY <1>2, Ends
  <2>2. x \in Workspaces /\ x # w
    BY <1>4, <2>1, Kinds DEF IInv, Closing
  <2> QED BY <1>3, <2>1, <2>2 DEF IInv, CountedHasAnother
<1>8. KeepsAnAdmin'
  BY <1>2, <1>3, <1>4 DEF IInv, KeepsAnAdmin
<1>9. RevokesWhatIsThere'
  BY <1>2, Ends DEF IInv, RevokesWhatIsThere
<1> QED BY <1>5, <1>6, <1>7, <1>8, <1>9 DEF IInv

LEMMA SetStatusStep ==
  ASSUME IInv, NEW w \in Workspaces, NEW status \in {"active", "suspended"}, SetStatus(w, status)
  PROVE  IInv'
<1>1. /\ workspace' = [workspace EXCEPT ![w] = status]
      /\ unguarded' = IF workspace[w] = "deleted" THEN unguarded \cup {w} ELSE unguarded
      /\ UNCHANGED <<role, invite, gone, request>>
  BY DEF SetStatus
<1>2. \A x \in Workspaces \ unguarded' : workspace[x] # "deleted" \/ x # w
  BY <1>1
<1>3. \A x \in Workspaces : x # w => workspace'[x] = workspace[x]
  BY <1>1 DEF IInv, TypeOK
<1>4. unguarded \subseteq unguarded'
  BY <1>1
<1>5. TypeOK'
  <2>1. workspace' \in [Workspaces -> {"active", "suspended", "deleted"}]
    BY <1>1 DEF IInv, TypeOK
  <2> QED BY <1>1, <2>1 DEF IInv, TypeOK, Holds
<1>6. GoneHaveNoRole'
  BY <1>1, <1>4 DEF IInv, GoneHaveNoRole
<1>7. CountedHasAnother'
  <2> SUFFICES ASSUME NEW q \in Requests, request[q].at = "close",
                      NEW x \in request[q].counted \ unguarded', workspace'[x] # "deleted"
               PROVE  \E v \in Users \ gone : v # request[q].by /\ role[x][v] = "admin"
    BY <1>1 DEF CountedHasAnother
  <2>1. x \in Workspaces
    BY Kinds DEF IInv, Closing
  <2> QED BY <1>2, <1>3, <1>4, <2>1 DEF IInv, CountedHasAnother
<1>8. KeepsAnAdmin'
  BY <1>1, <1>2, <1>3, <1>4 DEF IInv, KeepsAnAdmin
<1>9. RevokesWhatIsThere'
  BY <1>1 DEF IInv, RevokesWhatIsThere
<1> QED BY <1>5, <1>6, <1>7, <1>8, <1>9 DEF IInv

-----------------------------------------------------------------------------
(* Requests that take a lock.                                              *)

\* A request that takes the locks of some free workspaces, and changes no row.
LEMMA Takes ==
  ASSUME IInv, NEW p \in Requests, NEW r \in Request, r.at \in {"insert", "close"},
         request' = [request EXCEPT ![p] = r],
         \A w \in Holds(p)' \ Holds(p) : Free(w),
         r.at = "close" => \A w \in r.counted \ unguarded : workspace[w] # "deleted" =>
                              \E u \in Users \ gone : u # r.by /\ role[w][u] = "admin",
         UNCHANGED <<workspace, role, invite, gone, unguarded>>
  PROVE  IInv'
<1>1. request' \in [Requests -> Request] /\ request'[p] = r
  BY DEF IInv, TypeOK
<1>2. \A q \in Requests : q # p => request'[q] = request[q]
  BY DEF IInv, TypeOK
<1>3. \A q \in Requests : q # p => Holds(q)' = Holds(q)
  BY <1>2 DEF Holds
<1>4. LockedOnce'
  BY <1>3 DEF IInv, TypeOK, LockedOnce, Free
<1>5. TypeOK'
  BY <1>1, <1>4 DEF IInv, TypeOK, LockedOnce
<1>6. CountedHasAnother'
  BY <1>1, <1>2 DEF IInv, CountedHasAnother
<1>7. RevokesWhatIsThere'
  BY <1>1, <1>2 DEF IInv, RevokesWhatIsThere
<1> QED BY <1>5, <1>6, <1>7 DEF IInv, GoneHaveNoRole, KeepsAnAdmin

LEMMA LockForInviteStep ==
  ASSUME IInv, NEW p \in Requests, LockForInvite(p)
  PROVE  IInv'
<1>1. request[p] \in Inviting
  BY Kinds DEF IInv, LockForInvite
<1> DEFINE r == [request[p] EXCEPT !.at = "insert"]
<1>2. r \in Inviting /\ r.at = "insert" /\ r.ws = request[p].ws
  BY <1>1 DEF Inviting
<1>3. r \in Request
  BY <1>2 DEF Request
<1>4. request' = [request EXCEPT ![p] = r]
  BY DEF LockForInvite
<1> HIDE DEF r
<1>5. request'[p] = r
  BY <1>4 DEF IInv, TypeOK
<1>6. Holds(p)' = {request[p].ws}
  BY <1>2, <1>5 DEF Holds
<1>7. \A w \in Holds(p)' \ Holds(p) : Free(w)
  BY <1>6 DEF LockForInvite
<1>8. UNCHANGED <<workspace, role, invite, gone, unguarded>>
  BY DEF LockForInvite
<1> QED BY <1>2, <1>3, <1>4, <1>7, <1>8, Takes

LEMMA BeginCloseStep ==
  ASSUME IInv, NEW p \in Requests, BeginClose(p)
  PROVE  IInv'
<1>1. PICK u \in Users : request' = [request EXCEPT ![p] =
         [at |-> "close", by |-> u, todo |-> {w \in Workspaces : u \in Admins(w)}, counted |-> {}]]
  BY DEF BeginClose
<1> DEFINE r == [at |-> "close", by |-> u, todo |-> {w \in Workspaces : u \in Admins(w)}, counted |-> {}]
<1>2. r \in Closing /\ r.at = "close" /\ r.counted = {}
  BY DEF Closing
<1>3. r \in Request
  BY <1>2 DEF Request
<1>4. request' = [request EXCEPT ![p] = r]
  BY <1>1
<1> HIDE DEF r
<1>5. request'[p] = r
  BY <1>4 DEF IInv, TypeOK
<1>6. Holds(p)' = {}
  BY <1>2, <1>5 DEF Holds
<1>7. UNCHANGED <<workspace, role, invite, gone, unguarded>>
  BY DEF BeginClose
<1> QED BY <1>2, <1>3, <1>4, <1>6, <1>7, Takes

LEMMA CountAdminsStep ==
  ASSUME IInv, NEW p \in Requests, CountAdmins(p)
  PROVE  IInv'
<1>1. request[p] \in Closing /\ request[p].at = "close"
  BY Kinds DEF IInv, CountAdmins
<1>2. PICK w \in request[p].todo \ request[p].counted :
         MayLoseAdmin(w) /\ request' = [request EXCEPT ![p].counted = @ \cup {w}]
  BY DEF CountAdmins
<1>3. w \in Workspaces
  BY <1>1 DEF Closing
<1> DEFINE r == [request[p] EXCEPT !.counted = @ \cup {w}]
<1>4. r \in Closing /\ r.at = "close" /\ r.counted = request[p].counted \cup {w} /\ r.by = request[p].by
  BY <1>1, <1>3 DEF Closing
<1>5. r \in Request
  BY <1>4 DEF Request
<1>6. request' = [request EXCEPT ![p] = r]
  BY <1>2
<1> HIDE DEF r
<1>7. request'[p] = r
  BY <1>6 DEF IInv, TypeOK
<1>8. \A x \in Holds(p)' \ Holds(p) : Free(x)
  BY <1>1, <1>2, <1>4, <1>7 DEF Holds, MayLoseAdmin
<1>9. \A x \in r.counted \ unguarded : workspace[x] # "deleted" =>
         \E u \in Users \ gone : u # r.by /\ role[x][u] = "admin"
  <2> SUFFICES ASSUME NEW x \in r.counted \ unguarded, workspace[x] # "deleted"
               PROVE  \E u \in Users \ gone : u # r.by /\ role[x][u] = "admin"
    OBVIOUS
  <2>1. CASE x = w
    BY <1>2, <1>3, <2>1, AnotherLivingAdmin
  <2>2. CASE x \in request[p].counted
    BY <1>1, <1>4, <2>2 DEF IInv, CountedHasAnother
  <2> QED BY <1>4, <2>1, <2>2
<1>10. UNCHANGED <<workspace, role, invite, gone, unguarded>>
  BY DEF CountAdmins
<1> QED BY <1>4, <1>5, <1>6, <1>8, <1>9, <1>10, Takes

LEMMA CloseStep ==
  ASSUME IInv, NEW p \in Requests, Close(p)
  PROVE  IInv'
<1>1. request[p] \in Closing /\ request[p].at = "close"
  BY Kinds DEF IInv, Close
<1>2. PICK u \in Users : u = request[p].by
  BY <1>1 DEF Closing
<1>3. /\ gone' = gone \cup {u}
      /\ role' = [w \in Workspaces |-> [role[w] EXCEPT ![u] = "none"]]
      /\ unguarded' = unguarded \cup {w \in Workspaces \ request[p].counted : u \in Admins(w)}
      /\ Done(p) /\ UNCHANGED <<workspace, invite>>
  BY <1>2 DEF Close
<1>4. \A x \in Workspaces, v \in Users : role'[x][v] = IF v = u THEN "none" ELSE role[x][v]
  BY <1>3 DEF IInv, TypeOK
<1>5. unguarded \subseteq unguarded'
  BY <1>3
<1>6. \A x \in Workspaces \ unguarded' : x \in request[p].counted \/ role[x][u] # "admin"
  BY <1>3 DEF Admins
<1>7. TypeOK'
  <2>1. role' \in [Workspaces -> [Users -> Roles \cup {"none"}]]
    BY <1>3 DEF IInv, TypeOK
  <2>2. gone' \subseteq Users /\ unguarded' \subseteq Workspaces
    BY <1>3 DEF IInv, TypeOK
  <2> QED BY <1>3, <2>1, <2>2, Ends DEF IInv, TypeOK, LockedOnce
<1>8. GoneHaveNoRole'
  BY <1>3, <1>4, <1>5 DEF IInv, TypeOK, GoneHaveNoRole
<1>9. CountedHasAnother'
  <2> SUFFICES ASSUME NEW q \in Requests, request'[q].at = "close",
                      NEW x \in request'[q].counted \ unguarded', workspace[x] # "deleted"
               PROVE  \E v \in Users \ gone' : v # request'[q].by /\ role'[x][v] = "admin"
    BY <1>3 DEF CountedHasAnother
  <2>1. request'[q] = request[q] /\ q # p
    BY <1>3, Ends DEF Idle
  <2>2. x \in Workspaces /\ x \notin unguarded
    BY <1>5, <2>1, Kinds DEF IInv, Closing
  <2>3. PICK v \in Users \ gone : v # request[q].by /\ role[x][v] = "admin"
    BY <2>1, <2>2 DEF IInv, CountedHasAnother
  <2>4. x \notin request[p].counted
    BY <1>1, <2>1 DEF IInv, TypeOK, Holds
  <2>5. v # u
    BY <1>6, <2>2, <2>3, <2>4
  <2> QED BY <1>3, <1>4, <2>1, <2>2, <2>3, <2>5
<1>10. KeepsAnAdmin'
  <2> SUFFICES ASSUME NEW x \in Workspaces \ unguarded', workspace[x] # "deleted"
               PROVE  \E v \in Users \ gone' : role'[x][v] = "admin"
    BY <1>3 DEF KeepsAnAdmin
  <2>1. PICK v \in Users \ gone : v # u /\ role[x][v] = "admin"
    <3>1. CASE x \in request[p].counted
      BY <1>1, <1>2, <1>5, <3>1 DEF IInv, CountedHasAnother
    <3>2. CASE role[x][u] # "admin"
      BY <1>5, <3>2 DEF IInv, KeepsAnAdmin
    <3> QED BY <1>6, <3>1, <3>2
  <2> QED BY <1>3, <1>4, <2>1
<1>11. RevokesWhatIsThere'
  BY <1>3, Ends DEF IInv, RevokesWhatIsThere
<1> QED BY <1>7, <1>8, <1>9, <1>10, <1>11 DEF IInv

-----------------------------------------------------------------------------

LEMMA InitInv == Init => IInv
<1> SUFFICES ASSUME Init PROVE IInv
  OBVIOUS
<1>1. PICK founder \in [Workspaces -> Users] :
        role = [w \in Workspaces |-> [u \in Users |-> IF u = founder[w] THEN "admin" ELSE "none"]]
  BY DEF Init
<1>2. TypeOK
  <2>1. role \in [Workspaces -> [Users -> Roles \cup {"none"}]]
    BY <1>1 DEF Roles
  <2>2. request \in [Requests -> Request] /\ invite \in [Invites -> Invitation]
    BY DEF Init, Request, Invitation
  <2>3. \A p \in Requests : Holds(p) = {}
    BY DEF Init, Holds, Idle
  <2> QED BY <2>1, <2>2, <2>3 DEF Init, TypeOK
<1>3. KeepsAnAdmin
  BY <1>1 DEF Init, KeepsAnAdmin
<1> QED BY <1>2, <1>3 DEF IInv, Init, RevokesWhatIsThere, GoneHaveNoRole, CountedHasAnother, Idle

LEMMA StepInv == IInv /\ [Next]_vars => IInv'
<1> SUFFICES ASSUME IInv, [Next]_vars PROVE IInv'
  OBVIOUS
<1>1. ASSUME NEW p \in Requests, End(p) PROVE IInv'
  <2>1. InvitesKept
    BY <1>1 DEF End, IInv, TypeOK, InvitesKept
  <2> QED BY <1>1, <2>1, DoneStep DEF End, Done
<1>2. ASSUME NEW p \in Requests, ChangeRole(p) \/ RemoveMember(p) PROVE IInv'
  <2>1. PICK w \in Workspaces : w = request[p].ws
    BY <1>2, Kinds DEF IInv, ChangeRole, RemoveMember, ActsAsAdmin, Ready
  <2>2. PICK u \in Users, r \in Roles \cup {"none"} :
          /\ Member(w, u)
          /\ role[w][u] = "admin" /\ r # "admin" => MayLoseAdmin(w)
          /\ role' = [role EXCEPT ![w][u] = r]
    BY <1>2, <2>1 DEF ChangeRole, RemoveMember
  <2>3. Done(p) /\ UNCHANGED <<workspace, invite, gone, unguarded>>
    BY <1>2 DEF ChangeRole, RemoveMember
  <2> QED BY <2>2, <2>3, RoleStep
<1>3. ASSUME NEW p \in Requests, Leave(p) PROVE IInv'
  <2>1. PICK w \in Workspaces : w = request[p].ws
    BY <1>3, Kinds DEF IInv, Leave, Ready
  <2>2. PICK u \in Users : u = request[p].by
    BY <1>3 DEF Leave, Member
  <2>3. /\ Member(w, u)
        /\ role[w][u] = "admin" => MayLoseAdmin(w)
        /\ role' = [role EXCEPT ![w][u] = "none"]
        /\ Done(p) /\ UNCHANGED <<workspace, invite, gone, unguarded>>
    BY <1>3, <2>1, <2>2 DEF Leave
  <2> QED BY <2>3, RoleStep
<1>4. ASSUME NEW w \in Workspaces, SuspendWorkspace(w) \/ UnsuspendWorkspace(w) PROVE IInv'
  BY <1>4, SetStatusStep DEF SuspendWorkspace, UnsuspendWorkspace
<1>5. CASE UNCHANGED vars
  <2>1. UNCHANGED <<workspace, role, invite, gone, request, unguarded>>
    BY <1>5 DEF vars
  <2> QED BY <2>1 DEF IInv, TypeOK, Holds, RevokesWhatIsThere, GoneHaveNoRole, CountedHasAnother, KeepsAnAdmin
<1> QED BY <1>1, <1>2, <1>3, <1>4, <1>5, BeginStep, InviteStep, LockForInviteStep, InsertInviteStep,
           BeginAcceptStep, AcceptStep, BeginRevokeStep, RevokeStep, ExpireStep,
           DeleteWorkspaceStep, BeginCloseStep, CountAdminsStep, CloseStep DEF Next

\* The rows and the requests are of their types, and no two requests hold the lock of a workspace.
THEOREM TenancyTypes == Spec => []TypeOK
<1>1. IInv => TypeOK
  BY DEF IInv
<1> QED BY <1>1, InitInv, StepInv, PTL DEF Spec

\* _assert_not_last_admin and _assert_not_sole_workspace_admin keep an admin in every
\* workspace that the code protects, for any number of users, workspaces and requests.
THEOREM KeepsAnAdminHolds == Spec => []KeepsAnAdmin
<1>1. IInv => KeepsAnAdmin
  BY DEF IInv
<1> QED BY <1>1, InitInv, StepInv, PTL DEF Spec

-----------------------------------------------------------------------------
(* One pending invitation.                                                 *)

\* The pending invitations of u to w.
PendingFor(w, u) == {i \in Invites : Pending(i) /\ invite[i].ws = w /\ invite[i].to = u}

\* Who looked for a pending invitation under the lock still finds none.
InsertsTheFirst ==
    \A p \in Requests : request[p].at = "insert" => PendingFor(request[p].ws, request[p].to) = {}

InvitationInv == OnePendingInvitation /\ InsertsTheFirst

\* No invitation becomes pending.
NoneAdded ==
    \A i \in Invites : Pending(i)' => Pending(i) /\ invite'[i].ws = invite[i].ws /\ invite'[i].to = invite[i].to

\* No request gets to the point where it inserts an invitation.
NoneInserts == \A q \in Requests : request'[q].at = "insert" => request'[q] = request[q]

LEMMA QuietStep ==
  ASSUME InvitationInv, NoneAdded, NoneInserts
  PROVE  InvitationInv'
<1>1. OnePendingInvitation'
  BY DEF InvitationInv, OnePendingInvitation, NoneAdded
<1>2. InsertsTheFirst'
  <2> SUFFICES ASSUME NEW q \in Requests, request'[q].at = "insert", NEW i \in Invites, Pending(i)',
                      invite'[i].ws = request'[q].ws, invite'[i].to = request'[q].to
               PROVE  FALSE
    BY DEF InsertsTheFirst, PendingFor
  <2>1. request'[q] = request[q]
    BY DEF NoneInserts
  <2>2. i \in PendingFor(request[q].ws, request[q].to)
    BY <2>1 DEF NoneAdded, PendingFor
  <2> QED BY <2>1, <2>2 DEF InvitationInv, InsertsTheFirst
<1> QED BY <1>1, <1>2 DEF InvitationInv

LEMMA SameInvitations ==
  ASSUME UNCHANGED invite
  PROVE  NoneAdded
  BY DEF NoneAdded, Pending

\* A request that becomes r, which inserts nothing.
LEMMA Becomes ==
  ASSUME TypeOK, NEW p \in Requests, NEW r, request' = [request EXCEPT ![p] = r], r.at # "insert"
  PROVE  NoneInserts
  BY DEF TypeOK, NoneInserts

LEMMA DoneInserts ==
  ASSUME TypeOK, NEW p \in Requests, Done(p)
  PROVE  NoneInserts
<1>1. Idle.at # "insert"
  BY DEF Idle
<1> QED BY <1>1, Becomes DEF Done

\* An invitation that is rewritten so that it is not pending.
LEMMA Spent ==
  ASSUME TypeOK, NEW i \in Invites, NEW j, invite' = [invite EXCEPT ![i] = j],
         j.state # "pending" \/ ~j.live
  PROVE  NoneAdded
<1>1. invite'[i] = j /\ \A k \in Invites : k # i => invite'[k] = invite[k]
  BY DEF TypeOK
<1>2. ~Pending(i)'
  BY <1>1 DEF Pending
<1> QED BY <1>1, <1>2 DEF NoneAdded, Pending

LEMMA RequestStep ==
  ASSUME TypeOK, NEW p \in Requests,
         \/ Begin(p) \/ End(p) \/ ChangeRole(p) \/ RemoveMember(p) \/ Leave(p) \/ DeleteWorkspace(p)
         \/ Invite(p) \/ BeginAccept(p) \/ BeginRevoke(p) \/ BeginClose(p) \/ CountAdmins(p) \/ Close(p)
  PROVE  NoneAdded /\ NoneInserts
<1>1. UNCHANGED invite
  BY DEF Begin, End, ChangeRole, RemoveMember, Leave, DeleteWorkspace, Invite, BeginAccept,
         BeginRevoke, BeginClose, CountAdmins, Close
<1>2. ASSUME ChangeRole(p) \/ RemoveMember(p) \/ Leave(p) \/ DeleteWorkspace(p) \/ Close(p)
      PROVE  NoneInserts
  <2>1. Done(p)
    BY <1>2 DEF ChangeRole, RemoveMember, Leave, DeleteWorkspace, Close
  <2> QED BY <2>1, DoneInserts
<1>3. ASSUME End(p) PROVE NoneInserts
  BY <1>3, DoneInserts DEF End, Done
<1>4. ASSUME Begin(p) \/ Invite(p) \/ BeginAccept(p) \/ BeginRevoke(p) \/ BeginClose(p)
      PROVE  request'[p].at # "insert" /\ \A q \in Requests : q # p => request'[q] = request[q]
  <2>1. CASE Begin(p)
    BY <2>1 DEF TypeOK, Begin
  <2>2. CASE Invite(p)
    BY <2>2 DEF TypeOK, Invite
  <2>3. CASE BeginAccept(p)
    BY <2>3 DEF TypeOK, BeginAccept
  <2>4. CASE BeginRevoke(p)
    BY <2>4 DEF TypeOK, BeginRevoke
  <2>5. CASE BeginClose(p)
    BY <2>5 DEF TypeOK, BeginClose
  <2> QED BY <1>4, <2>1, <2>2, <2>3, <2>4, <2>5
<1>5. ASSUME CountAdmins(p) PROVE NoneInserts
  <2>1. request[p] \in Closing
    BY <1>5, Kinds DEF CountAdmins
  <2>2. PICK w : request' = [request EXCEPT ![p].counted = @ \cup {w}]
    BY <1>5 DEF CountAdmins
  <2>3. [request[p] EXCEPT !.counted = @ \cup {w}].at = "close"
    BY <2>1 DEF Closing
  <2> QED BY <2>2, <2>3, Becomes
<1> QED BY <1>1, <1>2, <1>3, <1>4, <1>5, SameInvitations DEF NoneInserts

LEMMA SpendingStep ==
  ASSUME IInv, NEW p \in Requests, Accept(p) \/ Revoke(p)
  PROVE  NoneAdded /\ NoneInserts
<1>1. NoneInserts
  BY DoneInserts DEF IInv, Accept, Revoke
<1>2. PICK i \in Invites : i = request[p].inv
  BY Kinds DEF IInv, Accept, Revoke
<1>3. invite[i] # NoInvite
  BY <1>2 DEF IInv, RevokesWhatIsThere, Revoke, Accept, Acceptable, Pending, NoInvite
<1>4. CASE Accept(p)
  <2> DEFINE j == [invite[i] EXCEPT !.state = "accepted", !.accepted = TRUE]
  <2>1. j.state = "accepted"
    BY <1>3, Invited DEF IInv
  <2>2. invite' = [invite EXCEPT ![i] = j]
    BY <1>2, <1>4 DEF Accept
  <2> HIDE DEF j
  <2> QED BY <1>1, <2>1, <2>2, Spent DEF IInv
<1>5. CASE Revoke(p)
  <2> DEFINE j == [invite[i] EXCEPT !.state = "revoked"]
  <2>1. j.state = "revoked"
    BY <1>3, Invited DEF IInv
  <2>2. invite' = [invite EXCEPT ![i] = j]
    BY <1>2, <1>5 DEF Revoke
  <2> HIDE DEF j
  <2> QED BY <1>1, <2>1, <2>2, Spent DEF IInv
<1> QED BY <1>4, <1>5

LEMMA ExpiringStep ==
  ASSUME IInv, NEW i \in Invites, Expire(i)
  PROVE  NoneAdded /\ NoneInserts
<1> DEFINE j == [invite[i] EXCEPT !.live = FALSE]
<1>1. invite[i] # NoInvite
  BY DEF Expire, Pending, NoInvite
<1>2. ~j.live
  BY <1>1, Invited DEF IInv
<1>3. invite' = [invite EXCEPT ![i] = j]
  BY DEF Expire
<1> HIDE DEF j
<1>4. NoneAdded
  BY <1>2, <1>3, Spent DEF IInv
<1> QED BY <1>4 DEF Expire, NoneInserts

LEMMA LockKeepsInvitations ==
  ASSUME IInv, InvitationInv, NEW p \in Requests, LockForInvite(p)
  PROVE  InvitationInv'
<1>1. request[p] \in Inviting /\ UNCHANGED invite
  BY Kinds DEF IInv, LockForInvite
<1>2. /\ request'[p].ws = request[p].ws /\ request'[p].to = request[p].to
      /\ \A q \in Requests : q # p => request'[q] = request[q]
  BY <1>1 DEF IInv, TypeOK, LockForInvite, Inviting
<1>3. PendingFor(request[p].ws, request[p].to) = {}
  BY DEF LockForInvite, PendingFor
<1>4. InsertsTheFirst'
  BY <1>1, <1>2, <1>3 DEF InvitationInv, InsertsTheFirst, PendingFor, Pending
<1> QED BY <1>1, <1>4 DEF InvitationInv, OnePendingInvitation, Pending

\* Another request that inserts holds another workspace.
LEMMA InsertKeepsInvitations ==
  ASSUME IInv, InvitationInv, NEW p \in Requests, InsertInvite(p)
  PROVE  InvitationInv'
<1> DEFINE w == request[p].ws
           u == request[p].to
           new == [state |-> "pending", live |-> TRUE, ws |-> w, to |-> u,
                   as |-> request[p].as, accepted |-> FALSE]
<1>1. PICK i \in Invites : invite' = [invite EXCEPT ![i] = new]
  BY DEF InsertInvite
<1>2. new.ws = w /\ new.to = u
  OBVIOUS
<1> HIDE DEF new
<1>3. invite'[i] = new /\ \A k \in Invites : k # i => invite'[k] = invite[k]
  BY <1>1 DEF IInv, TypeOK
<1>4. \A k \in Invites : k # i => (Pending(k)' <=> Pending(k))
  BY <1>3 DEF Pending
<1>5. PendingFor(w, u) = {} /\ Holds(p) = {w}
  BY DEF InvitationInv, InsertsTheFirst, InsertInvite, Holds
<1>6. OnePendingInvitation'
  <2> SUFFICES ASSUME NEW k \in Invites, NEW l \in Invites, Pending(k)', Pending(l)',
                      invite'[k].ws = invite'[l].ws, invite'[k].to = invite'[l].to
               PROVE  k = l
    BY DEF OnePendingInvitation
  <2>1. \A m \in Invites : m # i /\ Pending(m)' => invite'[m].ws # w \/ invite'[m].to # u
    BY <1>3, <1>4, <1>5 DEF PendingFor
  <2>2. CASE k = i \/ l = i
    BY <1>2, <1>3, <2>1, <2>2
  <2>3. CASE k # i /\ l # i
    BY <1>3, <1>4, <2>3 DEF InvitationInv, OnePendingInvitation
  <2> QED BY <2>2, <2>3
<1>7. InsertsTheFirst'
  <2> SUFFICES ASSUME NEW q \in Requests, request'[q].at = "insert", NEW k \in Invites, Pending(k)',
                      invite'[k].ws = request'[q].ws, invite'[k].to = request'[q].to
               PROVE  FALSE
    BY DEF InsertsTheFirst, PendingFor
  <2>1. q # p /\ request'[q] = request[q]
    BY Ends DEF InsertInvite, Idle
  <2>2. request[q].ws # w
    BY <1>5, <2>1 DEF IInv, TypeOK, Holds
  <2>3. k # i
    BY <1>2, <1>3, <2>1, <2>2
  <2>4. k \in PendingFor(request[q].ws, request[q].to)
    BY <1>3, <1>4, <2>1, <2>3 DEF PendingFor
  <2> QED BY <2>1, <2>4 DEF InvitationInv, InsertsTheFirst
<1> QED BY <1>6, <1>7 DEF InvitationInv

LEMMA InitInvitations == Init => InvitationInv
<1> SUFFICES ASSUME Init PROVE InvitationInv
  OBVIOUS
<1>1. \A i \in Invites : ~Pending(i)
  BY DEF Init, Pending, NoInvite
<1>2. \A p \in Requests : request[p].at = "idle"
  BY DEF Init, Idle
<1> QED BY <1>1, <1>2 DEF InvitationInv, OnePendingInvitation, InsertsTheFirst

LEMMA StepInvitations == IInv /\ InvitationInv /\ [Next]_vars => InvitationInv'
<1> SUFFICES ASSUME IInv, InvitationInv, [Next]_vars PROVE InvitationInv'
  OBVIOUS
<1>0. TypeOK
  BY DEF IInv
<1>1. ASSUME NEW p \in Requests,
             \/ Begin(p) \/ End(p) \/ ChangeRole(p) \/ RemoveMember(p) \/ Leave(p) \/ DeleteWorkspace(p)
             \/ Invite(p) \/ BeginAccept(p) \/ BeginRevoke(p) \/ BeginClose(p) \/ CountAdmins(p) \/ Close(p)
      PROVE  InvitationInv'
  BY <1>0, <1>1, RequestStep, QuietStep
<1>2. ASSUME NEW p \in Requests, Accept(p) \/ Revoke(p) PROVE InvitationInv'
  BY <1>2, SpendingStep, QuietStep
<1>3. ASSUME NEW i \in Invites, Expire(i) PROVE InvitationInv'
  BY <1>3, ExpiringStep, QuietStep
<1>4. ASSUME NEW w \in Workspaces, SuspendWorkspace(w) \/ UnsuspendWorkspace(w) PROVE InvitationInv'
  <2>1. UNCHANGED <<invite, request>>
    BY <1>4 DEF SuspendWorkspace, UnsuspendWorkspace, SetStatus
  <2> QED BY <2>1, SameInvitations, QuietStep DEF NoneInserts
<1>5. CASE UNCHANGED vars
  <2>1. UNCHANGED <<invite, request>>
    BY <1>5 DEF vars
  <2> QED BY <2>1, SameInvitations, QuietStep DEF NoneInserts
<1> QED BY <1>1, <1>2, <1>3, <1>4, <1>5, LockKeepsInvitations, InsertKeepsInvitations DEF Next

\* create_invitation and the lock of the workspace: however the invitations of several
\* admins interleave with expiry, acceptance and revocation, an address never has two
\* pending invitations to one workspace.
THEOREM OnePendingInvitationHolds == Spec => []OnePendingInvitation
<1>1. Init => IInv /\ InvitationInv
  BY InitInv, InitInvitations
<1>2. IInv /\ InvitationInv /\ [Next]_vars => (IInv /\ InvitationInv)'
  BY StepInv, StepInvitations
<1>3. IInv /\ InvitationInv => OnePendingInvitation
  BY DEF InvitationInv
<1> QED BY <1>1, <1>2, <1>3, PTL DEF Spec

=============================================================================
