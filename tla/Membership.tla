----------------------------- MODULE Membership -----------------------------
(***************************************************************************)
(* The people of one workspace: roles, ownership and invitations, as the   *)
(* People page and other clients of the API change them (access/api,       *)
(* access/services/invitations.py, pages/Members), and the acceptance of   *)
(* invitations.                                                            *)
(*                                                                         *)
(* Every handler reads the actor's role before it locks the rows it        *)
(* decides by, so a request is one step for the first reads and one for    *)
(* the transaction's locks, checks and writes.  A transaction may fail and *)
(* leave no trace.  One address is invited; its account may exist already. *)
(* member stands for viewer as well.  The constraint of one open link per  *)
(* address, in organizations/models.py, is left out: the handlers are      *)
(* shown to keep it without being stopped by it.                           *)
(***************************************************************************)
EXTENDS Naturals, FiniteSets

CONSTANTS
    Staff,           \* the owner and the administrators at the start
    Invitee,         \* the person whose address is invited
    MaxInvitations,  \* bound: links that are issued
    MaxRequests,     \* bound: requests of the workspace's people
    MaxAcceptances   \* bound: posts of an invitation's link

ASSUME MembershipAssumption ==
    /\ Invitee \notin Staff
    /\ MaxInvitations \in Nat /\ MaxRequests \in Nat /\ MaxAcceptances \in Nat

VARIABLES
    role,         \* the membership of a person, "none" without one
    invitation,   \* the links issued for the address
    accounts,     \* how many accounts have the address
    request,      \* what the people of the workspace ask for
    acceptance    \* links that are being accepted

memberVars == <<role, invitation, accounts, request, acceptance>>

People == Staff \cup {Invitee}
Ids == 1..MaxInvitations
MemberRequests == 1..MaxRequests
Acceptances == 1..MaxAcceptances
NoAccount == "nobody"
Invitable == {"admin", "member"}
Roles == {"owner"} \cup Invitable

Unissued == [status |-> "unissued", role |-> "member"]
\* as: the actor's role when the request was checked.
Unasked == [at |-> "unasked", kind |-> "none", on |-> 0, role |-> "none", as |-> "none"]
SettledRequest == [at |-> "over", kind |-> "none", on |-> 0, role |-> "none", as |-> "none"]
\* by: who is signed in, NoAccount with a registration.
Unopened == [at |-> "unopened", link |-> 0, by |-> NoAccount]
Accepted == [at |-> "over", link |-> 0, by |-> NoAccount]

MembershipTypeOK ==
    /\ role \in [People -> Roles \cup {"none"}]
    /\ invitation \in [Ids -> [status : {"unissued", "pending", "expired", "accepted", "revoked"},
                               role : Invitable]]
    /\ accounts \in 0..2
    /\ request \in [MemberRequests -> [at : {"unasked", "checked", "over"},
                                       kind : {"none", "invite", "resend", "revoke", "update", "remove"},
                                       on : {0} \cup Ids \cup People, role : Roles \cup {"none"},
                                       as : Roles \cup {"none"}]]
    /\ acceptance \in [Acceptances -> [at : {"unopened", "found", "over"}, link : {0} \cup Ids,
                                       by : People \cup {NoAccount}]]

\* A workspace with one owner; the address has been invited once, or not yet.
MembershipInit ==
    /\ \E owner \in Staff :
         role = [p \in People |-> IF p = owner THEN "owner"
                                 ELSE IF p \in Staff THEN "admin" ELSE "none"]
    /\ \E first \in [status : {"pending", "unissued"}, role : Invitable] :
         invitation = [i \in Ids |-> IF i = 1 /\ first.status = "pending" THEN first ELSE Unissued]
    /\ accounts \in 0..1
    /\ request = [r \in MemberRequests |-> Unasked]
    /\ acceptance = [a \in Acceptances |-> Unopened]

-----------------------------------------------------------------------------
(* What the people of the workspace ask for.                               *)

CanManage(r) == r \in {"owner", "admin"}

_can_manage_invitation_role(as, r) == ~(as = "admin" /\ r = "admin")

IsMember == role[Invitee] # "none"

\* The first reads of a request by p.  One that they refuse changes nothing.
Checked(r, p, kind, on, wanted) ==
    /\ request[r].at = "unasked" /\ \A q \in 1..(r - 1) : request[q].at # "unasked"
    /\ CanManage(role[p])
    /\ request' = [request EXCEPT ![r] = [at |-> "checked", kind |-> kind, on |-> on,
                                          role |-> wanted, as |-> role[p]]]
    /\ UNCHANGED <<role, invitation, accounts, acceptance>>

\* The form of the People page; owner is not a role that it or the API offers.
submit(r, p, invited) ==
    /\ invited \in Invitable
    /\ _can_manage_invitation_role(role[p], invited) /\ ~IsMember
    /\ Checked(r, p, "invite", 0, invited)

\* The page's list may be as old as one likes, so any link issued is offered.
resendInvitation(r, p, i) ==
    /\ invitation[i].status \notin {"unissued", "accepted"}
    /\ _can_manage_invitation_role(role[p], invitation[i].role) /\ ~IsMember
    /\ Checked(r, p, "resend", i, invitation[i].role)

revokeInvitation(r, p, i) ==
    /\ invitation[i].status # "unissued"
    /\ Checked(r, p, "revoke", i, "none")

\* The page never offers the owner's role; other clients of the API do.
updateMember(r, p, target, requested) ==
    Checked(r, p, "update", target, requested)

removeMember(r, p, target) ==
    Checked(r, p, "remove", target, "none")

Asks(r, p) ==
    \/ \E invited \in Roles : submit(r, p, invited)
    \/ \E i \in Ids : resendInvitation(r, p, i) \/ revokeInvitation(r, p, i)
    \/ \E target \in People : removeMember(r, p, target)
    \/ \E target \in People, requested \in Roles : updateMember(r, p, target, requested)

Settles(r) == request' = [request EXCEPT ![r] = SettledRequest]

\* Refused under the locks, or a transaction that fails.
RequestFails(r) ==
    /\ request[r].at = "checked"
    /\ Settles(r)
    /\ UNCHANGED <<role, invitation, accounts, acceptance>>

-----------------------------------------------------------------------------
(* Invitations, under the workspace's row lock.                            *)

\* Mutant: a link that has expired is not replaced.
Active_Pending == {i \in Ids : invitation[i].status = "pending"}

\* accepted_at and revoked_at are null.
Active == {i \in Ids : invitation[i].status \in {"pending", "expired"}}

\* Mutant: whom an administrator replaces is not looked at under the lock.
MayReplace_Anything(r) == TRUE

MayReplace(r) ==
    request[r].as = "admin" => \A i \in Active : invitation[i].role # "admin"

deliver_workspace_invitation(r) ==
    /\ request[r].at = "checked" /\ request[r].kind \in {"invite", "resend"}
    /\ ~IsMember
    /\ MayReplace(r)
    /\ \E fresh \in Ids :
         /\ invitation[fresh].status = "unissued"
         /\ \A i \in 1..(fresh - 1) : invitation[i].status # "unissued"
         /\ invitation' = [i \in Ids |->
              IF i = fresh THEN [status |-> "pending", role |-> request[r].role]
              ELSE IF i \in Active THEN [invitation[i] EXCEPT !.status = "revoked"]
              ELSE invitation[i]]
    /\ Settles(r)
    /\ UNCHANGED <<role, accounts, acceptance>>

\* Mutant: whether the link was accepted is not looked at under the lock.
Revoke_Accepted(r) ==
    /\ request[r].at = "checked" /\ request[r].kind = "revoke"
    /\ _can_manage_invitation_role(request[r].as, invitation[request[r].on].role)
    /\ invitation' = [invitation EXCEPT ![request[r].on].status = "revoked"]
    /\ Settles(r)
    /\ UNCHANGED <<role, accounts, acceptance>>

Revoke(r) ==
    /\ request[r].at = "checked" /\ request[r].kind = "revoke"
    /\ _can_manage_invitation_role(request[r].as, invitation[request[r].on].role)
    /\ invitation[request[r].on].status \in {"pending", "expired"}
    /\ invitation' = [invitation EXCEPT ![request[r].on].status = "revoked"]
    /\ Settles(r)
    /\ UNCHANGED <<role, accounts, acceptance>>

LinkExpires(i) ==
    /\ invitation[i].status = "pending"
    /\ invitation' = [invitation EXCEPT ![i].status = "expired"]
    /\ UNCHANGED <<role, accounts, request, acceptance>>

-----------------------------------------------------------------------------
(* Roles, under the lock of the target's row.                              *)

\* The owner's row is changed in the transaction that makes another the owner.
\* Two transfers to different people lock different rows: when they overlap, the
\* unique index of the owner fails the second, which is a request that fails.
patch(r) ==
    LET target == request[r].on
        requested == request[r].role
    IN /\ request[r].at = "checked" /\ request[r].kind = "update"
       /\ role[target] # "none"
       /\ \/ /\ requested = "owner" /\ request[r].as = "owner"
             /\ role' = [p \in People |-> IF p = target THEN "owner"
                                          ELSE IF role[p] = "owner" THEN "admin" ELSE role[p]]
          \/ /\ requested # "owner" /\ role[target] # "owner"
             /\ request[r].as # "owner" => "admin" \notin {role[target], requested}
             /\ role' = [role EXCEPT ![target] = requested]
       /\ Settles(r)
       /\ UNCHANGED <<invitation, accounts, acceptance>>

\* Mutant: the target's role is not looked at under the lock.
delete_Anybody(r) ==
    /\ request[r].at = "checked" /\ request[r].kind = "remove"
    /\ role' = [role EXCEPT ![request[r].on] = "none"]
    /\ Settles(r)
    /\ UNCHANGED <<invitation, accounts, acceptance>>

delete(r) ==
    /\ request[r].at = "checked" /\ request[r].kind = "remove"
    /\ role[request[r].on] \notin {"none", "owner"}
    /\ request[r].as # "owner" => role[request[r].on] # "admin"
    /\ role' = [role EXCEPT ![request[r].on] = "none"]
    /\ Settles(r)
    /\ UNCHANGED <<invitation, accounts, acceptance>>

-----------------------------------------------------------------------------
(* Acceptance.                                                             *)

\* The reads before the lock: a registration is refused for an address that
\* has an account.  Staff are signed in with another address.
Opens(a, i, p) ==
    /\ acceptance[a].at = "unopened" /\ \A b \in 1..(a - 1) : acceptance[b].at # "unopened"
    /\ invitation[i].status = "pending"
    /\ p = NoAccount => accounts = 0
    /\ p = Invitee => accounts > 0
    /\ acceptance' = [acceptance EXCEPT ![a] = [at |-> "found", link |-> i, by |-> p]]
    /\ UNCHANGED <<role, invitation, accounts, request>>

AcceptFails(a) ==
    /\ acceptance[a].at = "found"
    /\ acceptance' = [acceptance EXCEPT ![a] = Accepted]
    /\ UNCHANGED <<role, invitation, accounts, request>>

\* Mutant: the link is not read again under the lock.
StillOpen_AsFound(i) == TRUE

StillOpen(i) == invitation[i].status = "pending"

_invited_user(a) ==
    \/ acceptance[a].by = Invitee /\ UNCHANGED accounts
    \/ acceptance[a].by = NoAccount /\ accounts = 0 /\ accounts' = 1

\* A member keeps the role it has.
accept_workspace_invitation(a) ==
    LET i == acceptance[a].link IN
    /\ acceptance[a].at = "found"
    /\ StillOpen(i)
    /\ _invited_user(a)
    /\ role' = [role EXCEPT ![Invitee] = IF IsMember THEN @ ELSE invitation[i].role]
    /\ invitation' = [invitation EXCEPT ![i].status = "accepted"]
    /\ acceptance' = [acceptance EXCEPT ![a] = Accepted]
    /\ UNCHANGED request

MembershipNext ==
    \/ \E r \in MemberRequests : \/ \E p \in People : Asks(r, p)
                                 \/ RequestFails(r) \/ deliver_workspace_invitation(r)
                                 \/ Revoke(r) \/ patch(r) \/ delete(r)
    \/ \E i \in Ids : LinkExpires(i)
    \/ \E a \in Acceptances : \/ \E i \in Ids, p \in People \cup {NoAccount} : Opens(a, i, p)
                              \/ AcceptFails(a) \/ accept_workspace_invitation(a)

MembershipSpec == MembershipInit /\ [][MembershipNext]_memberVars

-----------------------------------------------------------------------------
(* What makes it correct.                                                  *)

\* However many people invite the address at once, and whatever expired in
\* between, one link can be outstanding.
OneOpenLink ==
    Cardinality({i \in Ids : invitation[i].status \in {"pending", "expired"}}) <= 1

\* Whatever transfers, removals and changes of roles meet, the workspace has
\* an owner, and one.
OneOwner == Cardinality({p \in People : role[p] = "owner"}) = 1

\* A link that was used or taken back stays so: a revocation that waited for
\* the lock does not unmake an acceptance, nor the other way round.
ClosedLinksStayClosed ==
    [][\A i \in Ids : invitation[i].status \in {"accepted", "revoked"} =>
           invitation'[i] = invitation[i]]_memberVars

\* Nobody joins but the person invited, by a link that is open at that moment,
\* with the role it names.
MembershipsComeFromOpenLinks ==
    [][\A p \in People : (role[p] = "none" /\ role'[p] # "none") =>
           /\ p = Invitee
           /\ \E i \in Ids : /\ invitation[i].status = "pending"
                             /\ invitation'[i].status = "accepted"
                             /\ role'[p] = invitation[i].role]_memberVars

\* An open invitation of an administrator is taken back by requests that were
\* the owner's when they were checked, also if it was made after the check.
AdminInvitationsAreTheOwners ==
    [][\A i \in Ids : (/\ invitation[i].role = "admin"
                       /\ invitation[i].status # "revoked" /\ invitation'[i].status = "revoked") =>
           \E r \in MemberRequests : request[r].as = "owner" /\ request'[r].at = "over"]_memberVars
=============================================================================
