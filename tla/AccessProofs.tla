----------------------------- MODULE AccessProofs -----------------------------
(***************************************************************************)
(* Machine-checked proofs about the ways into the system: the people of a  *)
(* workspace (Membership), for any number of people, links, requests and   *)
(* acceptances; the first-run setup (Setup), for any number of setups      *)
(* posted; the page behind an invitation (InvitePage), for any number of   *)
(* flows it starts; and the session (Session), for any number of users, of *)
(* requests of the pages and of token pairs.                               *)
(***************************************************************************)
EXTENDS MCAccess, FiniteSetTheorems, TLAPS

(***************************************************************************)
(* Membership.  The inductive invariant IInv adds to the types what a      *)
(* request keeps of its first reads (RequestsAreChecked,                   *)
(* AcceptancesAreOfLinks), and states the two counts without               *)
(* cardinalities: SoleOwner and SoleLink.                                  *)
(***************************************************************************)
\* What the checks before the locks leave in a request.
RequestsAreChecked ==
    \A r \in MemberRequests : request[r].at = "checked" =>
        /\ request[r].as \in {"owner", "admin"}
        /\ request[r].kind \in {"invite", "resend"} => request[r].role \in Invitable
        /\ request[r].kind = "revoke" => request[r].on \in Ids
        /\ request[r].kind \in {"update", "remove"} => request[r].on \in People
        /\ request[r].kind = "update" => request[r].role \in Roles

AcceptancesAreOfLinks ==
    \A a \in Acceptances : acceptance[a].at = "found" => acceptance[a].link \in Ids

SoleOwner == \E p \in People : \A q \in People : role[q] = "owner" <=> q = p

Open(i) == invitation[i].status \in {"pending", "expired"}
SoleLink == \A i, j \in Ids : Open(i) /\ Open(j) => i = j

Types == MembershipTypeOK /\ RequestsAreChecked /\ AcceptancesAreOfLinks
IInv == Types /\ SoleOwner /\ SoleLink

-----------------------------------------------------------------------------

\* The workspace starts with one owner and at most one link.
LEMMA InitIInv == MembershipInit => IInv
<1> SUFFICES ASSUME MembershipInit PROVE IInv
    OBVIOUS
<1>1. MembershipTypeOK
  <2>1. role \in [People -> Roles \cup {"none"}]
      BY DEF MembershipInit, People, Roles, Invitable
  <2>2. invitation \in [Ids -> [status : {"unissued", "pending", "expired", "accepted", "revoked"},
                               role : Invitable]]
      BY DEF MembershipInit, Unissued, Invitable
  <2>3. accounts \in 0..2
      BY DEF MembershipInit
  <2>4. QED
      BY <2>1, <2>2, <2>3 DEF MembershipInit, MembershipTypeOK, Unasked, Unopened
<1>2. RequestsAreChecked /\ AcceptancesAreOfLinks
    BY DEF MembershipInit, RequestsAreChecked, AcceptancesAreOfLinks, Unasked, Unopened
<1>3. SoleOwner
    BY DEF MembershipInit, SoleOwner, People
<1>4. SoleLink
  <2>1. \A i \in Ids : Open(i) => i = 1
      BY DEF MembershipInit, Open, Unissued
  <2>2. QED
      BY <2>1 DEF SoleLink
<1>5. QED
    BY <1>1, <1>2, <1>3, <1>4 DEF IInv, Types

-----------------------------------------------------------------------------

\* What a request is after its first reads, or when it is over.
LEMMA AskedTypes ==
    ASSUME Types, NEW r \in MemberRequests, NEW p \in People, Asks(r, p)
    PROVE  Types' /\ UNCHANGED <<role, invitation>>
<1> DEFINE Kept(what) ==
        /\ what \in [at : {"checked"}, kind : {"invite", "resend", "revoke", "update", "remove"},
                     on : {0} \cup Ids \cup People, role : Roles \cup {"none"},
                     as : {"owner", "admin"}]
        /\ what.kind \in {"invite", "resend"} => what.role \in Invitable
        /\ what.kind = "revoke" => what.on \in Ids
        /\ what.kind \in {"update", "remove"} => what.on \in People
        /\ what.kind = "update" => what.role \in Roles
<1>1. role[p] \in Roles \cup {"none"} /\ (CanManage(role[p]) => role[p] \in {"owner", "admin"})
    BY DEF Types, MembershipTypeOK, CanManage
<1>2. \A i \in Ids : invitation[i].role \in Invitable
    BY DEF Types, MembershipTypeOK
<1>3. \E what : /\ Kept(what)
                /\ request' = [request EXCEPT ![r] = what]
                /\ UNCHANGED <<role, invitation, accounts, acceptance>>
  <2>1. CASE \E invited \in Roles : submit(r, p, invited)
      BY <2>1, <1>1 DEF submit, Checked, Unasked, Invitable, Roles
  <2>2. CASE \E i \in Ids : resendInvitation(r, p, i)
      BY <2>2, <1>1, <1>2 DEF resendInvitation, Checked, Unasked, Invitable, Roles
  <2>3. CASE \E i \in Ids : revokeInvitation(r, p, i)
      BY <2>3, <1>1 DEF revokeInvitation, Checked, Unasked, Roles
  <2>4. CASE \E target \in People : removeMember(r, p, target)
      BY <2>4, <1>1 DEF removeMember, Checked, Unasked, Roles
  <2>5. CASE \E target \in People, requested \in Roles : updateMember(r, p, target, requested)
      BY <2>5, <1>1 DEF updateMember, Checked, Unasked, Roles
  <2>6. QED
      BY <2>1, <2>2, <2>3, <2>4, <2>5 DEF Asks
<1>4. PICK what : /\ Kept(what)
                  /\ request' = [request EXCEPT ![r] = what]
                  /\ UNCHANGED <<role, invitation, accounts, acceptance>>
    BY <1>3
<1>5. MembershipTypeOK'
    BY <1>4 DEF Types, MembershipTypeOK, Roles, Invitable
<1>6. RequestsAreChecked'
  <2> SUFFICES ASSUME NEW q \in MemberRequests, request'[q].at = "checked"
               PROVE  /\ request'[q].as \in {"owner", "admin"}
                      /\ request'[q].kind \in {"invite", "resend"} => request'[q].role \in Invitable
                      /\ request'[q].kind = "revoke" => request'[q].on \in Ids
                      /\ request'[q].kind \in {"update", "remove"} => request'[q].on \in People
                      /\ request'[q].kind = "update" => request'[q].role \in Roles
      BY DEF RequestsAreChecked
  <2>1. CASE q = r
    <3>1. request'[q] = what
        BY <1>4, <2>1 DEF Types, MembershipTypeOK
    <3>2. QED
        BY <3>1, <1>4
  <2>2. CASE q # r
    <3>1. request'[q] = request[q]
        BY <1>4, <2>2 DEF Types, MembershipTypeOK
    <3>2. QED
        BY <3>1 DEF Types, RequestsAreChecked
  <2>3. QED
      BY <2>1, <2>2
<1>7. AcceptancesAreOfLinks'
    BY <1>4 DEF Types, AcceptancesAreOfLinks
<1>8. QED
    BY <1>4, <1>5, <1>6, <1>7 DEF Types
\* A request that is over keeps nothing of its reads.
LEMMA SettledTypes ==
    ASSUME Types, NEW r \in MemberRequests, Settles(r),
           role' \in [People -> Roles \cup {"none"}],
           invitation' \in [Ids -> [status : {"unissued", "pending", "expired", "accepted", "revoked"},
                                    role : Invitable]],
           UNCHANGED <<accounts, acceptance>>
    PROVE  Types'
<1>1. MembershipTypeOK'
    BY DEF Types, MembershipTypeOK, Settles, SettledRequest
<1>2. \A q \in MemberRequests : request'[q].at = "checked" => q # r /\ request'[q] = request[q]
    BY DEF Types, MembershipTypeOK, Settles, SettledRequest
<1>3. RequestsAreChecked'
    BY <1>2 DEF Types, RequestsAreChecked
<1>4. AcceptancesAreOfLinks'
    BY DEF Types, AcceptancesAreOfLinks
<1>5. QED
    BY <1>1, <1>3, <1>4 DEF Types

\* A request that is refused under the locks changes neither roles nor links.
LEMMA FailedKeepsIInv ==
    ASSUME Types, NEW r \in MemberRequests, RequestFails(r)
    PROVE  Types' /\ UNCHANGED <<role, invitation>>
BY SettledTypes DEF RequestFails, Types, MembershipTypeOK

\* An invitation takes back every link that is open.
LEMMA DeliverKeepsIInv ==
    ASSUME IInv, NEW r \in MemberRequests, deliver_workspace_invitation(r)
    PROVE  IInv'
<1>1. PICK fresh \in Ids :
          invitation' = [i \in Ids |->
              IF i = fresh THEN [status |-> "pending", role |-> request[r].role]
              ELSE IF i \in Active THEN [invitation[i] EXCEPT !.status = "revoked"]
              ELSE invitation[i]]
    BY DEF deliver_workspace_invitation
<1>2. request[r].role \in Invitable
    BY DEF deliver_workspace_invitation, IInv, Types, RequestsAreChecked
<1>3. invitation' \in [Ids -> [status : {"unissued", "pending", "expired", "accepted", "revoked"},
                               role : Invitable]]
    BY <1>1, <1>2 DEF IInv, Types, MembershipTypeOK
<1>4. Types'
    BY <1>3, SettledTypes DEF deliver_workspace_invitation, IInv, Types, MembershipTypeOK
<1>5. SoleOwner'
    BY DEF IInv, SoleOwner, deliver_workspace_invitation
<1>6. \A i \in Ids : Open(i)' => i = fresh
    BY <1>1 DEF Open, Active, IInv, Types, MembershipTypeOK
<1>7. SoleLink'
    BY <1>6 DEF SoleLink
<1>8. QED
    BY <1>4, <1>5, <1>7 DEF IInv

\* A revocation closes the one link it names.
LEMMA RevokeKeepsIInv ==
    ASSUME IInv, NEW r \in MemberRequests, Revoke(r)
    PROVE  IInv'
<1> DEFINE i == request[r].on
<1>1. i \in Ids
    BY DEF Revoke, IInv, Types, RequestsAreChecked
<1>2. invitation' = [invitation EXCEPT ![i].status = "revoked"]
    BY DEF Revoke
<1> HIDE DEF i
<1>3. invitation' \in [Ids -> [status : {"unissued", "pending", "expired", "accepted", "revoked"},
                               role : Invitable]]
    BY <1>1, <1>2 DEF IInv, Types, MembershipTypeOK
<1>4. Types'
    BY <1>3, SettledTypes DEF Revoke, IInv, Types, MembershipTypeOK
<1>5. SoleOwner'
    BY DEF IInv, SoleOwner, Revoke
<1>6. \A j \in Ids : Open(j)' => Open(j)
    BY <1>1, <1>2 DEF Open, IInv, Types, MembershipTypeOK
<1>7. SoleLink'
    BY <1>6 DEF SoleLink, IInv
<1>8. QED
    BY <1>4, <1>5, <1>7 DEF IInv

\* A link that expires is as open as before.
LEMMA ExpiryKeepsIInv ==
    ASSUME IInv, NEW i \in Ids, LinkExpires(i)
    PROVE  IInv'
<1>1. invitation' \in [Ids -> [status : {"unissued", "pending", "expired", "accepted", "revoked"},
                               role : Invitable]]
    BY DEF LinkExpires, IInv, Types, MembershipTypeOK
<1>2. Types'
    BY <1>1 DEF LinkExpires, IInv, Types, MembershipTypeOK, RequestsAreChecked, AcceptancesAreOfLinks
<1>3. SoleOwner'
    BY DEF IInv, SoleOwner, LinkExpires
<1>4. \A j \in Ids : Open(j)' => Open(j)
    BY DEF LinkExpires, Open, IInv, Types, MembershipTypeOK
<1>5. SoleLink'
    BY <1>4 DEF SoleLink, IInv
<1>6. QED
    BY <1>2, <1>3, <1>5 DEF IInv

\* A transfer moves the owner's role, and no other change makes or unmakes an
\* owner.
LEMMA PatchKeepsIInv ==
    ASSUME IInv, NEW r \in MemberRequests, patch(r)
    PROVE  IInv'
<1> DEFINE target == request[r].on
           requested == request[r].role
<1>1. target \in People /\ requested \in Roles
    BY DEF patch, IInv, Types, RequestsAreChecked
<1>2. \/ /\ requested = "owner"
         /\ role' = [p \in People |-> IF p = target THEN "owner"
                                      ELSE IF role[p] = "owner" THEN "admin" ELSE role[p]]
      \/ /\ requested # "owner" /\ role[target] # "owner"
         /\ role' = [role EXCEPT ![target] = requested]
    BY DEF patch
<1>3. UNCHANGED <<invitation, accounts, acceptance>> /\ Settles(r)
    BY DEF patch
<1> HIDE DEF target, requested
<1>4. role' \in [People -> Roles \cup {"none"}]
    BY <1>1, <1>2 DEF IInv, Types, MembershipTypeOK, Roles, Invitable
<1>5. Types'
    BY <1>3, <1>4, SettledTypes DEF IInv, Types, MembershipTypeOK
<1>6. SoleOwner'
  <2>1. CASE requested = "owner"
    <3>1. \A q \in People : role'[q] = "owner" <=> q = target
        BY <1>1, <1>2, <2>1
    <3>2. QED
        BY <3>1, <1>1 DEF SoleOwner
  <2>2. CASE requested # "owner"
    <3>1. \A q \in People : role'[q] = "owner" <=> role[q] = "owner"
        BY <1>1, <1>2, <2>2 DEF IInv, Types, MembershipTypeOK
    <3>2. QED
        BY <3>1 DEF SoleOwner, IInv
  <2>3. QED
      BY <2>1, <2>2
<1>7. SoleLink'
    BY <1>3 DEF SoleLink, Open, IInv
<1>8. QED
    BY <1>5, <1>6, <1>7 DEF IInv

\* A removal never takes the owner.
LEMMA DeleteKeepsIInv ==
    ASSUME IInv, NEW r \in MemberRequests, delete(r)
    PROVE  IInv'
<1> DEFINE target == request[r].on
<1>1. target \in People
    BY DEF delete, IInv, Types, RequestsAreChecked
<1>2. role[target] # "owner" /\ role' = [role EXCEPT ![target] = "none"]
    BY DEF delete
<1>3. UNCHANGED <<invitation, accounts, acceptance>> /\ Settles(r)
    BY DEF delete
<1> HIDE DEF target
<1>4. role' \in [People -> Roles \cup {"none"}]
    BY <1>1, <1>2 DEF IInv, Types, MembershipTypeOK
<1>5. Types'
    BY <1>3, <1>4, SettledTypes DEF IInv, Types, MembershipTypeOK
<1>6. \A q \in People : role'[q] = "owner" <=> role[q] = "owner"
    BY <1>1, <1>2 DEF IInv, Types, MembershipTypeOK
<1>7. SoleOwner'
    BY <1>6 DEF SoleOwner, IInv
<1>8. SoleLink'
    BY <1>3 DEF SoleLink, Open, IInv
<1>9. QED
    BY <1>5, <1>7, <1>8 DEF IInv

\* A link that is opened or given up changes neither roles nor links.
LEMMA OpensKeepsIInv ==
    ASSUME Types, NEW a \in Acceptances,
           \/ AcceptFails(a)
           \/ \E i \in Ids, p \in People \cup {NoAccount} : Opens(a, i, p)
    PROVE  Types' /\ UNCHANGED <<role, invitation>>
<1>1. /\ acceptance' \in [Acceptances -> [at : {"unopened", "found", "over"}, link : {0} \cup Ids,
                                          by : People \cup {NoAccount}]]
      /\ AcceptancesAreOfLinks'
      /\ UNCHANGED <<role, invitation, accounts, request>>
  <2>1. CASE AcceptFails(a)
      BY <2>1 DEF AcceptFails, Accepted, Types, MembershipTypeOK, AcceptancesAreOfLinks
  <2>2. CASE \E i \in Ids, p \in People \cup {NoAccount} : Opens(a, i, p)
      BY <2>2 DEF Opens, Types, MembershipTypeOK, AcceptancesAreOfLinks
  <2>3. QED
      BY <2>1, <2>2
<1>2. MembershipTypeOK' /\ RequestsAreChecked'
    BY <1>1 DEF Types, MembershipTypeOK, RequestsAreChecked
<1>3. QED
    BY <1>1, <1>2 DEF Types

\* An acceptance closes its link, and makes no owner of the person invited.
LEMMA AcceptKeepsIInv ==
    ASSUME IInv, NEW a \in Acceptances, accept_workspace_invitation(a)
    PROVE  IInv'
<1> DEFINE i == acceptance[a].link
<1>1. i \in Ids /\ Invitee \in People
    BY DEF accept_workspace_invitation, IInv, Types, AcceptancesAreOfLinks, People
<1>2. /\ role' = [role EXCEPT ![Invitee] = IF IsMember THEN @ ELSE invitation[i].role]
      /\ invitation' = [invitation EXCEPT ![i].status = "accepted"]
      /\ acceptance' = [acceptance EXCEPT ![a] = Accepted]
      /\ UNCHANGED request
    BY DEF accept_workspace_invitation
<1>3. accounts' \in 0..2
    BY DEF accept_workspace_invitation, _invited_user, IInv, Types, MembershipTypeOK
<1> HIDE DEF i
<1>4. invitation[i].role \in Invitable
    BY <1>1 DEF IInv, Types, MembershipTypeOK
<1>5. MembershipTypeOK'
  <2>1. role' \in [People -> Roles \cup {"none"}]
      BY <1>1, <1>2, <1>4 DEF IInv, Types, MembershipTypeOK, Roles
  <2>2. invitation' \in [Ids -> [status : {"unissued", "pending", "expired", "accepted", "revoked"},
                                 role : Invitable]]
      BY <1>1, <1>2 DEF IInv, Types, MembershipTypeOK
  <2>3. acceptance' \in [Acceptances -> [at : {"unopened", "found", "over"}, link : {0} \cup Ids,
                                         by : People \cup {NoAccount}]]
      BY <1>2 DEF IInv, Types, MembershipTypeOK, Accepted
  <2>4. QED
      BY <2>1, <2>2, <2>3, <1>2, <1>3 DEF IInv, Types, MembershipTypeOK
<1>6. RequestsAreChecked' /\ AcceptancesAreOfLinks'
    BY <1>2 DEF IInv, Types, MembershipTypeOK, RequestsAreChecked, AcceptancesAreOfLinks, Accepted
<1>7. \A q \in People : role'[q] = "owner" <=> role[q] = "owner"
    BY <1>1, <1>2, <1>4 DEF IInv, Types, MembershipTypeOK, IsMember, Invitable
<1>8. SoleOwner'
    BY <1>7 DEF SoleOwner, IInv
<1>9. \A j \in Ids : Open(j)' => Open(j)
    BY <1>1, <1>2 DEF Open, IInv, Types, MembershipTypeOK
<1>10. SoleLink'
    BY <1>9 DEF SoleLink, IInv
<1>11. QED
    BY <1>5, <1>6, <1>8, <1>10 DEF IInv, Types

-----------------------------------------------------------------------------

\* Every step of the workspace's people keeps the invariant.
LEMMA NextIInv == IInv /\ [MembershipNext]_memberVars => IInv'
<1> SUFFICES ASSUME IInv, [MembershipNext]_memberVars
             PROVE  IInv'
    OBVIOUS
<1>1. ASSUME Types', UNCHANGED <<role, invitation>> PROVE IInv'
    BY <1>1 DEF IInv, SoleOwner, SoleLink, Open
<1>2. ASSUME NEW r \in MemberRequests, NEW p \in People, Asks(r, p) PROVE IInv'
    BY <1>1, <1>2, AskedTypes DEF IInv
<1>3. ASSUME NEW r \in MemberRequests, RequestFails(r) PROVE IInv'
    BY <1>1, <1>3, FailedKeepsIInv DEF IInv
<1>4. ASSUME NEW r \in MemberRequests, deliver_workspace_invitation(r) PROVE IInv'
    BY <1>4, DeliverKeepsIInv
<1>5. ASSUME NEW r \in MemberRequests, Revoke(r) PROVE IInv'
    BY <1>5, RevokeKeepsIInv
<1>6. ASSUME NEW r \in MemberRequests, patch(r) PROVE IInv'
    BY <1>6, PatchKeepsIInv
<1>7. ASSUME NEW r \in MemberRequests, delete(r) PROVE IInv'
    BY <1>7, DeleteKeepsIInv
<1>8. ASSUME NEW i \in Ids, LinkExpires(i) PROVE IInv'
    BY <1>8, ExpiryKeepsIInv
<1>9. ASSUME NEW a \in Acceptances,
             \/ AcceptFails(a)
             \/ \E i \in Ids, p \in People \cup {NoAccount} : Opens(a, i, p)
      PROVE  IInv'
    BY <1>1, <1>9, OpensKeepsIInv DEF IInv
<1>10. ASSUME NEW a \in Acceptances, accept_workspace_invitation(a) PROVE IInv'
    BY <1>10, AcceptKeepsIInv
<1>11. ASSUME UNCHANGED memberVars PROVE IInv'
    BY <1>11 DEF IInv, Types, MembershipTypeOK, RequestsAreChecked, AcceptancesAreOfLinks,
                 SoleOwner, SoleLink, Open, memberVars
<1>12. QED
    BY <1>2, <1>3, <1>4, <1>5, <1>6, <1>7, <1>8, <1>9, <1>10, <1>11 DEF MembershipNext

\* The inductive invariant holds in every behaviour.
LEMMA Invariance == MembershipSpec => []IInv
BY InitIInv, NextIInv, PTL DEF MembershipSpec

\* The values of the workspace's state, whoever asks for what.
THEOREM MembershipTypes == MembershipSpec => []MembershipTypeOK
<1>1. IInv => MembershipTypeOK
    BY DEF IInv, Types
<1>2. QED
    BY <1>1, Invariance, PTL

\* One owner, for any number of people and of requests that meet.
THEOREM AlwaysOneOwner == MembershipSpec => []OneOwner
<1>1. IInv => OneOwner
  <2> SUFFICES ASSUME IInv PROVE OneOwner
      OBVIOUS
  <2>1. PICK p \in People : \A q \in People : role[q] = "owner" <=> q = p
      BY DEF IInv, SoleOwner
  <2>2. {q \in People : role[q] = "owner"} = {p}
      BY <2>1
  <2>3. QED
      BY <2>2, FS_Singleton DEF OneOwner
<1>2. QED
    BY <1>1, Invariance, PTL

\* One link, for any number of links and of people who invite.
THEOREM AlwaysOneOpenLink == MembershipSpec => []OneOpenLink
<1>1. IInv => OneOpenLink
  <2> SUFFICES ASSUME IInv PROVE OneOpenLink
      OBVIOUS
  <2> DEFINE Links == {i \in Ids : invitation[i].status \in {"pending", "expired"}}
  <2>1. CASE Links = {}
      BY <2>1, FS_EmptySet DEF OneOpenLink
  <2>2. CASE Links # {}
    <3>1. PICK i : i \in Links
        BY <2>2
    <3>2. Links = {i}
        BY <3>1 DEF IInv, SoleLink, Open
    <3>3. Cardinality(Links) = 1
        BY <3>2, FS_Singleton
    <3>4. QED
        BY <3>3 DEF OneOpenLink
  <2>3. QED
      BY <2>1, <2>2
<1>2. QED
    BY <1>1, Invariance, PTL
-----------------------------------------------------------------------------

\* The steps that change roles or links, and what they are under the locks.
LEMMA StepsOfInterest ==
    ASSUME [MembershipNext]_memberVars
    PROVE  \/ UNCHANGED <<role, invitation>>
           \/ \E r \in MemberRequests :
                deliver_workspace_invitation(r) \/ Revoke(r) \/ patch(r) \/ delete(r)
           \/ \E i \in Ids : LinkExpires(i)
           \/ \E a \in Acceptances : accept_workspace_invitation(a)
<1>1. ASSUME NEW r \in MemberRequests, NEW p \in People, Asks(r, p)
      PROVE  UNCHANGED <<role, invitation>>
    BY <1>1 DEF Asks, submit, resendInvitation, revokeInvitation, updateMember, removeMember, Checked
<1>2. ASSUME NEW a \in Acceptances, NEW i \in Ids, NEW p \in People \cup {NoAccount}, Opens(a, i, p)
      PROVE  UNCHANGED <<role, invitation>>
    BY <1>2 DEF Opens
<1>3. QED
    BY <1>1, <1>2 DEF MembershipNext, memberVars, RequestFails, AcceptFails

\* No request and no acceptance, however late, reopens a link or changes one
\* that is closed.
THEOREM LinksStayClosed == MembershipSpec => ClosedLinksStayClosed
<1>1. ASSUME IInv, [MembershipNext]_memberVars, NEW i \in Ids,
             invitation[i].status \in {"accepted", "revoked"}
      PROVE  invitation'[i] = invitation[i]
  <2>1. CASE \E r \in MemberRequests : deliver_workspace_invitation(r)
      BY <2>1, <1>1 DEF deliver_workspace_invitation, Active, IInv, Types, MembershipTypeOK
  <2>2. CASE \E r \in MemberRequests : Revoke(r)
      BY <2>2, <1>1 DEF Revoke, IInv, Types, MembershipTypeOK
  <2>3. CASE \E r \in MemberRequests : patch(r) \/ delete(r)
      BY <2>3 DEF patch, delete
  <2>4. CASE \E j \in Ids : LinkExpires(j)
      BY <2>4, <1>1 DEF LinkExpires, IInv, Types, MembershipTypeOK
  <2>5. CASE \E a \in Acceptances : accept_workspace_invitation(a)
      BY <2>5, <1>1 DEF accept_workspace_invitation, StillOpen, IInv, Types, MembershipTypeOK
  <2>6. QED
      BY <1>1, <2>1, <2>2, <2>3, <2>4, <2>5, StepsOfInterest
<1>2. IInv /\ [MembershipNext]_memberVars =>
        [\A i \in Ids : invitation[i].status \in {"accepted", "revoked"} =>
            invitation'[i] = invitation[i]]_memberVars
    BY <1>1
<1>3. QED
    BY <1>2, Invariance, PTL DEF MembershipSpec, ClosedLinksStayClosed

\* Whoever becomes a member is the person invited, and uses up a link that is
\* open in that step.
THEOREM MembersUseOpenLinks == MembershipSpec => MembershipsComeFromOpenLinks
<1> DEFINE Joins(p) ==
        /\ p = Invitee
        /\ \E i \in Ids : /\ invitation[i].status = "pending"
                          /\ invitation'[i].status = "accepted"
                          /\ role'[p] = invitation[i].role
<1>1. ASSUME IInv, [MembershipNext]_memberVars, NEW p \in People,
             role[p] = "none", role'[p] # "none"
      PROVE  Joins(p)
  <2>1. ASSUME NEW r \in MemberRequests, patch(r) PROVE FALSE
      BY <2>1, <1>1 DEF patch, IInv, Types, MembershipTypeOK
  <2>2. ASSUME NEW r \in MemberRequests, delete(r) PROVE FALSE
      BY <2>2, <1>1 DEF delete, IInv, Types, MembershipTypeOK
  <2>3. CASE \E r \in MemberRequests : deliver_workspace_invitation(r) \/ Revoke(r)
      BY <2>3, <1>1 DEF deliver_workspace_invitation, Revoke
  <2>4. CASE \E j \in Ids : LinkExpires(j)
      BY <2>4, <1>1 DEF LinkExpires
  <2>5. ASSUME NEW a \in Acceptances, accept_workspace_invitation(a) PROVE Joins(p)
    <3>1. acceptance[a].link \in Ids
        BY <2>5, <1>1 DEF accept_workspace_invitation, IInv, Types, AcceptancesAreOfLinks
    <3>2. p = Invitee
        BY <2>5, <1>1 DEF accept_workspace_invitation, IInv, Types, MembershipTypeOK
    <3>3. role'[p] = invitation[acceptance[a].link].role
        BY <2>5, <1>1, <3>2 DEF accept_workspace_invitation, IsMember, IInv, Types, MembershipTypeOK
    <3>4. /\ invitation[acceptance[a].link].status = "pending"
          /\ invitation'[acceptance[a].link].status = "accepted"
        BY <2>5, <1>1, <3>1 DEF accept_workspace_invitation, StillOpen, IInv, Types, MembershipTypeOK
    <3>5. QED
        BY <3>1, <3>2, <3>3, <3>4
  <2>6. QED
      BY <1>1, <2>1, <2>2, <2>3, <2>4, <2>5, StepsOfInterest
<1>2. IInv /\ [MembershipNext]_memberVars =>
        [\A p \in People : (role[p] = "none" /\ role'[p] # "none") => Joins(p)]_memberVars
    BY <1>1
<1>3. QED
    BY <1>2, Invariance, PTL DEF MembershipSpec, MembershipsComeFromOpenLinks

\* An administrator's request never takes an invitation of an administrator
\* back, also not one that was made after the request was checked.
THEOREM OwnersInviteAdministrators == MembershipSpec => AdminInvitationsAreTheOwners
<1> DEFINE ByTheOwner == \E r \in MemberRequests : request[r].as = "owner" /\ request'[r].at = "over"
<1>1. ASSUME IInv, [MembershipNext]_memberVars, NEW i \in Ids, invitation[i].role = "admin",
             invitation[i].status # "revoked", invitation'[i].status = "revoked"
      PROVE  ByTheOwner
  <2>1. ASSUME NEW r \in MemberRequests, deliver_workspace_invitation(r) PROVE ByTheOwner
    <3>1. i \in Active
        BY <2>1, <1>1 DEF deliver_workspace_invitation, Active, IInv, Types, MembershipTypeOK
    <3>2. request[r].as = "owner"
        BY <2>1, <1>1, <3>1 DEF deliver_workspace_invitation, MayReplace, IInv, Types, RequestsAreChecked
    <3>3. request'[r].at = "over"
        BY <2>1, <1>1 DEF deliver_workspace_invitation, Settles, SettledRequest, IInv, Types, MembershipTypeOK
    <3>4. QED
        BY <3>2, <3>3
  <2>2. ASSUME NEW r \in MemberRequests, Revoke(r) PROVE ByTheOwner
    <3>1. request[r].on = i
        BY <2>2, <1>1 DEF Revoke, IInv, Types, MembershipTypeOK
    <3>2. request[r].as = "owner"
        BY <2>2, <1>1, <3>1 DEF Revoke, _can_manage_invitation_role, IInv, Types, RequestsAreChecked
    <3>3. request'[r].at = "over"
        BY <2>2, <1>1 DEF Revoke, Settles, SettledRequest, IInv, Types, MembershipTypeOK
    <3>4. QED
        BY <3>2, <3>3
  <2>3. CASE \E r \in MemberRequests : patch(r) \/ delete(r)
      BY <2>3, <1>1 DEF patch, delete
  <2>4. CASE \E j \in Ids : LinkExpires(j)
      BY <2>4, <1>1 DEF LinkExpires, IInv, Types, MembershipTypeOK
  <2>5. CASE \E a \in Acceptances : accept_workspace_invitation(a)
      BY <2>5, <1>1 DEF accept_workspace_invitation, IInv, Types, MembershipTypeOK
  <2>6. QED
      BY <1>1, <2>1, <2>2, <2>3, <2>4, <2>5, StepsOfInterest
<1>2. IInv /\ [MembershipNext]_memberVars =>
        [\A i \in Ids : (/\ invitation[i].role = "admin"
                         /\ invitation[i].status # "revoked" /\ invitation'[i].status = "revoked") =>
            ByTheOwner]_memberVars
    BY <1>1
<1>3. QED
    BY <1>2, Invariance, PTL DEF MembershipSpec, AdminInvitationsAreTheOwners

-----------------------------------------------------------------------------
(***************************************************************************)
(* The setup.  SetupInv adds to the types that the lock of the             *)
(* installation's row has one holder (OneHolder), which has it only while  *)
(* nothing is installed (LockedBeforeInstalled), that what is installed is *)
(* one pair at most (OneAtMost), and that a test under way, answered or    *)
(* not, is of the settings the form holds (TestIsOfTheForm).               *)
(***************************************************************************)
PostType == [Posts -> [at : {"unposted", "sent", "locked", "created", "refused", "over"},
                       waits : {"wizard", "gone", "nobody"}, values : Payload]]

OneHolder == \A p, q \in Posts : post[p].at = "locked" /\ post[q].at = "locked" => p = q

LockedBeforeInstalled == \A p \in Posts : post[p].at = "locked" => installed = {}

OneAtMost == \A x, y \in installed : x = y

TestIsOfTheForm ==
    emailTest.at \in {"pending", "sent"} =>
        form.enabled /\ emailTest.smtp = form.smtp /\ emailTest.token = form.token

ServerInv == OneHolder /\ LockedBeforeInstalled /\ OneAtMost
SetupInv == SetupTypeOK /\ ServerInv /\ TestIsOfTheForm

\* Nothing is posted, tested or installed at first.
LEMMA InitSetupInv == SetupInit => SetupInv
<1> SUFFICES ASSUME SetupInit PROVE SetupInv
    OBVIOUS
<1>1. Unposted \in [at : {"unposted", "sent", "locked", "created", "refused", "over"},
                    waits : {"wizard", "gone", "nobody"}, values : Payload]
      /\ Unposted.at = "unposted"
    BY DEF Unposted, Payload
<1> HIDE DEF Unposted
<1>2. post \in PostType /\ \A p \in Posts : post[p].at = "unposted"
    BY <1>1 DEF SetupInit, PostType
<1>3. setupDefaults \in Form /\ NoTest.at = "idle" /\ NoTest \in
           [at : {"idle", "pending", "sent", "failed"},
            token : {"blank", "wrong", "right"}, smtp : {"blank", "given"}]
    BY DEF setupDefaults, Form, NoTest
<1>4. SetupTypeOK
  <2>1. step \in 0..lastStep /\ setup = "idle" /\ installed = {}
      BY DEF SetupInit, lastStep
  <2>2. setupStatus \in [data : {"none", "available", "done"}, error : BOOLEAN,
                         request : {"none", "asked", "available", "done", "lost"}]
      BY DEF SetupInit
  <2>3. form \in Form /\ emailTest \in [at : {"idle", "pending", "sent", "failed"},
                      token : {"blank", "wrong", "right"}, smtp : {"blank", "given"}]
      BY <1>3 DEF SetupInit
  <2> HIDE DEF SetupInit
  <2>4. QED
      BY <1>2, <2>1, <2>2, <2>3 DEF SetupTypeOK, PostType
<1>5. ServerInv
    BY <1>2 DEF SetupInit, ServerInv, OneHolder, LockedBeforeInstalled, OneAtMost
<1>6. TestIsOfTheForm
    BY <1>3 DEF SetupInit, TestIsOfTheForm
<1>7. QED
    BY <1>4, <1>5, <1>6 DEF SetupInv

(* The parts of the type invariant. *)
StatusType == [data : {"none", "available", "done"}, error : BOOLEAN,
               request : {"none", "asked", "available", "done", "lost"}]
TestType == [at : {"idle", "pending", "sent", "failed"},
             token : {"blank", "wrong", "right"}, smtp : {"blank", "given"}]
WizardType == /\ form \in Form /\ step \in 0..lastStep
              /\ setup \in {"idle", "pending", "error", "success"}
              /\ emailTest \in TestType
PostRecord == [at : {"unposted", "sent", "locked", "created", "refused", "over"},
               waits : {"wizard", "gone", "nobody"}, values : Payload]

\* The type invariant is made of them.
LEMMA SetupTypes ==
    SetupTypeOK <=> /\ setupStatus \in StatusType /\ WizardType /\ post \in PostType
                    /\ installed \subseteq Payload \X Posts
BY DEF SetupTypeOK, StatusType, TestType, WizardType, PostType

\* And so it is after a step.
LEMMA SetupTypesNext ==
    ASSUME setupStatus' \in StatusType, WizardType', post' \in PostType,
           installed' \subseteq Payload \X Posts
    PROVE  SetupTypeOK'
BY DEF SetupTypeOK, StatusType, TestType, WizardType, PostType

\* A post that is moved on.
LEMMA PostMoves ==
    ASSUME post \in PostType, NEW p \in Posts,
           NEW a \in {"unposted", "sent", "locked", "created", "refused", "over"},
           post' = [post EXCEPT ![p].at = a]
    PROVE  /\ post' \in PostType
           /\ post'[p].at = a /\ post'[p].values = post[p].values
           /\ \A q \in Posts \ {p} : post'[q] = post[q]
<1>1. post[p] \in PostRecord
    BY DEF PostType, PostRecord
<1> DEFINE c == [post[p] EXCEPT !.at = a]
<1>2. post' = [post EXCEPT ![p] = c]
    OBVIOUS
<1>3. c = [at |-> a, waits |-> post[p].waits, values |-> post[p].values]
    BY <1>1 DEF PostRecord
<1>4. c \in PostRecord /\ c.at = a /\ c.values = post[p].values
    BY <1>1, <1>3 DEF PostRecord
<1> HIDE DEF c
<1>5. QED
    BY <1>2, <1>4 DEF PostType, PostRecord

\* A post that is made, or is over.
LEMMA PostBecomes ==
    ASSUME post \in PostType, NEW p \in Posts, NEW c \in PostRecord,
           post' = [post EXCEPT ![p] = c]
    PROVE  /\ post' \in PostType /\ post'[p] = c
           /\ \A q \in Posts \ {p} : post'[q] = post[q]
BY DEF PostType, PostRecord

\* The page no longer waits for the answer of a post.
LEMMA PostWaits ==
    ASSUME NEW c \in PostRecord, NEW w \in {"gone", "nobody"}, NEW d, d = [c EXCEPT !.waits = w]
    PROVE  d \in PostRecord /\ d.at = c.at /\ d.values = c.values
<1>1. d = [at |-> c.at, waits |-> w, values |-> c.values]
    BY DEF PostRecord
<1>2. QED
    BY <1>1 DEF PostRecord

\* A post that is over.
LEMMA OverType == Over \in PostRecord /\ Over.at = "over"
<1>1. Over = [at |-> "over", waits |-> "nobody",
              values |-> [token |-> "wrong", smtp |-> "none"]]
    BY DEF Over, Unposted
<1>2. QED
    BY <1>1 DEF PostRecord, Payload

\* What nobody locks or installs anew stays as it is.
LEMMA ServerStays ==
    ASSUME ServerInv, installed' = installed,
           \A p \in Posts : post'[p].at = "locked" => post[p].at = "locked"
    PROVE  ServerInv'
BY DEF ServerInv, OneHolder, LockedBeforeInstalled, OneAtMost

\* A wizard that is taken off the page loses its values and its posts go on.
LEMMA LayoutKeeps ==
    ASSUME SetupInv, NEW status \in StatusType, LayoutFollows(status), installed' = installed
    PROVE  SetupInv'
<1>1. /\ WizardType /\ post \in PostType /\ installed \subseteq Payload \X Posts
      /\ ServerInv /\ TestIsOfTheForm
    BY SetupTypes DEF SetupInv
<1>2. setupStatus' = status
    BY DEF LayoutFollows
<1>3. CASE UNCHANGED <<wizard, post>>
  <2>1. UNCHANGED <<form, step, setup, emailTest, post>>
      BY <1>3 DEF wizard
  <2>2. WizardType' /\ TestIsOfTheForm' /\ ServerInv'
      BY <1>1, <2>1, ServerStays DEF WizardType, TestIsOfTheForm
  <2>3. QED
      BY <1>1, <1>2, <2>1, <2>2, SetupTypesNext DEF SetupInv
<1>4. CASE ~ UNCHANGED <<wizard, post>>
  <2>1. /\ form' = setupDefaults /\ step' = 0 /\ setup' = "idle" /\ emailTest' = NoTest
        /\ post' = [p \in Posts |-> IF post[p].waits = "wizard"
                                    THEN [post[p] EXCEPT !.waits = "gone"] ELSE post[p]]
      BY <1>4 DEF LayoutFollows
  <2>2. setupDefaults \in Form /\ NoTest \in TestType /\ NoTest.at = "idle" /\ 0 \in 0..lastStep
      BY DEF setupDefaults, Form, NoTest, TestType, lastStep
  <2>3. ASSUME NEW p \in Posts PROVE post'[p] \in PostRecord /\ post'[p].at = post[p].at
    <3>1. post[p] \in PostRecord
        BY <1>1 DEF PostType, PostRecord
    <3>2. post'[p] = post[p] \/ post'[p] = [post[p] EXCEPT !.waits = "gone"]
        BY <2>1
    <3>3. QED
        BY <3>1, <3>2, PostWaits
  <2>4. post' \in PostType
      BY <2>1, <2>3 DEF PostType, PostRecord
  <2>5. ServerInv'
      BY <1>1, <2>3, ServerStays
  <2>6. WizardType' /\ TestIsOfTheForm'
      BY <2>1, <2>2 DEF WizardType, TestIsOfTheForm
  <2>7. QED
      BY <1>1, <1>2, <2>4, <2>5, <2>6, SetupTypesNext DEF SetupInv
<1>5. QED
    BY <1>3, <1>4

\* How a step keeps the invariant when it locks and installs nothing.
LEMMA QuietStep ==
    ASSUME SetupInv, setupStatus' \in StatusType, WizardType', TestIsOfTheForm',
           post' \in PostType, installed' = installed,
           \A p \in Posts : post'[p].at = "locked" => post[p].at = "locked"
    PROVE  SetupInv'
<1>1. ServerInv' /\ installed' \subseteq Payload \X Posts
    BY ServerStays, SetupTypes DEF SetupInv
<1>2. QED
    BY <1>1, SetupTypesNext DEF SetupInv

\* The queries of the status.
LEMMA StatusKeeps ==
    ASSUME SetupInv,
           SetupStatusIsRead \/ SetupStatusArrives \/ SetupStatusFails \/ SetupStatusRefetches
    PROVE  SetupInv'
<1>0. setupStatus \in StatusType /\ WizardType /\ TestIsOfTheForm /\ post \in PostType
    BY SetupTypes DEF SetupInv
<1>1. CASE SetupStatusIsRead
  <2>1. PICK a \in {"available", "done"} : setupStatus' = [setupStatus EXCEPT !.request = a]
      BY <1>1 DEF SetupStatusIsRead
  <2>2. setupStatus' = [data |-> setupStatus.data, error |-> setupStatus.error, request |-> a]
      BY <1>0, <2>1 DEF StatusType
  <2>3. setupStatus' \in StatusType
      BY <1>0, <2>2 DEF StatusType
  <2>4. WizardType' /\ TestIsOfTheForm' /\ UNCHANGED <<post, installed>>
      BY <1>0, <1>1 DEF SetupStatusIsRead, wizard, WizardType, TestIsOfTheForm
  <2>5. QED
      BY <1>0, <2>3, <2>4, QuietStep
<1>2. CASE SetupStatusArrives
  <2> DEFINE s == [data |-> setupStatus.request, error |-> FALSE, request |-> "none"]
  <2>1. s \in StatusType
      BY <1>0, <1>2 DEF StatusType, SetupStatusArrives
  <2>2. LayoutFollows(s) /\ installed' = installed
      BY <1>2 DEF SetupStatusArrives
  <2>3. QED
      BY <2>1, <2>2, LayoutKeeps
<1>3. CASE SetupStatusFails
  <2>1. PICK s : s = [setupStatus EXCEPT !.error = TRUE, !.request = "none"]
      OBVIOUS
  <2>2. s = [data |-> setupStatus.data, error |-> TRUE, request |-> "none"]
      BY <1>0, <2>1 DEF StatusType
  <2>3. s \in StatusType
      BY <1>0, <2>2 DEF StatusType
  <2>4. LayoutFollows(s) /\ installed' = installed
      BY <1>3, <2>1 DEF SetupStatusFails
  <2>5. QED
      BY <2>3, <2>4, LayoutKeeps
<1>4. CASE SetupStatusRefetches
  <2>1. PICK b \in BOOLEAN : b = (setupStatus.error /\ setupStatus.data # "none")
      OBVIOUS
  <2>2. PICK s : s = [setupStatus EXCEPT !.request = "asked",
                                         !.error = @ /\ setupStatus.data # "none"]
      OBVIOUS
  <2>3. s = [setupStatus EXCEPT !.request = "asked", !.error = b]
      BY <2>1, <2>2
  <2>4. s = [data |-> setupStatus.data, error |-> b, request |-> "asked"]
      BY <1>0, <2>3 DEF StatusType
  <2>5. s \in StatusType
      BY <1>0, <2>4 DEF StatusType
  <2>6. LayoutFollows(s) /\ installed' = installed
      BY <1>4, <2>2 DEF SetupStatusRefetches
  <2>7. QED
      BY <2>5, <2>6, LayoutKeeps
<1>5. QED
    BY <1>1, <1>2, <1>3, <1>4

\* The fields of the form keep their types.
LEMMA FormFields ==
    ASSUME form \in Form
    PROVE  /\ \A t \in {"blank", "wrong", "right"} : [form EXCEPT !.token = t] \in Form
           /\ \A n \in {"blank", "given"} :
                 LET f == [form EXCEPT !.workspace = n]
                 IN  f \in Form /\ f.enabled = form.enabled /\ f.smtp = form.smtp /\ f.token = form.token
           /\ [form EXCEPT !.enabled = ~@] \in Form
           /\ \A s \in {"blank", "given"} : [form EXCEPT !.smtp = s] \in Form
<1>1. PICK b \in BOOLEAN : b = ~ form.enabled
    OBVIOUS
<1>2. PICK e \in BOOLEAN : e = form.enabled
    BY DEF Form
<1>3. /\ form.token \in {"blank", "wrong", "right"} /\ form.workspace \in {"blank", "given"}
      /\ form.smtp \in {"blank", "given"}
      /\ form = [token |-> form.token, workspace |-> form.workspace, enabled |-> e,
                 smtp |-> form.smtp]
    BY <1>2 DEF Form
<1>4. ASSUME NEW t \in {"blank", "wrong", "right"} PROVE [form EXCEPT !.token = t] \in Form
  <2>1. [form EXCEPT !.token = t] = [token |-> t, workspace |-> form.workspace, enabled |-> e,
                                     smtp |-> form.smtp]
      BY <1>2, <1>3
  <2>2. QED
      BY <1>3, <2>1 DEF Form
<1>5. ASSUME NEW n \in {"blank", "given"}, NEW f, f = [form EXCEPT !.workspace = n]
      PROVE  f \in Form /\ f.enabled = form.enabled /\ f.smtp = form.smtp /\ f.token = form.token
  <2>1. f = [token |-> form.token, workspace |-> n, enabled |-> e, smtp |-> form.smtp]
      BY <1>2, <1>3, <1>5
  <2>2. QED
      BY <1>2, <1>3, <2>1 DEF Form
<1>6. [form EXCEPT !.enabled = ~@] \in Form
  <2>1. [form EXCEPT !.enabled = ~@] = [token |-> form.token, workspace |-> form.workspace,
                                        enabled |-> b, smtp |-> form.smtp]
      BY <1>1, <1>3
  <2>2. QED
      BY <1>3, <2>1 DEF Form
<1>7. ASSUME NEW s \in {"blank", "given"} PROVE [form EXCEPT !.smtp = s] \in Form
  <2>1. [form EXCEPT !.smtp = s] = [token |-> form.token, workspace |-> form.workspace,
                                    enabled |-> e, smtp |-> s]
      BY <1>2, <1>3
  <2>2. QED
      BY <1>3, <2>1 DEF Form
<1>8. QED
    BY <1>4, <1>5, <1>6, <1>7

\* A test of the e-mail settings that is reset is of no settings.
LEMMA ResetTest ==
    ASSUME resetTest
    PROVE  emailTest' \in TestType /\ TestIsOfTheForm'
BY DEF resetTest, NoTest, TestType, TestIsOfTheForm

\* The wizard's fields, its steps and its test.
LEMMA WizardKeeps ==
    ASSUME SetupInv,
           \/ AdminStep \/ WorkspaceStep \/ EmailStep \/ next \/ Skip \/ Back
           \/ sendTestEmail \/ TestAnswers
    PROVE  SetupInv'
<1>0. setupStatus \in StatusType /\ WizardType /\ TestIsOfTheForm /\ post \in PostType
    BY SetupTypes DEF SetupInv
<1>1. UNCHANGED <<setupStatus, setup, post, installed>>
    BY DEF AdminStep, WorkspaceStep, EmailStep, next, Skip, Back, sendTestEmail, TestAnswers
<1>2. SUFFICES form' \in Form /\ step' \in 0..lastStep /\ emailTest' \in TestType /\ TestIsOfTheForm'
    BY <1>0, <1>1, QuietStep DEF WizardType
<1>3. CASE AdminStep \/ EmailStep
    BY <1>0, <1>3, ResetTest, FormFields DEF AdminStep, EmailStep, WizardType
<1>4. CASE WorkspaceStep
    BY <1>0, <1>4, FormFields DEF WorkspaceStep, WizardType, TestIsOfTheForm
<1>5. CASE next \/ Skip \/ Back
  <2>1. step' \in 0..lastStep /\ form' = form /\ emailTest' = emailTest
      BY <1>0, <1>5 DEF next, Skip, Back, WizardType, lastStep
  <2>2. QED
      BY <1>0, <2>1 DEF WizardType, TestIsOfTheForm
<1>6. CASE sendTestEmail
  <2>1. /\ emailTest' = [at |-> "pending", token |-> form.token, smtp |-> form.smtp]
        /\ form.enabled /\ form' = form /\ step' = step
      BY <1>6 DEF sendTestEmail
  <2>2. QED
      BY <1>0, <2>1 DEF WizardType, TestType, Form, TestIsOfTheForm
<1>7. CASE TestAnswers
  <2>1. PICK a \in {"failed", "sent"} : emailTest' = [emailTest EXCEPT !.at = a]
      BY <1>7 DEF TestAnswers
  <2>2. emailTest' = [at |-> a, token |-> emailTest.token, smtp |-> emailTest.smtp]
      BY <1>0, <2>1 DEF WizardType, TestType
  <2>3. emailTest.at = "pending" /\ form' = form /\ step' = step
      BY <1>7 DEF TestAnswers
  <2>4. QED
      BY <1>0, <2>2, <2>3 DEF WizardType, TestType, TestIsOfTheForm
<1>8. QED
    BY <1>3, <1>4, <1>5, <1>6, <1>7

\* What the wizard posts passed its schema.
LEMMA PayloadType ==
    ASSUME form \in Form, setupSchema
    PROVE  payload \in Payload
<1>1. form.token \in {"wrong", "right"} /\ (form.enabled => form.smtp = "given")
    BY DEF setupSchema, StepIsValid, Form
<1>2. QED
    BY <1>1 DEF payload, Payload

\* A setup is posted by the wizard or elsewhere.
LEMMA PostingKeeps ==
    ASSUME SetupInv, NEW p \in Posts, complete(p) \/ PostedElsewhere(p)
    PROVE  SetupInv'
<1>0. setupStatus \in StatusType /\ WizardType /\ TestIsOfTheForm /\ post \in PostType
    BY SetupTypes DEF SetupInv
<1>1. PICK w \in {"wizard", "nobody"}, v \in Payload :
           post' = [post EXCEPT ![p] = [at |-> "sent", waits |-> w, values |-> v]]
    BY <1>0, PayloadType DEF complete, PostedElsewhere, Payload, WizardType
<1> DEFINE c == [at |-> "sent", waits |-> w, values |-> v]
<1>2. c \in PostRecord /\ c.at = "sent" /\ post' = [post EXCEPT ![p] = c]
    BY <1>1 DEF PostRecord
<1> HIDE DEF c
<1>3. /\ post' \in PostType /\ post'[p].at = "sent"
      /\ \A q \in Posts \ {p} : post'[q] = post[q]
    BY <1>0, <1>2, PostBecomes
<1>4. \A q \in Posts : post'[q].at = "locked" => post[q].at = "locked"
    BY <1>3
<1>5. WizardType' /\ TestIsOfTheForm' /\ UNCHANGED <<setupStatus, installed>>
    BY <1>0 DEF complete, PostedElsewhere, wizard, WizardType, TestIsOfTheForm
<1>6. QED
    BY <1>0, <1>3, <1>4, <1>5, QuietStep

\* The wizard, or the closure that outlives it, learns the outcome or gives up.
LEMMA OutcomeKeeps ==
    ASSUME SetupInv, NEW p \in Posts, Completed(p) \/ CompleteFails(p)
    PROVE  SetupInv'
<1>0. setupStatus \in StatusType /\ WizardType /\ TestIsOfTheForm /\ post \in PostType
    BY SetupTypes DEF SetupInv
<1>1. post[p] \in PostRecord
    BY <1>0 DEF PostType, PostRecord
<1>2. PICK c \in PostRecord : /\ post' = [post EXCEPT ![p] = c]
                              /\ c.at = "locked" => post[p].at = "locked"
  <2>1. CASE post' = [post EXCEPT ![p] = Over]
      BY <2>1, OverType
  <2>2. CASE post' = [post EXCEPT ![p].waits = "nobody"]
    <3>1. PICK c : c = [post[p] EXCEPT !.waits = "nobody"]
        OBVIOUS
    <3>2. c \in PostRecord /\ c.at = post[p].at
        BY <1>1, <3>1, PostWaits
    <3>3. post' = [post EXCEPT ![p] = c]
        BY <2>2, <3>1
    <3>4. QED
        BY <3>2, <3>3
  <2>3. QED
      BY <2>1, <2>2 DEF Completed, CompleteFails
<1>3. /\ post' \in PostType /\ post'[p] = c
      /\ \A q \in Posts \ {p} : post'[q] = post[q]
    BY <1>0, <1>2, PostBecomes
<1>4. \A q \in Posts : post'[q].at = "locked" => post[q].at = "locked"
    BY <1>2, <1>3
<1>5. setupStatus' \in StatusType
  <2>1. CASE setupStatus' = setupStatus
      BY <1>0, <2>1
  <2>2. CASE setupStatus' = [setupStatus EXCEPT !.request = "asked"]
    <3>1. setupStatus' = [data |-> setupStatus.data, error |-> setupStatus.error,
                          request |-> "asked"]
        BY <1>0, <2>2 DEF StatusType
    <3>2. QED
        BY <1>0, <3>1 DEF StatusType
  <2>3. QED
      BY <2>1, <2>2 DEF Completed, CompleteFails
<1>6. UNCHANGED <<form, step, emailTest, installed>> /\ setup' \in {setup, "success", "error"}
    BY DEF Completed, CompleteFails
<1>7. WizardType' /\ TestIsOfTheForm'
    BY <1>0, <1>6 DEF WizardType, TestIsOfTheForm
<1>8. QED
    BY <1>0, <1>3, <1>4, <1>5, <1>6, <1>7, QuietStep

\* select_for_update: one at a time, and only while nothing is set up.
LEMMA LocksKeeps ==
    ASSUME SetupInv, NEW p \in Posts, Locks(p)
    PROVE  SetupInv'
<1>0. /\ setupStatus \in StatusType /\ WizardType /\ TestIsOfTheForm /\ post \in PostType
      /\ installed \subseteq Payload \X Posts /\ ServerInv
    BY SetupTypes DEF SetupInv
<1>1. PICK a \in {"locked", "refused"} : /\ post' = [post EXCEPT ![p].at = a]
                                         /\ a = "locked" => installed = {}
  <2>1. PICK valid \in BOOLEAN : post' = [post EXCEPT ![p].at =
           IF setup_available /\ post[p].values.token = "right" /\ valid THEN "locked" ELSE "refused"]
      BY DEF Locks
  <2>2. CASE setup_available /\ post[p].values.token = "right" /\ valid
      BY <2>1, <2>2 DEF setup_available
  <2>3. CASE ~ (setup_available /\ post[p].values.token = "right" /\ valid)
      BY <2>1, <2>3
  <2>4. QED
      BY <2>2, <2>3
<1>2. /\ post' \in PostType /\ post'[p].at = a
      /\ \A q \in Posts \ {p} : post'[q] = post[q]
    BY <1>0, <1>1, PostMoves
<1>3. \A q \in Posts : post[q].at # "locked"
    BY DEF Locks, RowIsFree
<1>4. UNCHANGED <<setupStatus, form, step, setup, emailTest, installed>>
    BY DEF Locks, wizard
<1>5. ServerInv'
    BY <1>0, <1>1, <1>2, <1>3, <1>4 DEF ServerInv, OneHolder, LockedBeforeInstalled, OneAtMost
<1>6. WizardType' /\ TestIsOfTheForm'
    BY <1>0, <1>4 DEF WizardType, TestIsOfTheForm
<1>7. QED
    BY <1>0, <1>2, <1>4, <1>5, <1>6, SetupTypesNext DEF SetupInv

\* The transaction of the lock's holder ends.
LEMMA CommitsKeeps ==
    ASSUME SetupInv, NEW p \in Posts, Commits(p)
    PROVE  SetupInv'
<1>0. /\ setupStatus \in StatusType /\ WizardType /\ TestIsOfTheForm /\ post \in PostType
      /\ installed \subseteq Payload \X Posts /\ ServerInv
    BY SetupTypes DEF SetupInv
<1>1. post[p].at = "locked" /\ UNCHANGED <<setupStatus, form, step, setup, emailTest>>
    BY DEF Commits, wizard
<1>2. PICK a \in {"created", "refused"} :
           /\ post' = [post EXCEPT ![p].at = a]
           /\ installed' = installed \cup {<<post[p].values, p>>} \/ installed' = installed
    BY DEF Commits
<1>3. /\ post' \in PostType /\ post'[p].at = a
      /\ \A q \in Posts \ {p} : post'[q] = post[q]
    BY <1>0, <1>2, PostMoves
<1>4. \A q \in Posts : post'[q].at # "locked"
    BY <1>0, <1>1, <1>3 DEF ServerInv, OneHolder
<1>5. installed = {}
    BY <1>0, <1>1 DEF ServerInv, LockedBeforeInstalled
<1>6. post[p].values \in Payload
    BY <1>0 DEF PostType
<1>7. installed' \subseteq Payload \X Posts /\ OneAtMost'
    BY <1>2, <1>5, <1>6 DEF OneAtMost
<1>8. ServerInv'
    BY <1>4, <1>7 DEF ServerInv, OneHolder, LockedBeforeInstalled
<1>9. WizardType' /\ TestIsOfTheForm'
    BY <1>0, <1>1 DEF WizardType, TestIsOfTheForm
<1>10. QED
    BY <1>0, <1>1, <1>3, <1>7, <1>8, <1>9, SetupTypesNext DEF SetupInv

\* No step of the page, of another client or of the server leaves the invariant.
LEMMA StepSetupInv == SetupInv /\ [SetupNext]_setupVars => SetupInv'
<1> SUFFICES ASSUME SetupInv, [SetupNext]_setupVars PROVE SetupInv'
    OBVIOUS
<1>1. CASE SetupStatusIsRead \/ SetupStatusArrives \/ SetupStatusFails \/ SetupStatusRefetches
    BY <1>1, StatusKeeps
<1>2. CASE \/ AdminStep \/ WorkspaceStep \/ EmailStep \/ next \/ Skip \/ Back
           \/ sendTestEmail \/ TestAnswers
    BY <1>2, WizardKeeps
<1>3. ASSUME NEW p \in Posts, complete(p) \/ PostedElsewhere(p) PROVE SetupInv'
    BY <1>3, PostingKeeps
<1>4. ASSUME NEW p \in Posts, Completed(p) \/ CompleteFails(p) PROVE SetupInv'
    BY <1>4, OutcomeKeeps
<1>5. ASSUME NEW p \in Posts, Locks(p) PROVE SetupInv'
    BY <1>5, LocksKeeps
<1>6. ASSUME NEW p \in Posts, Commits(p) PROVE SetupInv'
    BY <1>6, CommitsKeeps
<1>7. CASE UNCHANGED setupVars
    BY <1>7 DEF setupVars, SetupInv, SetupTypeOK, ServerInv, OneHolder,
                LockedBeforeInstalled, OneAtMost, TestIsOfTheForm
<1>8. QED
    BY <1>1, <1>2, <1>3, <1>4, <1>5, <1>6, <1>7 DEF SetupNext

\* The invariant holds in every reachable state.
LEMMA SetupInvariance == SetupSpec => []SetupInv
BY InitSetupInv, StepSetupInv, PTL DEF SetupSpec

-----------------------------------------------------------------------------
\* Statuses, fields, steps and posts keep their types.
THEOREM WizardTypes == SetupSpec => []SetupTypeOK
<1>1. SetupInv => SetupTypeOK
    BY DEF SetupInv
<1>2. QED
    BY <1>1, SetupInvariance, PTL

\* onboarding/api/setup.py: of any number of setups that are posted at once,
\* retried after a lost answer or sent by others, one at most creates the
\* administrator and the workspace.
THEOREM SetUpOnce == SetupSpec => []OneInstallation
<1>1. ASSUME SetupInv PROVE OneInstallation
  <2>1. OneAtMost
      BY <1>1 DEF SetupInv, ServerInv
  <2>2. CASE installed = {}
      BY <2>2, FS_EmptySet DEF OneInstallation
  <2>3. CASE installed # {}
    <3>1. PICK x \in installed : TRUE
        BY <2>3
    <3>2. installed = {x}
        BY <2>1, <3>1 DEF OneAtMost
    <3>3. Cardinality(installed) = 1
        BY <3>2, FS_Singleton
    <3>4. QED
        BY <3>3 DEF OneInstallation
  <2>4. QED
      BY <2>2, <2>3
<1>2. QED
    BY <1>1, SetupInvariance, PTL

\* The test e-mail that the wizard reports as sent was of the settings and the
\* token that the form holds.
THEOREM TestsAreOfTheForm == SetupSpec => []TestShownIsOfTheSettings
<1>1. SetupInv => TestShownIsOfTheSettings
    BY DEF SetupInv, TestIsOfTheForm, TestShownIsOfTheSettings
<1>2. QED
    BY <1>1, SetupInvariance, PTL

-----------------------------------------------------------------------------
(***************************************************************************)
(* The page behind an invitation.  While a workspace's invitation is open, *)
(* no flow reads an administrator's user, and the store may name two       *)
(* people only between the tokens of a login or a registration and its     *)
(* user: "login me" and "me".  Other flows may run all the while.          *)
(***************************************************************************)
FlowRecord == [at : {"unused", "token", "login me", "accept", "joined", "refused",
                     "me", "admin me", "over"},
               as : Anyone \cup {NoOne}, fresh : BOOLEAN]

Unnamed == \E f \in Flows : flow[f].at \in {"login me", "me"}

StoreIsSettled == ~ Unnamed => store.tokens = store.user

InviteInv ==
    /\ InviteTypeOK
    /\ ~ installationAdmin => StoreIsSettled /\ \A f \in Flows : flow[f].at # "admin me"

\* One flow moves on.
LEMMA FlowBecomes ==
    ASSUME InviteTypeOK, NEW f \in Flows, NEW c \in FlowRecord, flow' = [flow EXCEPT ![f] = c]
    PROVE  /\ flow' \in [Flows -> FlowRecord] /\ flow'[f] = c
           /\ \A g \in Flows \ {f} : flow'[g] = flow[g]
BY DEF InviteTypeOK, FlowRecord

\* One flow goes on with what it has.
LEMMA FlowMoves ==
    ASSUME InviteTypeOK, NEW f \in Flows,
           NEW a \in {"login me", "joined", "refused"}, flow' = [flow EXCEPT ![f].at = a]
    PROVE  /\ flow' \in [Flows -> FlowRecord] /\ flow'[f].at = a
           /\ \A g \in Flows \ {f} : flow'[g] = flow[g]
<1>1. flow[f] \in FlowRecord
    BY DEF InviteTypeOK, FlowRecord
<1>2. PICK c : c = [flow[f] EXCEPT !.at = a]
    OBVIOUS
<1>3. PICK b \in BOOLEAN : b = flow[f].fresh
    BY <1>1 DEF FlowRecord
<1>4. c = [at |-> a, as |-> flow[f].as, fresh |-> b]
    BY <1>1, <1>2, <1>3 DEF FlowRecord
<1>5. c \in FlowRecord /\ c.at = a
    BY <1>1, <1>4 DEF FlowRecord
<1>6. flow' = [flow EXCEPT ![f] = c]
    BY <1>2
<1>7. QED
    BY <1>5, <1>6, FlowBecomes

\* A flow that is over, or was never used.
LEMMA EndedType ==
    /\ Ended \in FlowRecord /\ Ended.at = "over"
    /\ NoFlow \in FlowRecord /\ NoFlow.at = "unused"
<1>1. NoFlow = [at |-> "unused", as |-> NoOne, fresh |-> FALSE]
    BY DEF NoFlow
<1>2. ASSUME NEW b \in BOOLEAN, NEW r, r = [at |-> "unused", as |-> NoOne, fresh |-> b]
      PROVE  [r EXCEPT !.at = "over"] = [at |-> "over", as |-> NoOne, fresh |-> b]
    BY <1>2
<1>3. Ended = [at |-> "over", as |-> NoOne, fresh |-> FALSE]
    BY <1>1, <1>2 DEF Ended
<1>4. QED
    BY <1>1, <1>3 DEF FlowRecord

\* Whose tokens and whose user the store may hold.
StoreType == [tokens : Anyone \cup {NoOne}, user : Anyone \cup {NoOne}]

\* The store is set as a whole, or in one of its parts.
LEMMA StoreChanges ==
    ASSUME store \in StoreType, NEW who \in Anyone \cup {NoOne}
    PROVE  /\ [tokens |-> who, user |-> who] \in StoreType
           /\ [store EXCEPT !.tokens = who] \in StoreType
           /\ [store EXCEPT !.user = who] \in StoreType
<1>1. [store EXCEPT !.tokens = who] = [tokens |-> who, user |-> store.user]
    BY DEF StoreType
<1>2. [store EXCEPT !.user = who] = [tokens |-> store.tokens, user |-> who]
    BY DEF StoreType
<1>3. QED
    BY <1>1, <1>2 DEF StoreType

\* How a step of one flow keeps the invariant.
LEMMA FlowStep ==
    ASSUME InviteInv, NEW f \in Flows,
           installationAdmin' = installationAdmin,
           linkUsed' \in BOOLEAN, account' \in BOOLEAN, left' \in BOOLEAN,
           preview' \in {"loading", "shown", "cleared", "failed"},
           latest' \in {0} \cup Flows,
           store' \in StoreType,
           flow' \in [Flows -> FlowRecord],
           \A g \in Flows \ {f} : flow'[g] = flow[g],
           ~ installationAdmin => flow'[f].at # "admin me",
           ~ installationAdmin =>
               \/ flow'[f].at \in {"login me", "me"}
               \/ store'.tokens = store'.user
               \/ store' = store /\ flow[f].at \notin {"login me", "me"}
    PROVE  InviteInv'
<1>1. InviteTypeOK'
    BY DEF InviteInv, InviteTypeOK, StoreType, FlowRecord
<1>2. CASE installationAdmin
    BY <1>1, <1>2 DEF InviteInv
<1>3. CASE ~ installationAdmin
  <2>1. \A g \in Flows : flow'[g].at # "admin me"
      BY <1>3 DEF InviteInv
  <2>2. StoreIsSettled'
      BY <1>3 DEF InviteInv, StoreIsSettled, Unnamed
  <2>3. QED
      BY <1>1, <2>1, <2>2 DEF InviteInv
<1>4. QED
    BY <1>2, <1>3

\* A visitor's first store is that of one person, or empty.
LEMMA InitInviteInv == InviteInit => InviteInv
<1> SUFFICES ASSUME InviteInit PROVE InviteInv
    OBVIOUS
<1>1. flow \in [Flows -> FlowRecord] /\ \A f \in Flows : flow[f].at = "unused"
    BY EndedType DEF InviteInit
<1>2. PICK visitor \in Anyone \cup {NoOne} : store = [tokens |-> visitor, user |-> visitor]
    BY DEF InviteInit, Anyone
<1>3. store.tokens = store.user /\ store \in StoreType
    BY <1>2 DEF StoreType
<1>4. InviteTypeOK
    BY <1>1, <1>3 DEF InviteInit, InviteTypeOK, StoreType, FlowRecord
<1>5. QED
    BY <1>1, <1>3, <1>4 DEF InviteInv, StoreIsSettled

\* The preview, and the switch to another account.
LEMMA PageKeeps ==
    ASSUME InviteInv, PreviewAnswers \/ PreviewIsAsked \/ UseAnotherAccount
    PROVE  InviteInv'
<1>1. UNCHANGED <<installationAdmin, linkUsed, account, flow, latest, left>>
    BY DEF PreviewAnswers, PreviewIsAsked, UseAnotherAccount, theServer
<1>2. preview' \in {"loading", "shown", "cleared", "failed"}
    BY DEF PreviewAnswers, PreviewIsAsked, UseAnotherAccount
<1>3. store' = store \/ store' = [tokens |-> NoOne, user |-> NoOne]
    BY DEF PreviewAnswers, PreviewIsAsked, UseAnotherAccount
<1>4. store' \in StoreType /\ (store' = store \/ store'.tokens = store'.user)
  <2>1. store \in StoreType /\ NoOne \in Anyone \cup {NoOne}
      BY DEF InviteInv, InviteTypeOK, StoreType
  <2>2. [tokens |-> NoOne, user |-> NoOne] \in StoreType
      BY <2>1, StoreChanges
  <2>3. QED
      BY <1>3, <2>1, <2>2
<1>5. InviteTypeOK'
    BY <1>1, <1>2, <1>4 DEF InviteInv, InviteTypeOK, StoreType
<1>6. QED
    BY <1>1, <1>4, <1>5 DEF InviteInv, StoreIsSettled, Unnamed

\* What the visitor starts.
LEMMA StartKeeps ==
    ASSUME InviteInv, NEW f \in Flows,
           AcceptInvitation(f) \/ Register(f) \/ \E who \in Anyone : signIn(f, who)
    PROVE  InviteInv'
<1>0. store \in StoreType
    BY DEF InviteInv, InviteTypeOK, StoreType
<1>1. PICK a \in {"accept", "token"}, w \in Anyone \cup {NoOne}, b \in BOOLEAN :
           flow' = [flow EXCEPT ![f] = [at |-> a, as |-> w, fresh |-> b]]
    BY <1>0 DEF AcceptInvitation, Register, signIn, PostsAcceptance, StoreType
<1> DEFINE c == [at |-> a, as |-> w, fresh |-> b]
<1>2. c \in FlowRecord /\ c.at \in {"accept", "token"} /\ flow' = [flow EXCEPT ![f] = c]
    BY <1>1 DEF FlowRecord
<1> HIDE DEF c
<1>3. /\ flow' \in [Flows -> FlowRecord] /\ flow'[f].at \in {"accept", "token"}
      /\ \A g \in Flows \ {f} : flow'[g] = flow[g]
    BY <1>2, FlowBecomes DEF InviteInv
<1>4. UNCHANGED <<installationAdmin, linkUsed, account, store, left>> /\ flow[f].at = "unused"
    BY DEF AcceptInvitation, Register, signIn, theServer, IsUnused
<1>5. preview' \in {preview, "cleared"} /\ latest' \in {latest, f}
    BY DEF AcceptInvitation, Register, signIn, PostsAcceptance
<1>6. /\ linkUsed' \in BOOLEAN /\ account' \in BOOLEAN /\ left' \in BOOLEAN
      /\ preview' \in {"loading", "shown", "cleared", "failed"}
      /\ latest' \in {0} \cup Flows /\ store' \in StoreType
    BY <1>0, <1>4, <1>5 DEF InviteInv, InviteTypeOK
<1>7. QED
    BY ONLY InviteInv, f \in Flows, <1>3, <1>4, <1>6, FlowStep

\* The login of a flow: tokens, then the user.
LEMMA LoginKeeps ==
    ASSUME InviteInv, NEW f \in Flows, LoginTokens(f) \/ LoginUser(f)
    PROVE  InviteInv'
<1>0. store \in StoreType /\ flow[f].as \in Anyone \cup {NoOne} /\ NoOne \in Anyone \cup {NoOne}
    BY DEF InviteInv, InviteTypeOK, StoreType
<1>1. UNCHANGED <<installationAdmin, linkUsed, account, preview, left>> /\ latest' \in {latest, f}
    BY DEF LoginTokens, LoginUser, theServer
<1>1a. /\ linkUsed' \in BOOLEAN /\ account' \in BOOLEAN /\ left' \in BOOLEAN
       /\ preview' \in {"loading", "shown", "cleared", "failed"}
       /\ latest' \in {0} \cup Flows /\ installationAdmin' = installationAdmin
    BY <1>1 DEF InviteInv, InviteTypeOK
<1>2. CASE LoginTokens(f)
  <2>1. CASE store' = [store EXCEPT !.tokens = flow[f].as] /\ flow' = [flow EXCEPT ![f].at = "login me"]
    <3>1. /\ flow' \in [Flows -> FlowRecord] /\ flow'[f].at = "login me"
          /\ \A g \in Flows \ {f} : flow'[g] = flow[g]
        BY <2>1, FlowMoves DEF InviteInv
    <3>2. store' \in StoreType
        BY <1>0, <2>1, StoreChanges
    <3>3. QED
        BY ONLY InviteInv, f \in Flows, <1>1a, <3>1, <3>2, FlowStep
  <2>2. CASE flow' = [flow EXCEPT ![f] = Ended] /\ store' = store
    <3>1. /\ flow' \in [Flows -> FlowRecord] /\ flow'[f].at = "over"
          /\ \A g \in Flows \ {f} : flow'[g] = flow[g]
        BY <2>2, FlowBecomes, EndedType DEF InviteInv
    <3>2. flow[f].at = "token"
        BY <1>2 DEF LoginTokens
    <3>3. QED
        BY ONLY InviteInv, f \in Flows, <1>0, <1>1a, <2>2, <3>1, <3>2, FlowStep
  <2>3. QED
      BY <1>2, <2>1, <2>2 DEF LoginTokens
<1>3. CASE LoginUser(f)
  <2>1. PICK who \in Anyone \cup {NoOne} : store' = [tokens |-> who, user |-> who]
      BY <1>0, <1>3 DEF LoginUser
  <2>2. store' \in StoreType /\ store'.tokens = store'.user
      BY <1>0, <2>1, StoreChanges
  <2>3. PICK c \in FlowRecord : flow' = [flow EXCEPT ![f] = c] /\ c.at \in {"accept", "over"}
    <3> DEFINE c == [at |-> "accept", as |-> flow[f].as, fresh |-> FALSE]
    <3>1. c \in FlowRecord /\ c.at = "accept"
        BY <1>0 DEF FlowRecord
    <3>2. flow' = [flow EXCEPT ![f] = c] \/ flow' = [flow EXCEPT ![f] = Ended]
        BY <1>3 DEF LoginUser
    <3> HIDE DEF c
    <3>3. QED
        BY <3>1, <3>2, EndedType
  <2>4. /\ flow' \in [Flows -> FlowRecord] /\ flow'[f].at \in {"accept", "over"}
        /\ \A g \in Flows \ {f} : flow'[g] = flow[g]
      BY <2>3, FlowBecomes DEF InviteInv
  <2>5. QED
      BY ONLY InviteInv, f \in Flows, <1>1a, <2>2, <2>4, FlowStep
<1>4. QED
    BY <1>2, <1>3

\* The server's answer, and the page's view of it.
LEMMA AcceptanceKeeps ==
    ASSUME InviteInv, NEW f \in Flows, ServerAccepts(f) \/ AcceptanceFails(f)
    PROVE  InviteInv'
<1>1. /\ UNCHANGED <<installationAdmin, store, preview, left, latest>>
      /\ linkUsed' \in BOOLEAN /\ account' \in BOOLEAN
    BY DEF ServerAccepts, AcceptanceFails, theServer, InviteInv, InviteTypeOK
<1>2. flow[f].at \in {"accept", "joined", "refused"}
    BY DEF ServerAccepts, AcceptanceFails
<1>3. /\ flow' \in [Flows -> FlowRecord] /\ flow'[f].at \in {"joined", "refused", "over"}
      /\ \A g \in Flows \ {f} : flow'[g] = flow[g]
  <2>1. CASE ServerAccepts(f)
    <3>1. PICK a \in {"joined", "refused"} : flow' = [flow EXCEPT ![f].at = a]
        BY <2>1 DEF ServerAccepts
    <3>2. QED
        BY <3>1, FlowMoves DEF InviteInv
  <2>2. CASE AcceptanceFails(f)
      BY <2>2, FlowBecomes, EndedType DEF AcceptanceFails, InviteInv
  <2>3. QED
      BY <2>1, <2>2
<1>4. /\ left' \in BOOLEAN /\ preview' \in {"loading", "shown", "cleared", "failed"}
      /\ latest' \in {0} \cup Flows /\ store' \in StoreType
    BY <1>1 DEF InviteInv, InviteTypeOK, StoreType
<1>5. QED
    BY ONLY InviteInv, f \in Flows, <1>1, <1>2, <1>3, <1>4, FlowStep

\* The rest of a flow, which reads an administrator's user only for an
\* administrator's invitation.
LEMMA GoingOn ==
    ASSUME InviteInv, NEW f \in Flows, NEW w \in Anyone \cup {NoOne}, GoesOn(f, w)
    PROVE  /\ flow' \in [Flows -> FlowRecord] /\ left' \in BOOLEAN
           /\ \A g \in Flows \ {f} : flow'[g] = flow[g]
           /\ ~ installationAdmin => flow'[f].at = "over"
<1> DEFINE c == [at |-> "admin me", as |-> w, fresh |-> FALSE]
<1>1. c \in FlowRecord
    BY DEF FlowRecord
<1>2. /\ flow' = [flow EXCEPT ![f] = c] \/ flow' = [flow EXCEPT ![f] = Ended]
      /\ ~ installationAdmin => flow' = [flow EXCEPT ![f] = Ended]
      /\ left' \in {left, TRUE}
    BY DEF GoesOn
<1> HIDE DEF c
<1>3. QED
    BY <1>1, <1>2, FlowBecomes, EndedType DEF InviteInv, InviteTypeOK

\* What follows an acceptance.
LEMMA JoinedKeeps ==
    ASSUME InviteInv, NEW f \in Flows, Joined(f) \/ NewUser(f) \/ AdminUser(f)
    PROVE  InviteInv'
<1>0. /\ store \in StoreType /\ store.tokens \in Anyone \cup {NoOne}
      /\ "invited" \in Anyone /\ NoOne \in Anyone \cup {NoOne}
    BY DEF InviteInv, InviteTypeOK, StoreType, Anyone
<1>1. UNCHANGED <<installationAdmin, linkUsed, account, preview, latest>>
    BY DEF Joined, NewUser, AdminUser, theServer
<1>2. CASE Joined(f)
  <2>1. CASE flow[f].as = NoOne
    <3> DEFINE c == [at |-> "me", as |-> "invited", fresh |-> FALSE]
    <3>1. c \in FlowRecord /\ c.at = "me"
        BY <1>0 DEF FlowRecord
    <3>2. /\ store' = [store EXCEPT !.tokens = "invited"]
          /\ flow' = [flow EXCEPT ![f] = c] /\ left' = left
        BY <1>2, <2>1 DEF Joined
    <3> HIDE DEF c
    <3>3. /\ flow' \in [Flows -> FlowRecord] /\ flow'[f].at = "me"
          /\ \A g \in Flows \ {f} : flow'[g] = flow[g]
        BY <3>1, <3>2, FlowBecomes DEF InviteInv
    <3>4. store' \in StoreType
        BY <1>0, <3>2, StoreChanges
    <3>5. QED
        BY <1>1, <3>2, <3>3, <3>4, FlowStep DEF InviteInv, InviteTypeOK
  <2>2. CASE flow[f].as # NoOne
    <3>1. GoesOn(f, store.tokens) /\ store' = store /\ flow[f].at = "joined"
        BY <1>2, <2>2 DEF Joined
    <3>2. /\ flow' \in [Flows -> FlowRecord] /\ left' \in BOOLEAN
          /\ \A g \in Flows \ {f} : flow'[g] = flow[g]
          /\ ~ installationAdmin => flow'[f].at = "over"
        BY <1>0, <3>1, GoingOn
    <3>3. QED
        BY <1>0, <1>1, <3>1, <3>2, FlowStep DEF InviteInv, InviteTypeOK
  <2>3. QED
      BY <2>1, <2>2
<1>3. CASE NewUser(f)
  <2>1. PICK who \in Anyone \cup {NoOne} : store' = [tokens |-> who, user |-> who]
      BY <1>0, <1>3 DEF NewUser
  <2>2. store' \in StoreType /\ store'.tokens = store'.user
      BY <1>0, <2>1, StoreChanges
  <2>3. CASE GoesOn(f, "invited")
    <3>1. /\ flow' \in [Flows -> FlowRecord] /\ left' \in BOOLEAN
          /\ \A g \in Flows \ {f} : flow'[g] = flow[g]
          /\ ~ installationAdmin => flow'[f].at = "over"
        BY <1>0, <2>3, GoingOn
    <3>2. QED
        BY <1>1, <2>2, <3>1, FlowStep DEF InviteInv, InviteTypeOK
  <2>4. CASE flow' = [flow EXCEPT ![f] = Ended] /\ left' = left
    <3>1. /\ flow' \in [Flows -> FlowRecord] /\ flow'[f].at = "over"
          /\ \A g \in Flows \ {f} : flow'[g] = flow[g]
        BY <2>4, FlowBecomes, EndedType DEF InviteInv
    <3>2. QED
        BY <1>1, <2>2, <2>4, <3>1, FlowStep DEF InviteInv, InviteTypeOK
  <2>5. QED
      BY <1>3, <2>3, <2>4 DEF NewUser
<1>4. CASE AdminUser(f)
  <2>1. flow[f].at = "admin me" /\ flow[f].as \in Anyone \cup {NoOne}
      BY <1>4 DEF AdminUser, InviteInv, InviteTypeOK
  <2>2. installationAdmin
      BY <2>1 DEF InviteInv
  <2>3. /\ flow' \in [Flows -> FlowRecord] /\ flow'[f].at = "over"
        /\ \A g \in Flows \ {f} : flow'[g] = flow[g]
      BY <1>4, FlowBecomes, EndedType DEF AdminUser, InviteInv
  <2>4. store' \in StoreType /\ left' \in BOOLEAN
    <3>1. store' = [store EXCEPT !.user = flow[f].as] \/ store' = store
        BY <1>4 DEF AdminUser
    <3>2. left' \in {left, TRUE}
        BY <1>4 DEF AdminUser
    <3>3. [store EXCEPT !.user = flow[f].as] \in StoreType
        BY <1>0, <2>1, StoreChanges
    <3>4. QED
        BY <1>0, <3>1, <3>2, <3>3 DEF InviteInv, InviteTypeOK
  <2>5. QED
      BY <1>1, <2>2, <2>3, <2>4, FlowStep DEF InviteInv, InviteTypeOK
<1>5. QED
    BY <1>2, <1>3, <1>4

\* No step of the page or of the server leaves the invariant.
LEMMA StepInviteInv == InviteInv /\ [InviteNext]_inviteVars => InviteInv'
<1> SUFFICES ASSUME InviteInv, [InviteNext]_inviteVars PROVE InviteInv'
    OBVIOUS
<1>1. CASE PreviewAnswers \/ PreviewIsAsked \/ UseAnotherAccount
    BY <1>1, PageKeeps
<1>2. ASSUME NEW f \in Flows,
             AcceptInvitation(f) \/ Register(f) \/ \E who \in Anyone : signIn(f, who)
      PROVE  InviteInv'
    BY <1>2, StartKeeps
<1>3. ASSUME NEW f \in Flows, LoginTokens(f) \/ LoginUser(f) PROVE InviteInv'
    BY <1>3, LoginKeeps
<1>4. ASSUME NEW f \in Flows, ServerAccepts(f) \/ AcceptanceFails(f) PROVE InviteInv'
    BY <1>4, AcceptanceKeeps
<1>5. ASSUME NEW f \in Flows, Joined(f) \/ NewUser(f) \/ AdminUser(f) PROVE InviteInv'
    BY <1>5, JoinedKeeps
<1>6. CASE UNCHANGED inviteVars
    BY <1>6 DEF inviteVars, InviteInv, InviteTypeOK, StoreIsSettled, Unnamed
<1>7. QED
    BY <1>1, <1>2, <1>3, <1>4, <1>5, <1>6 DEF InviteNext

\* The invariant holds in every reachable state.
LEMMA InviteInvariance == InviteSpec => []InviteInv
BY InitInviteInv, StepInviteInv, PTL DEF InviteSpec

-----------------------------------------------------------------------------
\* Flows, the preview and the store keep their types.
THEOREM InvitePageTypes == InviteSpec => []InviteTypeOK
<1>1. InviteInv => InviteTypeOK
    BY DEF InviteInv
<1>2. QED
    BY <1>1, InviteInvariance, PTL

\* However many registrations, sign-ins and account switches of a workspace's
\* invitation overlap, the tokens in the store are those of the user it names
\* once no login is under way.
THEOREM StoreNamesOnePerson == InviteSpec => []SessionIsOnePersons
<1>1. InviteInv => SessionIsOnePersons
    BY DEF InviteInv, StoreIsSettled, Unnamed, Resting, SessionIsOnePersons
<1>2. QED
    BY <1>1, InviteInvariance, PTL

-----------------------------------------------------------------------------
(***************************************************************************)
(* The session.  The inductive invariant adds to the types:                *)
(* History: pairs are issued in order, each stems from a login, and the    *)
(* latest login is the latest number among them;                           *)
(* TokensKnown: the store holds issued tokens, only those are posted, and  *)
(* a pair that a refresh has just been given is unused;                    *)
(* Budget: a refresh token that was posted, may still be posted or may yet *)
(* return to the store makes up for at most one post, two for a login's;   *)
(* SigningIn: nobody is signed in, and nothing is cached, while a login is *)
(* pending;                                                                *)
(* Shell: a user is that of a login, and no request is one for a nobody.   *)
(* Whose data the pages are given takes a second layer, DataInv:           *)
(* Served: the server answers those who carry an issued token;             *)
(* TokensOfTheRefresh: it posts an issued token, and gives one that        *)
(* stems from the same login; if that is the latest, so is the store's;    *)
(* Carried: while the store holds tokens of the latest login, so does      *)
(* every request of the pages, and nothing else is cached.                 *)
(***************************************************************************)
Logins == {0} \cup {pair[p].login : p \in Pairs}
IsEra(e) == e \in Logins /\ \A l \in Logins : l <= e

History ==
    /\ \E k \in 0..MaxPairs : Issued = 1..k
    /\ \A p \in Issued : /\ pair[p].login \in Issued /\ pair[p].login <= p
                         /\ pair[pair[p].login].login = pair[p].login
    /\ \E e \in Logins : IsEra(e)

TokensKnown ==
    /\ authStore.refresh \in Issued \cup {0} /\ authStore.access \in Issued \cup {0}
    /\ \A p \in Pairs \ Issued : posts[p] = 0
    /\ refreshing.at = "rotated" =>
          /\ refreshing.gives \in Issued
          /\ posts[refreshing.gives] = 0
          /\ refreshing.gives \notin {authStore.refresh, era}

\* The refresh token of the store, unless it is the one being posted; and that
\* of a login whose user is still being read.
MayPost(p) ==
    IF authStore.refresh = p /\ (refreshing.at = "none" \/ refreshing.of # p) THEN 1 ELSE 0
MayReturn(p) == IF p = era /\ call["me"].at # "idle" THEN 1 ELSE 0

Budget ==
    \A p \in Pairs :
        posts[p] + MayPost(p) + MayReturn(p) <= IF pair[p].login = p THEN 2 ELSE 1

SigningIn ==
    /\ call["me"].at # "idle" => signingIn = "me" /\ era # 0
    /\ signingIn # "no" => authStore.user = Nobody /\ cached = {}

Shell ==
    /\ authStore.user # Nobody => era # 0
    /\ authStore.user = Nobody =>
          \A c \in Calls : call[c].at = "idle" \/ (call[c].at = "waiting" /\ ~ call[c].kept)

SessionInv ==
    SessionTypeOK /\ History /\ TokensKnown /\ Budget /\ SigningIn /\ Shell

OfThisLogin(t) == t \in Pairs /\ pair[t].login = era

Served ==
    \A c \in Requests :
        call[c].at = "answered" /\ call[c].answer = "ok" => call[c].token \in Issued

TokensOfTheRefresh ==
    /\ authStore.access = authStore.refresh
    /\ refreshing.at # "none" => refreshing.of \in Issued
    /\ refreshing.at = "rotated" => pair[refreshing.gives].login = pair[refreshing.of].login
    /\ authStore.user # Nobody /\ refreshing.at # "none" /\ OfThisLogin(refreshing.of)
          => OwnTokens

\* A request that brings, or may yet bring, the data of its token's owner.
Carrying(c) ==
    call[c].at = "sent" \/ (call[c].at = "answered" /\ call[c].answer = "ok")
Carried ==
    authStore.user # Nobody /\ OwnTokens =>
        /\ cached \subseteq {era}
        /\ \A c \in Calls : Carrying(c) => OfThisLogin(call[c].token)

DataInv == Served /\ TokensOfTheRefresh /\ Carried

(* The pairs the server has issued.                                        *)

PairRecord == [user : Users \cup {Nobody}, login : Pairs \cup {0}]
PairType == pair \in [Pairs -> PairRecord]

\* A pair is issued once it stems from a login.
LEMMA IssuedPairs ==
    ASSUME PairType, History, NEW p \in Pairs
    PROVE  /\ p \in Issued => pair[p].login # 0
           /\ p \notin Issued => pair[p].login = 0
<1>1. p \in Nat /\ p # 0
    BY SessionAssumption DEF Pairs
<1>2. p \in Issued => pair[p].login \in Pairs
    BY DEF History, Issued
<1>3. p \notin Issued => pair[p] = NoPair
    BY DEF Issued
<1>4. NoPair.login = 0
    BY DEF NoPair
<1>5. QED
    BY <1>2, <1>3, <1>4, SessionAssumption DEF Pairs

\* The greatest of some numbers.
LEMMA MaxIs ==
    ASSUME NEW S \in SUBSET Int, NEW e \in S, \A y \in S : y <= e
    PROVE  Max(S) = e
<1> DEFINE m == Max(S)
<1>1. \A y \in S : e >= y
    OBVIOUS
<1>2. m \in S /\ \A y \in S : m >= y
    BY <1>1 DEF Max
<1> HIDE DEF m
<1>3. m \in Int /\ e \in Int /\ m >= e /\ e >= m
    BY <1>1, <1>2
<1>4. m = e
    BY <1>3
<1>5. QED
    BY <1>4 DEF m

\* There is none before the first login.
LEMMA EraFacts ==
    ASSUME PairType, History
    PROVE  /\ era \in Issued \cup {0} /\ era \in Pairs \cup {0}
           /\ IsEra(era)
           /\ era # 0 => pair[era].login = era
<1>1. PICK e \in Logins : IsEra(e)
    BY DEF History
<1>2. era = e
  <2>1. Logins \in SUBSET Int /\ era = Max(Logins)
      BY SessionAssumption DEF PairType, PairRecord, Logins, Pairs, era
  <2>2. QED
      BY <1>1, <2>1, MaxIs DEF IsEra
<1>3. CASE e = 0
    BY <1>1, <1>2, <1>3
<1>4. CASE e # 0
  <2>1. PICK p \in Pairs : e = pair[p].login
      BY <1>4 DEF Logins
  <2>2. p \in Issued
      BY <1>4, <2>1, IssuedPairs
  <2>3. e \in Issued /\ pair[e].login = e
      BY <2>1, <2>2 DEF History
  <2>4. QED
      BY <1>1, <1>2, <2>3 DEF Issued
<1>5. QED
    BY <1>3, <1>4

\* The next pair has not been issued.
LEMMA NextPairIs ==
    ASSUME PairType, History
    PROVE  /\ NextPair \in Nat \ {0} /\ NextPair \notin Issued
           /\ \E k \in 0..MaxPairs : Issued = 1..k /\ NextPair = k + 1
           /\ \A p \in Issued : p < NextPair
<1>1. PICK k \in 0..MaxPairs : Issued = 1..k
    BY DEF History
<1>2. k \in Nat
    BY SessionAssumption
<1>3. Cardinality(1..k) = k
    BY <1>2, FS_Interval
<1>4. NextPair = k + 1
    BY <1>1, <1>3 DEF NextPair
<1>5. QED
    BY <1>1, <1>2, <1>4

\* What the server's Issue does to the history: a login's pair opens an era, a
\* rotation's stays in that of the login it stems from.
LEMMA Issuing ==
    ASSUME PairType, History, NEW u \in Users \cup {Nobody}, NEW login, Issue(u, login),
           login = NextPair \/ (login \in Issued /\ pair[login].login = login)
    PROVE  /\ PairType' /\ History' /\ NextPair \in Pairs
           /\ Issued' = Issued \cup {NextPair}
           /\ pair'[NextPair].login = login
           /\ \A p \in Pairs \ {NextPair} : pair'[p] = pair[p]
           /\ era' = IF login = NextPair THEN NextPair ELSE era
<1> DEFINE n == NextPair
           c == [user |-> u, login |-> login]
<1>1. /\ n \in Pairs /\ n \in Nat \ {0} /\ n \notin Issued /\ \A p \in Issued : p < n
      /\ \E k \in 0..MaxPairs : Issued = 1..k /\ n = k + 1
      /\ pair' = [pair EXCEPT ![n] = c]
    BY NextPairIs DEF Issue
<1>2. login \in Pairs /\ login <= n /\ login # 0 /\ c.login = login /\ c \in PairRecord
    BY <1>1 DEF PairRecord, Issued, Pairs
<1>3. c # NoPair
  <2>1. NoPair.login = 0
      BY DEF NoPair
  <2>2. QED
      BY <1>2, <2>1
<1> HIDE DEF n, c
<1>4. /\ pair'[n] = c /\ (\A p \in Pairs \ {n} : pair'[p] = pair[p])
      /\ PairType'
    BY <1>1, <1>2 DEF PairType
<1>5. Issued' = Issued \cup {n}
    BY <1>1, <1>3, <1>4 DEF Issued
<1>6. \E k \in 0..MaxPairs : Issued' = 1..k
  <2>1. PICK k \in 0..MaxPairs : Issued = 1..k /\ n = k + 1
      BY <1>1
  <2>2. Issued' = 1..n
      BY <1>5, <2>1, SessionAssumption
  <2>3. QED
      BY <1>1, <2>2, SessionAssumption DEF Pairs
<1>7. ASSUME NEW p \in Issued'
      PROVE  /\ pair'[p].login \in Issued' /\ pair'[p].login <= p
             /\ pair'[pair'[p].login].login = pair'[p].login
  <2>1. CASE p = n
    <3>1. pair'[p].login = login
        BY <1>2, <1>4, <2>1
    <3>2. CASE login = n
        BY <1>2, <1>4, <1>5, <2>1, <3>1, <3>2
    <3>3. CASE login # n
      <4>1. login \in Issued /\ pair[login].login = login
          BY <3>3 DEF n
      <4>2. QED
          BY <1>2, <1>4, <1>5, <2>1, <3>1, <3>3, <4>1
    <3>4. QED
        BY <3>2, <3>3
  <2>2. CASE p # n
    <3>1. p \in Issued /\ p \in Pairs
        BY <1>5, <2>2 DEF Issued
    <3>2. /\ pair[p].login \in Issued /\ pair[p].login <= p
          /\ pair[pair[p].login].login = pair[p].login
        BY <3>1 DEF History
    <3>3. pair[p].login # n /\ pair[p].login \in Pairs
        BY <1>1, <3>2 DEF Issued
    <3>4. QED
        BY <1>4, <1>5, <2>2, <3>1, <3>2, <3>3
  <2>3. QED
      BY <2>1, <2>2
<1>8. Logins' = Logins \cup {login}
  <2>1. pair[n].login = 0
      BY <1>1, IssuedPairs
  <2>2. QED
      BY <1>1, <1>2, <1>4, <2>1 DEF Logins
<1>9. PICK e : e = IF login = n THEN n ELSE era
    OBVIOUS
<1>10. e \in Logins' /\ \A l \in Logins' : l <= e
  <2>1. era \in Issued \cup {0} /\ era \in Logins /\ \A l \in Logins : l <= era
      BY EraFacts DEF IsEra
  <2>2. CASE login = n
    <3>1. \A l \in Logins : l <= n
      <4>1. ASSUME NEW l \in Logins PROVE l <= n
        <5>1. l \in Nat /\ era \in Nat /\ l <= era /\ era <= n /\ n \in Nat
            BY <1>1, <2>1, SessionAssumption DEF Logins, PairType, PairRecord, Pairs, Issued
        <5>2. QED
            BY <5>1
      <4>2. QED
          BY <4>1
    <3>2. QED
        BY <1>1, <1>8, <2>2, <1>9, <3>1
  <2>3. CASE login # n
    <3>1. login \in Logins
      <4>1. login \in Issued /\ pair[login].login = login
          BY <2>3 DEF n
      <4>2. QED
          BY <1>2, <4>1 DEF Logins
    <3>2. Logins' = Logins
        BY <1>8, <3>1
    <3>3. QED
        BY <1>9, <2>1, <2>3, <3>2
  <2>4. QED
      BY <2>2, <2>3
<1>11. era' = e
  <2>1. Logins' \in SUBSET Int /\ era' = Max(Logins')
      BY <1>4, SessionAssumption DEF PairType, PairRecord, Logins, Pairs, era
  <2>2. QED
      BY <1>10, <2>1, MaxIs
<1>12. History'
    BY <1>6, <1>7, <1>10 DEF History, IsEra
<1>13. QED
    BY <1>1, <1>2, <1>4, <1>5, <1>9, <1>11, <1>12 DEF n

-----------------------------------------------------------------------------
(* Requests.                                                               *)

Answers == {"none", "ok", "refused", "401", "lost"}
CallPlaces == {"idle", "sent", "answered", "waiting"}
Tokens == Pairs \cup {0}

\* Whatever of a request changes, it stays one.
LEMMA CallFields ==
    ASSUME NEW a \in CallPlaces, NEW t \in Tokens, NEW o \in Answers, NEW r \in BOOLEAN,
           NEW k \in BOOLEAN, NEW b \in Tokens, NEW d,
           d = [at |-> a, token |-> t, answer |-> o, retry |-> r, kept |-> k, body |-> b]
    PROVE  d \in Call /\ d.at = a /\ d.kept = k
BY DEF Call, CallPlaces, Answers, Tokens

\* So it does when some of its fields are set.
LEMMA CallChanges ==
    ASSUME NEW c \in Call, NEW d,
           \/ d = [c EXCEPT !.kept = FALSE]
           \/ \E a \in CallPlaces, o \in Answers : d = [c EXCEPT !.at = a, !.answer = o]
           \/ \E a \in CallPlaces : d = [c EXCEPT !.at = a, !.retry = TRUE]
           \/ \E a \in CallPlaces, o \in Answers, t \in Tokens :
                 d = [c EXCEPT !.at = a, !.answer = o, !.token = t]
    PROVE  d \in Call
<1>1. PICK r \in BOOLEAN, k \in BOOLEAN : r = c.retry /\ k = c.kept
    BY DEF Call
<1>2. c = [at |-> c.at, token |-> c.token, answer |-> c.answer, retry |-> r, kept |-> k,
           body |-> c.body]
    BY <1>1 DEF Call
<1>3. c.at \in CallPlaces /\ c.token \in Tokens /\ c.answer \in Answers /\ c.body \in Tokens
    BY DEF Call, CallPlaces, Answers, Tokens
<1>4. PICK at \in CallPlaces, tk \in Tokens, an \in Answers, bd \in Tokens :
           at = c.at /\ tk = c.token /\ an = c.answer /\ bd = c.body
    BY <1>3
<1>5. c = [at |-> at, token |-> tk, answer |-> an, retry |-> r, kept |-> k, body |-> bd]
    BY <1>2, <1>4
<1>6. PICK f \in BOOLEAN, y \in BOOLEAN : f = FALSE /\ y = TRUE
    OBVIOUS
<1>7. CASE d = [c EXCEPT !.kept = FALSE]
  <2>1. d = [at |-> at, token |-> tk, answer |-> an, retry |-> r, kept |-> f, body |-> bd]
      BY <1>5, <1>6, <1>7
  <2>2. QED
      BY <2>1, <1>6 DEF Call, CallPlaces, Answers, Tokens
<1>8. ASSUME NEW a \in CallPlaces, NEW o \in Answers, d = [c EXCEPT !.at = a, !.answer = o]
      PROVE  d \in Call
  <2>1. d = [at |-> a, token |-> tk, answer |-> o, retry |-> r, kept |-> k, body |-> bd]
      BY <1>5, <1>8
  <2>2. QED
      BY <2>1, <1>6 DEF Call, CallPlaces, Answers, Tokens
<1>9. ASSUME NEW a \in CallPlaces, d = [c EXCEPT !.at = a, !.retry = TRUE]
      PROVE  d \in Call
  <2>1. d = [at |-> a, token |-> tk, answer |-> an, retry |-> y, kept |-> k, body |-> bd]
      BY <1>5, <1>6, <1>9
  <2>2. QED
      BY <2>1, <1>6 DEF Call, CallPlaces, Answers, Tokens
<1>10. ASSUME NEW a \in CallPlaces, NEW o \in Answers, NEW t \in Tokens,
              d = [c EXCEPT !.at = a, !.answer = o, !.token = t]
       PROVE  d \in Call
  <2>1. d = [at |-> a, token |-> t, answer |-> o, retry |-> r, kept |-> k, body |-> bd]
      BY <1>5, <1>10
  <2>2. QED
      BY <2>1, <1>6 DEF Call, CallPlaces, Answers, Tokens
<1>11. QED
    BY <1>7, <1>8, <1>9, <1>10

\* An idle request, and one that is sent.
LEMMA SentType ==
    ASSUME NEW t \in Tokens, NEW b \in Tokens
    PROVE  /\ IdleCall \in Call /\ IdleCall.at = "idle"
           /\ [IdleCall EXCEPT !.at = "sent", !.token = t, !.kept = TRUE, !.body = b] \in Call
           /\ [IdleCall EXCEPT !.at = "sent", !.token = t] \in Call
<1>0. 0 \in Tokens
    BY DEF Tokens
<1>1. PICK f \in BOOLEAN, y \in BOOLEAN : f = FALSE /\ y = TRUE
    OBVIOUS
<1>2. IdleCall = [at |-> "idle", token |-> 0, answer |-> "none", retry |-> f, kept |-> f,
                  body |-> 0]
    BY <1>1 DEF IdleCall
<1>3. IdleCall \in Call /\ IdleCall.at = "idle"
    BY <1>0, <1>2, CallFields DEF CallPlaces, Answers
<1>4. ASSUME NEW i, i = IdleCall, NEW d,
             \/ d = [i EXCEPT !.at = "sent", !.token = t, !.kept = y, !.body = b]
             \/ d = [i EXCEPT !.at = "sent", !.token = t]
      PROVE  d \in Call
  <2>1. \/ d = [at |-> "sent", token |-> t, answer |-> "none", retry |-> f, kept |-> y, body |-> b]
        \/ d = [at |-> "sent", token |-> t, answer |-> "none", retry |-> f, kept |-> f, body |-> 0]
      BY <1>2, <1>4
  <2>2. QED
      BY <1>0, <2>1, CallFields DEF CallPlaces, Answers
<1>5. PICK u, v : /\ u = [IdleCall EXCEPT !.at = "sent", !.token = t, !.kept = y, !.body = b]
                  /\ v = [IdleCall EXCEPT !.at = "sent", !.token = t]
    OBVIOUS
<1>6. u \in Call /\ v \in Call
    BY <1>4, <1>5
<1>7. QED
    BY <1>1, <1>3, <1>5, <1>6

\* Without an observer the pages' requests are over, or given up.
Parked(calls, c) == calls[c].at = "idle" \/ (calls[c].at = "waiting" /\ ~ calls[c].kept)

\* What an abort leaves of the requests.
LEMMA Aborted ==
    ASSUME NEW calls \in [Requests -> Call], NEW new, new = Abort(calls)
    PROVE  /\ new \in [Requests -> Call]
           /\ \A c \in Calls : Parked(new, c)
           /\ \A c \in Requests \ Calls : new[c] = calls[c]
<1>1. new = [c \in Requests |-> new[c]]
    BY DEF Abort
<1>2. ASSUME NEW c \in Requests
      PROVE  new[c] \in Call /\ (c \in Calls => Parked(new, c)) /\ (c \notin Calls => new[c] = calls[c])
  <2>1. calls[c] \in Call /\ IdleCall \in Call /\ IdleCall.at = "idle"
      BY SentType, SessionAssumption DEF Tokens
  <2>2. CASE c \notin Calls
      BY <2>1, <2>2 DEF Abort
  <2>3. CASE c \in Calls /\ calls[c].at = "waiting"
    <3>1. PICK d : d = [calls[c] EXCEPT !.kept = FALSE]
        OBVIOUS
    <3>2. new[c] = d
        BY <2>3, <3>1 DEF Abort
    <3>3. d \in Call
        BY <2>1, <3>1, CallChanges
    <3>4. d.at = calls[c].at /\ ~ d.kept
        BY <2>1, <3>1 DEF Call
    <3>5. QED
        BY <2>3, <3>2, <3>3, <3>4 DEF Parked
  <2>4. CASE c \in Calls /\ calls[c].at # "waiting"
      BY <2>1, <2>4 DEF Abort, Parked
  <2>5. QED
      BY <2>2, <2>3, <2>4
<1>3. QED
    BY <1>1, <1>2 DEF Requests

\* One request changes.
LEMMA CallBecomes ==
    ASSUME call \in [Requests -> Call], NEW c \in Requests, NEW d \in Call,
           NEW new, new = [call EXCEPT ![c] = d]
    PROVE  new \in [Requests -> Call] /\ new[c] = d /\ \A x \in Requests \ {c} : new[x] = call[x]
OBVIOUS

\* Two of its fields are set.
LEMMA TwoFields ==
    ASSUME call \in [Requests -> Call], NEW c \in Requests, NEW a \in CallPlaces, NEW o \in Answers,
           NEW new, new = [call EXCEPT ![c].at = a, ![c].answer = o]
    PROVE  /\ new \in [Requests -> Call]
           /\ \A x \in Requests \ {c} : new[x] = call[x]
<1>1. PICK d : d = [call[c] EXCEPT !.at = a, !.answer = o]
    OBVIOUS
<1>2. d \in Call
    BY <1>1, CallChanges
<1>3. new = [call EXCEPT ![c] = d]
    BY <1>1
<1>4. QED
    BY <1>2, <1>3, CallBecomes

-----------------------------------------------------------------------------
(* What the steps have in common.                                          *)

\* While the server issues nothing the history stays.
LEMMA PairsStay ==
    ASSUME pair' = pair
    PROVE  Issued' = Issued /\ era' = era /\ (History => History')
<1>1. Issued' = Issued /\ era' = era /\ Logins' = Logins
    BY DEF Issued, era, Logins
<1>2. QED
    BY <1>1 DEF History, IsEra

StoreRecord == [access : Tokens, refresh : Tokens, user : Users \cup {Nobody}]
RefreshRecord == [at : {"none", "posted", "rotated", "refused"}, of : Tokens, gives : Tokens]

\* The type invariant in parts.
LEMMA SessionTypes ==
    SessionTypeOK <=>
        /\ authStore \in StoreRecord /\ PairType
        /\ accessLive \subseteq Issued /\ refreshLive \subseteq Issued
        /\ call \in [Requests -> Call] /\ refreshing \in RefreshRecord
        /\ signingIn \in {"no", "token", "me"} /\ path \in {"app", "public"}
        /\ cached \subseteq Pairs /\ posts \in [Pairs -> Nat]
BY DEF SessionTypeOK, StoreRecord, PairType, PairRecord, RefreshRecord, Tokens

\* And so it is after a step.
LEMMA SessionTypesNext ==
    ASSUME authStore' \in StoreRecord, PairType',
           accessLive' \subseteq Issued', refreshLive' \subseteq Issued',
           call' \in [Requests -> Call], refreshing' \in RefreshRecord,
           signingIn' \in {"no", "token", "me"}, path' \in {"app", "public"},
           cached' \subseteq Pairs, posts' \in [Pairs -> Nat]
    PROVE  SessionTypeOK'
BY DEF SessionTypeOK, StoreRecord, PairType, PairRecord, RefreshRecord, Tokens

\* Nothing is posted, and no token gets another chance to be.
LEMMA SameBudget ==
    ASSUME Budget, posts \in [Pairs -> Nat], pair' = pair, posts' = posts,
           \A p \in Pairs : MayPost(p)' <= MayPost(p) /\ MayReturn(p)' <= MayReturn(p)
    PROVE  Budget'
<1>1. ASSUME NEW p \in Pairs
      PROVE  /\ MayPost(p) \in Nat /\ MayReturn(p) \in Nat
             /\ MayPost(p)' \in Nat /\ MayReturn(p)' \in Nat
    BY DEF MayPost, MayReturn
<1>2. ASSUME NEW p \in Pairs
      PROVE  posts'[p] + MayPost(p)' + MayReturn(p)' <= IF pair'[p].login = p THEN 2 ELSE 1
  <2>1. posts[p] + MayPost(p) + MayReturn(p) <= IF pair[p].login = p THEN 2 ELSE 1
      BY DEF Budget
  <2>2. posts[p] \in Nat /\ MayPost(p)' <= MayPost(p) /\ MayReturn(p)' <= MayReturn(p)
      OBVIOUS
  <2>3. QED
      BY <1>1, <2>1, <2>2
<1>3. QED
    BY <1>2 DEF Budget

\* Steps of the requests alone, and tokens that expire.
LEMMA QuietSession ==
    ASSUME SessionInv,
           UNCHANGED <<authStore, pair, posts, refreshing, cached, signingIn>>,
           path' \in {"app", "public"}, call' \in [Requests -> Call],
           accessLive' \subseteq accessLive, refreshLive' \subseteq refreshLive,
           call'["me"].at # "idle" => call["me"].at # "idle",
           authStore.user = Nobody => \A c \in Calls : Parked(call, c) => Parked(call', c)
    PROVE  SessionInv'
<1>1. Issued' = Issued /\ era' = era /\ History'
    BY PairsStay DEF SessionInv
<1>2. SessionTypeOK'
  <2>1. /\ authStore \in StoreRecord /\ PairType
        /\ accessLive \subseteq Issued /\ refreshLive \subseteq Issued
        /\ refreshing \in RefreshRecord /\ signingIn \in {"no", "token", "me"}
        /\ cached \subseteq Pairs /\ posts \in [Pairs -> Nat]
      BY SessionTypes DEF SessionInv
  <2>2. PairType'
      BY <2>1 DEF PairType
  <2>3. QED
      BY <1>1, <2>1, <2>2, SessionTypesNext
<1>3. TokensKnown'
    BY <1>1 DEF SessionInv, TokensKnown
<1>4. Budget'
  <2>1. \A p \in Pairs : MayPost(p)' <= MayPost(p) /\ MayReturn(p)' <= MayReturn(p)
      BY <1>1 DEF MayPost, MayReturn
  <2>2. posts \in [Pairs -> Nat]
      BY SessionTypes DEF SessionInv
  <2>3. QED
      BY <2>1, <2>2, SameBudget DEF SessionInv
<1>5. SigningIn'
    BY <1>1 DEF SessionInv, SigningIn
<1>6. Shell'
    BY <1>1 DEF SessionInv, Shell, Parked
<1>7. QED
    BY <1>1, <1>2, <1>3, <1>4, <1>5, <1>6 DEF SessionInv

\* login's own request is none of the pages'.
LEMMA MeIsApart ==
    /\ "me" \notin Calls /\ "me" \in Requests
    /\ "logout" \notin Calls /\ "logout" \in Requests
    /\ Calls \subseteq Requests
BY SessionAssumption DEF Requests

\* Nobody has signed in at first.
LEMMA InitSession == SessionInit => SessionInv
<1> SUFFICES ASSUME SessionInit PROVE SessionInv
    OBVIOUS
<1>1. Issued = {} /\ PairType
  <2>1. NoPair \in PairRecord
      BY DEF NoPair, PairRecord
  <2>2. pair \in [Pairs -> PairRecord] /\ \A p \in Pairs : pair[p] = NoPair
      BY <2>1 DEF SessionInit
  <2>3. QED
      BY <2>2 DEF Issued, PairType
<1>2. \E k \in 0..MaxPairs : Issued = 1..k
  <2>1. 1..0 = {} /\ 0 \in 0..MaxPairs
      BY SessionAssumption
  <2>2. QED
      BY <1>1, <2>1
<1>3. Logins = {0}
  <2>1. NoPair.login = 0 /\ \A p \in Pairs : pair[p] = NoPair
      BY DEF NoPair, SessionInit
  <2>2. QED
      BY <2>1 DEF Logins
<1>4. History
    BY <1>1, <1>2, <1>3 DEF History, IsEra
<1>5. /\ call \in [Requests -> Call] /\ \A c \in Requests : call[c].at = "idle"
    BY SentType DEF SessionInit, Tokens
<1>6. authStore \in StoreRecord /\ authStore.refresh = 0 /\ authStore.access = 0
      /\ authStore.user = Nobody
    BY DEF SessionInit, NoStore, StoreRecord, Tokens
<1>7. refreshing \in RefreshRecord /\ refreshing.at = "none"
    BY DEF SessionInit, NoRefresh, RefreshRecord, Tokens
<1>8. posts \in [Pairs -> Nat] /\ \A p \in Pairs : posts[p] = 0
    BY DEF SessionInit
<1>9. SessionTypeOK
    BY <1>1, <1>5, <1>6, <1>7, <1>8, SessionTypes DEF SessionInit
<1>10. TokensKnown
    BY <1>6, <1>7, <1>8 DEF TokensKnown
<1>11. Budget
  <2>1. ASSUME NEW p \in Pairs PROVE posts[p] = 0 /\ MayPost(p) = 0 /\ MayReturn(p) = 0
      BY <1>5, <1>6, <1>8, MeIsApart, SessionAssumption DEF MayPost, MayReturn, Pairs
  <2>2. QED
      BY <2>1 DEF Budget
<1>12. SigningIn /\ Shell
    BY <1>5, <1>6, MeIsApart DEF SessionInit, SigningIn, Shell
<1>13. QED
    BY <1>4, <1>9, <1>10, <1>11, <1>12 DEF SessionInv

-----------------------------------------------------------------------------
(* The steps of the session.                                               *)

\* The router.
LEMMA NavigateKeeps ==
    ASSUME SessionInv, NEW p \in {"app", "public"}, NavigateTo(p)
    PROVE  SessionInv'
<1>0. call \in [Requests -> Call]
    BY SessionTypes DEF SessionInv
<1>1. call' = Abort(call) \/ call' = call
    BY DEF NavigateTo
<1>2. /\ call' \in [Requests -> Call] /\ call'["me"] = call["me"]
      /\ \A c \in Calls : Parked(call, c) => Parked(call', c)
    BY <1>0, <1>1, Aborted, MeIsApart
<1>3. /\ UNCHANGED <<authStore, pair, posts, refreshing, cached, signingIn, accessLive, refreshLive>>
      /\ path' \in {"app", "public"}
    BY DEF NavigateTo, server
<1>4. QED
    BY <1>2, <1>3, QuietSession

\* A request, or a logout's, is sent.
LEMMA SendKeeps ==
    ASSUME SessionInv, NEW c \in Requests, Send(c) \/ (c = "logout" /\ Logout)
    PROVE  SessionInv'
<1>0. call \in [Requests -> Call] /\ authStore \in StoreRecord
    BY SessionTypes DEF SessionInv
<1>1. PICK b \in Tokens : call' = Sent(c, b)
    BY <1>0 DEF Send, Logout, Tokens, StoreRecord
<1> DEFINE d == [IdleCall EXCEPT !.at = "sent", !.token = authStore.access, !.kept = TRUE, !.body = b]
<1>2. d \in Call
    BY <1>0, SentType DEF StoreRecord
<1>3. call' = [call EXCEPT ![c] = d]
    BY <1>1 DEF Sent
<1> HIDE DEF d
<1>4. call' \in [Requests -> Call] /\ \A x \in Requests \ {c} : call'[x] = call[x]
    BY <1>0, <1>2, <1>3, CallBecomes
<1>5. c # "me" /\ authStore.user # Nobody
    BY MeIsApart DEF Send, Logout, RootLayout
<1>6. UNCHANGED <<authStore, pair, posts, refreshing, cached, signingIn, accessLive, refreshLive, path>>
    BY DEF Send, Logout, server
<1>7. path' \in {"app", "public"}
    BY <1>6, SessionTypes DEF SessionInv
<1>8. QED
    BY <1>4, <1>5, <1>6, <1>7, QuietSession, MeIsApart

\* The server answers a request, or the answer is lost.
LEMMA ServeKeeps ==
    ASSUME SessionInv, NEW c \in Requests, ServeRequest(c)
    PROVE  SessionInv'
<1>0. call \in [Requests -> Call] /\ path \in {"app", "public"}
    BY SessionTypes DEF SessionInv
<1>1. \/ \E o \in Answers : call' = [call EXCEPT ![c].at = "answered", ![c].answer = o]
      \/ call' = [call EXCEPT ![c] = [IdleCall EXCEPT !.at = "answered", !.answer = "lost"]]
    BY DEF ServeRequest, Answers
<1>2. call' \in [Requests -> Call] /\ \A x \in Requests \ {c} : call'[x] = call[x]
  <2>0. "answered" \in CallPlaces /\ "lost" \in Answers
      BY DEF CallPlaces, Answers
  <2>1. CASE \E o \in Answers : call' = [call EXCEPT ![c].at = "answered", ![c].answer = o]
    <3>1. PICK o \in Answers, a \in CallPlaces : call' = [call EXCEPT ![c].at = a, ![c].answer = o]
        BY <2>0, <2>1
    <3>2. QED
        BY ONLY <1>0, <3>1, TwoFields
  <2>2. CASE call' = [call EXCEPT ![c] = [IdleCall EXCEPT !.at = "answered", !.answer = "lost"]]
    <3>1. PICK d : d = [IdleCall EXCEPT !.at = "answered", !.answer = "lost"]
        OBVIOUS
    <3>2. d \in Call
      <4>1. IdleCall \in Call
          BY SentType DEF Tokens
      <4>2. PICK a \in CallPlaces, o \in Answers : d = [IdleCall EXCEPT !.at = a, !.answer = o]
          BY <2>0, <3>1
      <4>3. QED
          BY <4>1, <4>2, CallChanges
    <3>3. QED
        BY <1>0, <2>2, <3>1, <3>2
  <2>3. QED
      BY <1>1, <2>1, <2>2
<1>3. /\ UNCHANGED <<authStore, pair, posts, refreshing, cached, signingIn, accessLive, path>>
      /\ refreshLive' \subseteq refreshLive /\ call[c].at = "sent"
    BY DEF ServeRequest
<1>4. authStore.user = Nobody => c \notin Calls
    BY <1>3 DEF SessionInv, Shell
<1>5. \A x \in Calls : authStore.user = Nobody /\ Parked(call, x) => Parked(call', x)
    BY <1>2, <1>4, MeIsApart DEF Parked
<1>6. call'["me"].at # "idle" => call["me"].at # "idle"
    BY <1>2, <1>3, MeIsApart
<1>7. QED
    BY <1>0, <1>2, <1>3, <1>5, <1>6, QuietSession

\* An access token expires.
LEMMA ExpireKeeps ==
    ASSUME SessionInv, NEW p \in Pairs, Expire(p)
    PROVE  SessionInv'
<1>1. /\ UNCHANGED <<authStore, pair, posts, refreshing, cached, signingIn, refreshLive, path, call>>
      /\ accessLive' \subseteq accessLive
    BY DEF Expire
<1>2. path' \in {"app", "public"} /\ call' \in [Requests -> Call]
    BY <1>1, SessionTypes DEF SessionInv
<1>3. QED
    BY <1>1, <1>2, QuietSession

\* A reload forgets what was posted, and everything under way.
LEMMA ReloadKeeps ==
    ASSUME SessionInv, Reload
    PROVE  SessionInv'
<1>0. /\ authStore \in StoreRecord /\ PairType
      /\ accessLive \subseteq Issued /\ refreshLive \subseteq Issued /\ path \in {"app", "public"}
      /\ History
    BY SessionTypes DEF SessionInv
<1>1. /\ UNCHANGED <<authStore, pair, accessLive, path>>
      /\ refreshLive' \subseteq refreshLive
      /\ refreshing' = NoRefresh /\ signingIn' = "no" /\ cached' = {}
      /\ call' = [c \in Requests |-> IdleCall] /\ posts' = [p \in Pairs |-> 0]
    BY DEF Reload
<1>2. Issued' = Issued /\ era' = era /\ History'
    BY <1>0, <1>1, PairsStay
<1>3. call' \in [Requests -> Call] /\ \A c \in Requests : call'[c].at = "idle"
    BY <1>1, SentType DEF Tokens
<1>4. refreshing' \in RefreshRecord /\ refreshing'.at = "none"
    BY <1>1 DEF NoRefresh, RefreshRecord, Tokens
<1>5. posts' \in [Pairs -> Nat] /\ \A p \in Pairs : posts'[p] = 0
    BY <1>1
<1>6. SessionTypeOK'
    BY <1>0, <1>1, <1>2, <1>3, <1>4, <1>5, SessionTypesNext DEF PairType
<1>7. TokensKnown'
    BY <1>1, <1>2, <1>4, <1>5 DEF SessionInv, TokensKnown
<1>8. Budget'
  <2>1. ASSUME NEW p \in Pairs
        PROVE  posts'[p] = 0 /\ MayPost(p)' \in {0, 1} /\ MayReturn(p)' = 0
      BY <1>3, <1>5, MeIsApart DEF MayPost, MayReturn
  <2>2. ASSUME NEW p \in Pairs
        PROVE  posts'[p] + MayPost(p)' + MayReturn(p)' <= IF pair'[p].login = p THEN 2 ELSE 1
      BY <2>1
  <2>3. QED
      BY <2>2 DEF Budget
<1>9. SigningIn' /\ Shell'
    BY <1>1, <1>2, <1>3, MeIsApart DEF SessionInv, SigningIn, Shell
<1>10. QED
    BY <1>2, <1>6, <1>7, <1>8, <1>9 DEF SessionInv

\* A login begins with an empty cache, and may fail.
LEMMA LoginBegins ==
    ASSUME SessionInv, Login \/ LoginFails
    PROVE  SessionInv'
<1>0. /\ authStore \in StoreRecord /\ PairType
      /\ accessLive \subseteq Issued /\ refreshLive \subseteq Issued
      /\ call \in [Requests -> Call] /\ refreshing \in RefreshRecord
      /\ path \in {"app", "public"} /\ cached \subseteq Pairs /\ posts \in [Pairs -> Nat]
      /\ History
    BY SessionTypes DEF SessionInv
<1>1. UNCHANGED <<authStore, pair, accessLive, refreshLive, refreshing, path, posts>>
    BY DEF Login, LoginFails, server
<1>2. Issued' = Issued /\ era' = era /\ History' /\ PairType'
    BY <1>0, <1>1, PairsStay DEF PairType
<1>3. /\ call' \in [Requests -> Call] /\ call'["me"] = call["me"]
      /\ \A c \in Calls : Parked(call, c) => Parked(call', c)
    BY <1>0, Aborted, MeIsApart DEF Login, LoginFails
<1>4. /\ signingIn' \in {"no", "token"} /\ cached' \in {cached, {}}
      /\ signingIn' = "token" => cached' = {}
      /\ signingIn # "me" /\ authStore.user = Nobody
    BY DEF Login, LoginFails, RootLayout, SessionInv, SigningIn
<1>5. SessionTypeOK'
    BY <1>0, <1>1, <1>2, <1>3, <1>4, SessionTypesNext
<1>6. TokensKnown'
    BY <1>1, <1>2 DEF SessionInv, TokensKnown
<1>7. Budget'
  <2>1. \A p \in Pairs : MayPost(p)' <= MayPost(p) /\ MayReturn(p)' <= MayReturn(p)
      BY <1>1, <1>2, <1>3 DEF MayPost, MayReturn
  <2>2. QED
      BY <1>0, <1>1, <2>1, SameBudget DEF SessionInv
<1>8. SigningIn'
    BY <1>1, <1>3, <1>4 DEF SessionInv, SigningIn
<1>9. Shell'
    BY <1>1, <1>3, <1>4 DEF SessionInv, Shell, Parked
<1>10. QED
    BY <1>2, <1>5, <1>6, <1>7, <1>8, <1>9 DEF SessionInv

\* The refresh is not accepted, or lost.
LEMMA RefuseKeeps ==
    ASSUME SessionInv, RefuseRefresh
    PROVE  SessionInv'
<1>0. /\ authStore \in StoreRecord /\ PairType
      /\ accessLive \subseteq Issued /\ refreshLive \subseteq Issued
      /\ call \in [Requests -> Call] /\ refreshing \in RefreshRecord
      /\ signingIn \in {"no", "token", "me"} /\ path \in {"app", "public"}
      /\ cached \subseteq Pairs /\ posts \in [Pairs -> Nat] /\ History
    BY SessionTypes DEF SessionInv
<1>1. UNCHANGED <<authStore, pair, accessLive, refreshLive, call, signingIn, path, cached, posts>>
    BY DEF RefuseRefresh, server
<1>2. /\ refreshing' \in RefreshRecord /\ refreshing'.at = "refused"
      /\ refreshing'.of = refreshing.of /\ refreshing.at # "none"
    BY <1>0 DEF RefuseRefresh, RefreshRecord
<1>3. Issued' = Issued /\ era' = era /\ History' /\ PairType'
    BY <1>0, <1>1, PairsStay DEF PairType
<1>4. SessionTypeOK'
    BY <1>0, <1>1, <1>2, <1>3, SessionTypesNext
<1>5. TokensKnown'
    BY <1>1, <1>2, <1>3 DEF SessionInv, TokensKnown
<1>6. Budget'
  <2>1. \A p \in Pairs : MayPost(p)' <= MayPost(p) /\ MayReturn(p)' <= MayReturn(p)
      BY <1>1, <1>2, <1>3 DEF MayPost, MayReturn
  <2>2. QED
      BY <1>0, <1>1, <2>1, SameBudget DEF SessionInv
<1>7. SigningIn' /\ Shell'
    BY <1>1, <1>3 DEF SessionInv, SigningIn, Shell
<1>8. QED
    BY <1>3, <1>4, <1>5, <1>6, <1>7 DEF SessionInv

\* The server rotates a refresh token: the new one is of the same login, and
\* nothing has posted it.
LEMMA RotateKeeps ==
    ASSUME SessionInv, Rotate
    PROVE  SessionInv'
<1> DEFINE n == NextPair
           login == pair[refreshing.of].login
           u == pair[refreshing.of].user
<1>0. /\ authStore \in StoreRecord /\ PairType
      /\ accessLive \subseteq Issued /\ refreshLive \subseteq Issued
      /\ call \in [Requests -> Call] /\ refreshing \in RefreshRecord
      /\ signingIn \in {"no", "token", "me"} /\ path \in {"app", "public"}
      /\ cached \subseteq Pairs /\ posts \in [Pairs -> Nat] /\ History
    BY SessionTypes DEF SessionInv
<1>1. /\ refreshing.of \in Issued /\ refreshing.of \in Pairs
      /\ login \in Issued /\ pair[login].login = login
      /\ u \in Users \cup {Nobody}
    BY <1>0 DEF Rotate, History, Issued, PairType, PairRecord
<1>2. Issue(u, login)
    BY DEF Rotate
<1>3. n \notin Issued /\ n # 0
    BY <1>0, NextPairIs
<1> HIDE DEF u, login
<1>4. /\ PairType' /\ History' /\ n \in Pairs
      /\ Issued' = Issued \cup {n}
      /\ pair'[n].login = login
      /\ \A p \in Pairs \ {n} : pair'[p] = pair[p]
      /\ era' = era
  <2>1. login # n
      BY <1>1, <1>3
  <2>2. QED
      BY <1>0, <1>1, <1>2, <2>1, Issuing
<1>5. /\ UNCHANGED <<authStore, call, signingIn, path, cached, posts>>
      /\ accessLive' = accessLive \cup {n}
      /\ refreshLive' = (refreshLive \ {refreshing.of}) \cup {n}
      /\ refreshing.at = "posted"
      /\ refreshing' = [refreshing EXCEPT !.at = "rotated", !.gives = n]
    BY DEF Rotate, Issue
<1> HIDE DEF n
<1>6. /\ refreshing' \in RefreshRecord /\ refreshing'.at = "rotated"
      /\ refreshing'.gives = n /\ refreshing'.of = refreshing.of
    BY <1>0, <1>4, <1>5 DEF RefreshRecord, Tokens
<1>7. SessionTypeOK'
  <2>1. accessLive' \subseteq Issued' /\ refreshLive' \subseteq Issued'
      BY <1>0, <1>4, <1>5
  <2>2. QED
      BY <1>0, <1>4, <1>5, <1>6, <2>1, SessionTypesNext
<1>8. posts[n] = 0
    BY <1>3, <1>4 DEF SessionInv, TokensKnown
<1>9. n # authStore.refresh /\ n # era
    BY <1>0, <1>3, EraFacts DEF SessionInv, TokensKnown
<1>10. TokensKnown'
    BY <1>4, <1>5, <1>6, <1>8, <1>9 DEF SessionInv, TokensKnown
<1>11. Budget'
  <2>1. ASSUME NEW p \in Pairs
        PROVE  posts'[p] + MayPost(p)' + MayReturn(p)' <= IF pair'[p].login = p THEN 2 ELSE 1
    <3>1. CASE p = n
      <4>1. posts'[p] = 0 /\ MayPost(p)' = 0 /\ MayReturn(p)' = 0
          BY <1>4, <1>5, <1>8, <1>9, <3>1 DEF MayPost, MayReturn
      <4>2. QED
          BY <4>1
    <3>2. CASE p # n
      <4>1. /\ posts'[p] = posts[p] /\ MayPost(p)' = MayPost(p) /\ MayReturn(p)' = MayReturn(p)
            /\ pair'[p] = pair[p]
          BY <1>4, <1>5, <1>6, <3>2 DEF MayPost, MayReturn
      <4>2. posts[p] + MayPost(p) + MayReturn(p) <= IF pair[p].login = p THEN 2 ELSE 1
          BY DEF SessionInv, Budget
      <4>3. QED
          BY <4>1, <4>2
    <3>3. QED
        BY <3>1, <3>2
  <2>2. QED
      BY <2>1 DEF Budget
<1>12. SigningIn' /\ Shell'
    BY <1>4, <1>5 DEF SessionInv, SigningIn, Shell
<1>13. QED
    BY <1>4, <1>7, <1>10, <1>11, <1>12 DEF SessionInv

\* A login's tokens: a new era, whose refresh token may be posted now and once
\* more when the login puts it into the store again.
LEMMA TokenKeeps ==
    ASSUME SessionInv, NEW u \in Users, TokenIssued(u)
    PROVE  SessionInv'
<1> DEFINE n == NextPair
<1>0. /\ authStore \in StoreRecord /\ PairType
      /\ accessLive \subseteq Issued /\ refreshLive \subseteq Issued
      /\ call \in [Requests -> Call] /\ refreshing \in RefreshRecord
      /\ path \in {"app", "public"}
      /\ cached \subseteq Pairs /\ posts \in [Pairs -> Nat] /\ History
    BY SessionTypes DEF SessionInv
<1>1. Issue(u, n)
    BY DEF TokenIssued
<1>2. n \notin Issued /\ n # 0
    BY <1>0, NextPairIs
<1>3. /\ PairType' /\ History' /\ n \in Pairs
      /\ Issued' = Issued \cup {n}
      /\ pair'[n].login = n
      /\ \A p \in Pairs \ {n} : pair'[p] = pair[p]
      /\ era' = n
    BY <1>0, <1>1, Issuing
<1>4. /\ UNCHANGED <<refreshing, path, cached, posts>>
      /\ accessLive' = accessLive \cup {n}
      /\ refreshLive' = refreshLive \cup {n}
      /\ authStore' = [authStore EXCEPT !.access = n, !.refresh = n]
      /\ call' = [call EXCEPT !["me"] = [IdleCall EXCEPT !.at = "sent", !.token = n]]
      /\ signingIn' = "me" /\ signingIn = "token"
    BY DEF TokenIssued, Issue
<1> HIDE DEF n
<1>5. authStore' \in StoreRecord /\ authStore'.refresh = n /\ authStore'.access = n
      /\ authStore'.user = Nobody /\ authStore.user = Nobody /\ cached = {}
  <2>1. authStore.user = Nobody /\ cached = {}
      BY <1>4 DEF SessionInv, SigningIn
  <2>2. QED
      BY <1>0, <1>3, <1>4, <2>1 DEF StoreRecord, Tokens
<1>6. call' \in [Requests -> Call] /\ \A x \in Calls : call'[x] = call[x]
  <2>1. [IdleCall EXCEPT !.at = "sent", !.token = n] \in Call
      BY <1>3, SentType DEF Tokens
  <2>2. QED
      BY <1>0, <1>4, <2>1, CallBecomes, MeIsApart
<1>7. SessionTypeOK'
  <2>1. accessLive' \subseteq Issued' /\ refreshLive' \subseteq Issued'
      BY <1>0, <1>3, <1>4
  <2>2. QED
      BY <1>0, <1>3, <1>4, <1>5, <1>6, <2>1, SessionTypesNext
<1>8. TokensKnown'
  <2>1. refreshing.at = "rotated" => refreshing.gives # n
      BY <1>2 DEF SessionInv, TokensKnown
  <2>2. QED
      BY <1>3, <1>4, <1>5, <2>1 DEF SessionInv, TokensKnown
<1>9. Budget'
  <2>1. ASSUME NEW p \in Pairs
        PROVE  posts'[p] + MayPost(p)' + MayReturn(p)' <= IF pair'[p].login = p THEN 2 ELSE 1
    <3>0. /\ MayPost(p)' \in {0, 1} /\ MayReturn(p)' \in {0, 1}
          /\ MayPost(p) \in {0, 1} /\ MayReturn(p) \in {0, 1}
        BY DEF MayPost, MayReturn
    <3>1. CASE p = n
      <4>1. posts'[p] = 0
          BY <1>2, <1>4, <3>1 DEF SessionInv, TokensKnown
      <4>2. QED
          BY <1>3, <3>0, <3>1, <4>1
    <3>2. CASE p # n
      <4>1. MayPost(p)' = 0 /\ MayReturn(p)' = 0
          BY <1>3, <1>5, <3>2 DEF MayPost, MayReturn
      <4>2. posts[p] + MayPost(p) + MayReturn(p) <= IF pair[p].login = p THEN 2 ELSE 1
          BY DEF SessionInv, Budget
      <4>3. posts'[p] = posts[p] /\ pair'[p] = pair[p] /\ posts[p] \in Nat
          BY <1>0, <1>3, <1>4, <3>2
      <4>4. QED
          BY <3>0, <4>1, <4>2, <4>3
    <3>3. QED
        BY <3>1, <3>2
  <2>2. QED
      BY <2>1 DEF Budget
<1>10. SigningIn' /\ Shell'
    BY <1>2, <1>3, <1>4, <1>5, <1>6 DEF SessionInv, SigningIn, Shell
<1>11. QED
    BY <1>3, <1>7, <1>8, <1>9, <1>10 DEF SessionInv

\* A 401: the first posts the refresh token, and may not again.
LEMMA UnauthorizedKeeps ==
    ASSUME SessionInv, NEW c \in Requests, Unauthorized(c)
    PROVE  SessionInv'
<1> DEFINE r == authStore.refresh
<1>0. /\ authStore \in StoreRecord /\ PairType
      /\ accessLive \subseteq Issued /\ refreshLive \subseteq Issued
      /\ call \in [Requests -> Call] /\ refreshing \in RefreshRecord
      /\ signingIn \in {"no", "token", "me"} /\ path \in {"app", "public"}
      /\ cached \subseteq Pairs /\ posts \in [Pairs -> Nat] /\ History
    BY SessionTypes DEF SessionInv
<1>1. /\ UNCHANGED <<authStore, pair, accessLive, refreshLive, signingIn, path, cached>>
      /\ call[c].at = "answered" /\ r # 0
      /\ call' = [call EXCEPT ![c].at = "waiting", ![c].retry = TRUE]
    BY DEF Unauthorized, server
<1>2. call' \in [Requests -> Call] /\ \A x \in Requests \ {c} : call'[x] = call[x]
  <2>1. PICK d : d = [call[c] EXCEPT !.at = "waiting", !.retry = TRUE]
      OBVIOUS
  <2>2. d \in Call
    <3>1. "waiting" \in CallPlaces /\ call[c] \in Call
        BY <1>0 DEF CallPlaces
    <3>2. PICK a \in CallPlaces : d = [call[c] EXCEPT !.at = a, !.retry = TRUE]
        BY <2>1, <3>1
    <3>3. QED
        BY ONLY <3>1, <3>2, CallChanges
  <2>3. call' = [call EXCEPT ![c] = d]
      BY <1>1, <2>1
  <2>4. QED
      BY ONLY <1>0, <2>2, <2>3, CallBecomes
<1>3. call'["me"].at # "idle" => call["me"].at # "idle"
    BY <1>1, <1>2, MeIsApart
<1>4. authStore.user = Nobody => c \notin Calls
    BY <1>1 DEF SessionInv, Shell
<1>5. \A x \in Calls : authStore.user = Nobody /\ Parked(call, x) => Parked(call', x)
    BY <1>2, <1>4, MeIsApart DEF Parked
<1>6. CASE refreshing.at # "none"
  <2>1. UNCHANGED <<refreshing, posts>>
      BY <1>6 DEF Unauthorized
  <2>2. QED
      BY <1>0, <1>1, <1>2, <1>3, <1>5, <2>1, QuietSession
<1>7. CASE refreshing.at = "none"
  <2>1. /\ refreshing' = [NoRefresh EXCEPT !.at = "posted", !.of = r]
        /\ posts' = [posts EXCEPT ![r] = @ + 1]
      BY <1>7 DEF Unauthorized
  <2>2. r \in Issued /\ r \in Pairs /\ r \in Tokens
      BY <1>1 DEF SessionInv, TokensKnown, Issued, Tokens
  <2> HIDE DEF r
  <2>3. refreshing' = [at |-> "posted", of |-> r, gives |-> 0]
      BY <2>1 DEF NoRefresh
  <2>4. refreshing' \in RefreshRecord /\ refreshing'.at = "posted" /\ refreshing'.of = r
      BY <2>2, <2>3 DEF RefreshRecord, Tokens
  <2>5. /\ posts' \in [Pairs -> Nat] /\ posts'[r] = posts[r] + 1 /\ posts[r] \in Nat
        /\ \A p \in Pairs \ {r} : posts'[p] = posts[p]
      BY <1>0, <2>1, <2>2
  <2>6. Issued' = Issued /\ era' = era /\ History' /\ PairType'
      BY <1>0, <1>1, PairsStay DEF PairType
  <2>7. SessionTypeOK'
      BY <1>0, <1>1, <1>2, <2>4, <2>5, <2>6, SessionTypesNext
  <2>8. TokensKnown'
      BY <1>1, <2>2, <2>4, <2>5, <2>6 DEF SessionInv, TokensKnown
  <2>9. Budget'
    <3>1. ASSUME NEW p \in Pairs
          PROVE  posts'[p] + MayPost(p)' + MayReturn(p)' <= IF pair'[p].login = p THEN 2 ELSE 1
      <4>1. MayReturn(p)' <= MayReturn(p) /\ MayReturn(p) \in {0, 1} /\ MayReturn(p)' \in {0, 1}
          BY <1>3, <2>6 DEF MayReturn
      <4>2. posts[p] + MayPost(p) + MayReturn(p) <= IF pair[p].login = p THEN 2 ELSE 1
          BY DEF SessionInv, Budget
      <4>3. MayPost(p) \in {0, 1} /\ MayPost(p)' = 0
          BY <1>1, <2>4 DEF MayPost, r
      <4>4. posts'[p] + MayPost(p)' <= posts[p] + MayPost(p)
        <5>1. CASE p = r
          <6>1. MayPost(p) = 1
              BY <1>7, <5>1 DEF MayPost, r
          <6>2. QED
              BY <2>5, <4>3, <5>1, <6>1
        <5>2. CASE p # r
            BY <1>0, <2>5, <4>3, <5>2
        <5>3. QED
            BY <5>1, <5>2
      <4>5. posts[p] \in Nat /\ posts'[p] \in Nat /\ pair'[p] = pair[p]
          BY <1>0, <1>1, <2>5
      <4>6. QED
          BY <4>1, <4>2, <4>3, <4>4, <4>5
    <3>2. QED
        BY <3>1 DEF Budget
  <2>10. SigningIn'
      BY <1>1, <1>3, <2>6 DEF SessionInv, SigningIn
  <2>11. Shell'
      BY <1>1, <1>5, <2>6 DEF SessionInv, Shell, Parked
  <2>12. QED
      BY <2>6, <2>7, <2>8, <2>9, <2>10, <2>11 DEF SessionInv
<1>8. QED
    BY <1>6, <1>7

\* The store is cleared, with the pages and, it may be, with the cache.
LEMMA StoreCleared ==
    ASSUME SessionInv, authStore' = NoStore,
           UNCHANGED <<pair, accessLive, refreshLive, path, posts>>,
           refreshing' \in {refreshing, NoRefresh}, cached' \in {cached, {}},
           signingIn' \in {signingIn, "no"},
           call' \in [Requests -> Call], \A c \in Calls : Parked(call', c),
           call'["me"].at # "idle" => call["me"].at # "idle" /\ signingIn' = signingIn
    PROVE  SessionInv'
<1>0. /\ PairType /\ accessLive \subseteq Issued /\ refreshLive \subseteq Issued
      /\ refreshing \in RefreshRecord /\ signingIn \in {"no", "token", "me"}
      /\ path \in {"app", "public"}
      /\ cached \subseteq Pairs /\ posts \in [Pairs -> Nat] /\ History
    BY SessionTypes DEF SessionInv
<1>1. authStore' \in StoreRecord /\ authStore'.refresh = 0 /\ authStore'.access = 0
      /\ authStore'.user = Nobody
    BY DEF NoStore, StoreRecord, Tokens
<1>2. NoRefresh \in RefreshRecord /\ NoRefresh.at = "none"
    BY DEF NoRefresh, RefreshRecord, Tokens
<1>3. Issued' = Issued /\ era' = era /\ History' /\ PairType'
    BY <1>0, PairsStay DEF PairType
<1>4. SessionTypeOK'
    BY <1>0, <1>1, <1>2, <1>3, SessionTypesNext
<1>5. TokensKnown'
  <2>1. 0 \notin Issued
      BY SessionAssumption DEF Issued, Pairs
  <2>2. refreshing'.at = "rotated" => refreshing' = refreshing
      BY <1>2
  <2>3. QED
      BY <1>1, <1>3, <2>1, <2>2 DEF SessionInv, TokensKnown
<1>6. Budget'
  <2>1. ASSUME NEW p \in Pairs
        PROVE  MayPost(p)' <= MayPost(p) /\ MayReturn(p)' <= MayReturn(p)
    <3>1. MayPost(p)' = 0
        BY <1>1, SessionAssumption DEF MayPost, Pairs
    <3>2. QED
        BY <1>3, <3>1 DEF MayPost, MayReturn
  <2>2. QED
      BY <1>0, <2>1, SameBudget DEF SessionInv
<1>7. SigningIn' /\ Shell'
    BY <1>1, <1>3 DEF SessionInv, SigningIn, Shell, Parked
<1>8. QED
    BY <1>3, <1>4, <1>5, <1>6, <1>7 DEF SessionInv

\* Every waiting request ends with the session.
LEMMA RefreshFailsKeeps ==
    ASSUME SessionInv, RefreshFails
    PROVE  SessionInv'
<1>0. call \in [Requests -> Call]
    BY SessionTypes DEF SessionInv
<1>1. /\ authStore' = NoStore /\ UNCHANGED <<pair, accessLive, refreshLive, path, posts>>
      /\ refreshing' = NoRefresh /\ cached' \in {cached, {}}
      /\ signingIn' = IF call["me"].at = "waiting" THEN "no" ELSE signingIn
    BY DEF RefreshFails, server
<1>2. PICK ended : /\ ended = [c \in Requests |-> IF call[c].at = "waiting" THEN IdleCall ELSE call[c]]
                   /\ call' = Abort(ended)
    BY DEF RefreshFails
<1>3. IdleCall \in Call /\ IdleCall.at = "idle"
    BY SentType DEF Tokens
<1>4. ended \in [Requests -> Call]
    BY <1>0, <1>2, <1>3
<1>5. /\ call' \in [Requests -> Call] /\ \A c \in Calls : Parked(call', c)
      /\ call'["me"] = ended["me"]
    BY <1>2, <1>4, Aborted, MeIsApart
<1>6. call'["me"].at # "idle" => call["me"].at # "idle" /\ signingIn' = signingIn
    BY <1>1, <1>2, <1>3, <1>5, MeIsApart
<1>7. QED
    BY <1>1, <1>5, <1>6, StoreCleared

\* The refresh replaces the stored pair: the new one is unposted, and not that
\* of a login.
LEMMA RefreshLandsKeeps ==
    ASSUME SessionInv, RefreshLands
    PROVE  SessionInv'
<1> DEFINE g == refreshing.gives
<1>0. /\ authStore \in StoreRecord /\ PairType
      /\ accessLive \subseteq Issued /\ refreshLive \subseteq Issued
      /\ call \in [Requests -> Call] /\ refreshing \in RefreshRecord
      /\ signingIn \in {"no", "token", "me"} /\ path \in {"app", "public"}
      /\ cached \subseteq Pairs /\ posts \in [Pairs -> Nat] /\ History
    BY SessionTypes DEF SessionInv
<1>1. /\ UNCHANGED <<pair, accessLive, refreshLive, signingIn, path, cached, posts>>
      /\ authStore' = [authStore EXCEPT !.access = g, !.refresh = g]
      /\ refreshing' = NoRefresh
    BY DEF RefreshLands, server
<1>2. g \in Issued /\ g \in Pairs /\ posts[g] = 0 /\ g # era
    BY DEF RefreshLands, SessionInv, TokensKnown, Issued
<1>3. ASSUME NEW c \in Requests
      PROVE  /\ call'[c] \in Call
             /\ call'[c].at # "idle" => call[c].at # "idle"
             /\ Parked(call, c) => Parked(call', c)
  <2>1. IdleCall \in Call /\ IdleCall.at = "idle"
      BY SentType DEF Tokens
  <2>2. PICK d : d = [call[c] EXCEPT !.at = "sent", !.answer = "none", !.token = g]
      OBVIOUS
  <2>3. d \in Call
    <3>1. "sent" \in CallPlaces /\ "none" \in Answers /\ g \in Tokens /\ call[c] \in Call
        BY <1>0, <1>2 DEF CallPlaces, Answers, Tokens
    <3>2. PICK a \in CallPlaces, o \in Answers, t \in Tokens :
              d = [call[c] EXCEPT !.at = a, !.answer = o, !.token = t]
        BY <2>2, <3>1
    <3>3. QED
        BY ONLY <3>1, <3>2, CallChanges
  <2>4. call'[c] = IF call[c].at # "waiting" THEN call[c]
                   ELSE IF ~ call[c].kept THEN IdleCall ELSE d
      BY <2>2 DEF RefreshLands
  <2> HIDE DEF g
  <2>5. call[c] \in Call
      BY <1>0
  <2>6. QED
      BY ONLY <2>1, <2>3, <2>4, <2>5 DEF Parked
<1>4. call' \in [Requests -> Call]
  <2>1. call' = [c \in Requests |-> call'[c]]
      BY DEF RefreshLands
  <2>2. QED
      BY <1>3, <2>1
<1> HIDE DEF g
<1>5. /\ authStore' \in StoreRecord /\ authStore'.refresh = g /\ authStore'.access = g
      /\ authStore'.user = authStore.user
    BY <1>0, <1>1, <1>2 DEF StoreRecord, Tokens
<1>6. refreshing' \in RefreshRecord /\ refreshing'.at = "none"
    BY <1>1 DEF NoRefresh, RefreshRecord, Tokens
<1>7. Issued' = Issued /\ era' = era /\ History' /\ PairType'
    BY <1>0, <1>1, PairsStay DEF PairType
<1>8. SessionTypeOK'
    BY <1>0, <1>1, <1>4, <1>5, <1>6, <1>7, SessionTypesNext
<1>9. TokensKnown'
    BY <1>1, <1>2, <1>5, <1>6, <1>7 DEF SessionInv, TokensKnown
<1>10. Budget'
  <2>1. ASSUME NEW p \in Pairs
        PROVE  posts'[p] + MayPost(p)' + MayReturn(p)' <= IF pair'[p].login = p THEN 2 ELSE 1
    <3>0. /\ MayPost(p)' \in {0, 1} /\ MayReturn(p)' \in {0, 1}
          /\ MayPost(p) \in {0, 1} /\ MayReturn(p) \in {0, 1}
        BY DEF MayPost, MayReturn
    <3>1. CASE p = g
      <4>1. posts'[p] = 0 /\ MayReturn(p)' = 0
          BY <1>1, <1>2, <1>7, <3>1 DEF MayReturn
      <4>2. QED
          BY <3>0, <4>1
    <3>2. CASE p # g
      <4>1. MayPost(p)' = 0 /\ MayReturn(p)' <= MayReturn(p)
          BY <1>3, <1>5, <1>7, <3>2, MeIsApart DEF MayPost, MayReturn
      <4>2. posts[p] + MayPost(p) + MayReturn(p) <= IF pair[p].login = p THEN 2 ELSE 1
          BY DEF SessionInv, Budget
      <4>3. posts'[p] = posts[p] /\ pair'[p] = pair[p] /\ posts[p] \in Nat
          BY <1>0, <1>1
      <4>4. QED
          BY <3>0, <4>1, <4>2, <4>3
    <3>3. QED
        BY <3>1, <3>2
  <2>2. QED
      BY <2>1 DEF Budget
<1>11. SigningIn'
    BY <1>1, <1>3, <1>5, <1>7, MeIsApart DEF SessionInv, SigningIn
<1>12. Shell'
    BY <1>1, <1>3, <1>5, <1>7, MeIsApart DEF SessionInv, Shell, Parked
<1>13. QED
    BY <1>7, <1>8, <1>9, <1>10, <1>11, <1>12 DEF SessionInv

\* What an answer that ends its request does to the requests.
LEMMA AnswerEnds ==
    ASSUME SessionInv, NEW c \in Requests, Answered(c)
    PROVE  /\ call' \in [Requests -> Call]
           /\ call'["me"] = IF c = "me" THEN IdleCall ELSE call["me"]
           /\ authStore'.user = Nobody => \A x \in Calls : Parked(call', x)
<1>0. call \in [Requests -> Call]
    BY SessionTypes DEF SessionInv
<1>1. PICK rest : rest = [call EXCEPT ![c] = IdleCall]
    OBVIOUS
<1>2. IdleCall \in Call
    BY SentType DEF Tokens
<1>3. /\ rest \in [Requests -> Call] /\ rest[c] = IdleCall
      /\ \A x \in Requests \ {c} : rest[x] = call[x]
    BY <1>0, <1>1, <1>2, CallBecomes
<1>4. call' = IF authStore'.user = Nobody THEN Abort(rest) ELSE rest
    BY <1>1 DEF Answered, Mounted
<1>5. CASE authStore'.user = Nobody
  <2>1. call' = Abort(rest)
      BY <1>4, <1>5
  <2>2. QED
      BY <1>3, <2>1, Aborted, MeIsApart
<1>6. CASE authStore'.user # Nobody
    BY <1>3, <1>4, <1>6, MeIsApart
<1>7. QED
    BY <1>5, <1>6

\* /auth/me/ answers: the login puts its pair into the store, where the refresh
\* of a former user's mutation may have replaced it.
LEMMA SignedInKeeps ==
    ASSUME SessionInv, Answered("me"), call["me"].answer = "ok"
    PROVE  SessionInv'
<1>0. /\ PairType /\ accessLive \subseteq Issued /\ refreshLive \subseteq Issued
      /\ refreshing \in RefreshRecord /\ path \in {"app", "public"}
      /\ cached \subseteq Pairs /\ posts \in [Pairs -> Nat] /\ History
    BY SessionTypes DEF SessionInv
<1>1. /\ UNCHANGED <<pair, accessLive, refreshLive, refreshing, posts>>
      /\ authStore' = Settled("me") /\ signingIn' = "no" /\ path' = "app"
      /\ call["me"].at = "answered"
    BY DEF Answered, server
<1>2. cached' = cached
    BY MeIsApart DEF Answered
<1>3. signingIn = "me" /\ era # 0 /\ cached = {}
    BY <1>1 DEF SessionInv, SigningIn
<1>4. era \in Issued /\ era \in Pairs /\ pair[era].user \in Users \cup {Nobody}
    BY <1>0, <1>3, EraFacts DEF Issued, PairType, PairRecord
<1>5. PICK e : e = era
    OBVIOUS
<1>6. authStore' = [access |-> e, refresh |-> e, user |-> pair[e].user]
    BY <1>1, <1>5 DEF Settled
<1>7. authStore' \in StoreRecord /\ authStore'.refresh = era /\ authStore'.access = era
    BY <1>4, <1>5, <1>6 DEF StoreRecord, Tokens
<1>8. /\ call' \in [Requests -> Call] /\ call'["me"].at = "idle"
      /\ authStore'.user = Nobody => \A x \in Calls : Parked(call', x)
    BY AnswerEnds, SentType, MeIsApart DEF Tokens
<1>9. Issued' = Issued /\ era' = era /\ History' /\ PairType'
    BY <1>0, <1>1, PairsStay DEF PairType
<1>10. SessionTypeOK'
    BY <1>0, <1>1, <1>2, <1>7, <1>8, <1>9, SessionTypesNext
<1>11. TokensKnown'
    BY <1>1, <1>4, <1>7, <1>9 DEF SessionInv, TokensKnown
<1>12. Budget'
  <2>1. ASSUME NEW p \in Pairs
        PROVE  posts'[p] + MayPost(p)' + MayReturn(p)' <= IF pair'[p].login = p THEN 2 ELSE 1
    <3>0. /\ MayPost(p)' \in {0, 1} /\ MayReturn(p)' = 0
          /\ MayPost(p) \in {0, 1} /\ MayReturn(p) \in {0, 1}
          /\ p = era => MayReturn(p) = 1
          /\ p # era => MayPost(p)' = 0
        BY <1>1, <1>7, <1>8 DEF MayPost, MayReturn
    <3>1. posts[p] + MayPost(p) + MayReturn(p) <= IF pair[p].login = p THEN 2 ELSE 1
        BY DEF SessionInv, Budget
    <3>2. posts'[p] = posts[p] /\ pair'[p] = pair[p] /\ posts[p] \in Nat
        BY <1>0, <1>1
    <3>3. QED
        BY <3>0, <3>1, <3>2
  <2>2. QED
      BY <2>1 DEF Budget
<1>13. SigningIn' /\ Shell'
    BY <1>1, <1>2, <1>3, <1>8, <1>9 DEF SigningIn, Shell, Parked
<1>14. QED
    BY <1>9, <1>10, <1>11, <1>12, <1>13 DEF SessionInv

\* Other answers leave the store alone, or clear it.
LEMMA AnsweredKeeps ==
    ASSUME SessionInv, Served, NEW c \in Requests, Answered(c)
    PROVE  SessionInv'
<1>0. /\ authStore \in StoreRecord /\ PairType
      /\ accessLive \subseteq Issued /\ refreshLive \subseteq Issued
      /\ call \in [Requests -> Call] /\ refreshing \in RefreshRecord
      /\ signingIn \in {"no", "token", "me"} /\ path \in {"app", "public"}
      /\ cached \subseteq Pairs /\ posts \in [Pairs -> Nat] /\ History
    BY SessionTypes DEF SessionInv
<1>1. CASE c = "me" /\ call["me"].answer = "ok"
    BY <1>1, SignedInKeeps
<1>2. CASE ~ (c = "me" /\ call["me"].answer = "ok")
  <2>1. /\ UNCHANGED <<pair, accessLive, refreshLive, refreshing, path, posts>>
        /\ authStore' = Settled(c) /\ call[c].at = "answered"
        /\ signingIn' = IF c = "me" THEN "no" ELSE signingIn
        /\ cached' = CASE c = "logout" -> {}
                       [] c \in Calls /\ call[c].answer = "ok" ->
                              cached \cup {pair[call[c].token].login}
                       [] OTHER -> cached
      BY <1>2 DEF Answered, server
  <2>2. /\ call' \in [Requests -> Call]
        /\ call'["me"] = IF c = "me" THEN IdleCall ELSE call["me"]
        /\ authStore'.user = Nobody => \A x \in Calls : Parked(call', x)
      BY AnswerEnds
  <2>3. IdleCall.at = "idle"
      BY SentType DEF Tokens
  <2>4. authStore' = NoStore \/ authStore' = authStore
      BY <1>2, <2>1 DEF Settled
  <2>5. CASE authStore' = NoStore
    <3>1. cached' \in {cached, {}} \/ (c \in Calls /\ call[c].answer = "ok")
        BY <2>1, MeIsApart
    <3>2. NoStore.user = Nobody
        BY DEF NoStore
    <3>3. CASE cached' \in {cached, {}}
      <4>1. call'["me"].at # "idle" => call["me"].at # "idle" /\ signingIn' = signingIn
          BY <2>1, <2>2, <2>3
      <4>2. QED
          BY <2>1, <2>2, <2>5, <3>2, <3>3, <4>1, StoreCleared
    <3>4. CASE c \in Calls /\ call[c].answer = "ok"
      <4>1. authStore.user # Nobody
          BY <2>1, <3>4 DEF SessionInv, Shell
      <4>2. authStore' = authStore
          BY <2>1, <3>4, MeIsApart DEF Settled
      <4>3. QED
          BY <2>5, <3>2, <4>1, <4>2
    <3>5. QED
        BY <3>1, <3>3, <3>4
  <2>6. CASE authStore' = authStore
    <3>1. c # "logout" \/ authStore.user = Nobody
      <4>1. c = "logout" => authStore' = NoStore
          BY <2>1 DEF Settled
      <4>2. NoStore.user = Nobody
          BY DEF NoStore
      <4>3. QED
          BY <2>6, <4>1, <4>2
    <3>2. cached' \subseteq Pairs /\ (cached' \in {cached, {}} \/ authStore.user # Nobody)
      <4>1. CASE c \in Calls /\ call[c].answer = "ok"
        <5>1. authStore.user # Nobody
            BY <2>1, <4>1 DEF SessionInv, Shell
        <5>2. call[c].token \in Issued
            BY <2>1, <4>1 DEF Served
        <5>3. pair[call[c].token].login \in Pairs
            BY <1>0, <5>2 DEF History, Issued
        <5>4. cached' = cached \cup {pair[call[c].token].login}
            BY <2>1, <4>1, MeIsApart
        <5>5. QED
            BY <1>0, <5>1, <5>3, <5>4
      <4>2. CASE ~ (c \in Calls /\ call[c].answer = "ok")
          BY <1>0, <2>1, <4>2
      <4>3. QED
          BY <4>1, <4>2
    <3>3. Issued' = Issued /\ era' = era /\ History' /\ PairType'
        BY <1>0, <2>1, PairsStay DEF PairType
    <3>4. cached' \subseteq Pairs /\ signingIn' \in {"no", "token", "me"} /\ signingIn' \in {"no", signingIn}
        BY <1>0, <2>1, <3>2
    <3>5. call'["me"].at # "idle" => call["me"].at # "idle" /\ signingIn' = signingIn
        BY <2>1, <2>2, <2>3
    <3>6. SessionTypeOK'
        BY <1>0, <2>1, <2>2, <2>6, <3>3, <3>4, SessionTypesNext
    <3>7. TokensKnown'
        BY <2>1, <2>6, <3>3 DEF SessionInv, TokensKnown
    <3>8. Budget'
      <4>1. \A p \in Pairs : MayPost(p)' <= MayPost(p) /\ MayReturn(p)' <= MayReturn(p)
          BY <2>1, <2>6, <3>3, <3>5 DEF MayPost, MayReturn
      <4>2. QED
          BY <1>0, <2>1, <4>1, SameBudget DEF SessionInv
    <3>9. SigningIn'
        BY <2>6, <3>2, <3>3, <3>4, <3>5 DEF SessionInv, SigningIn
    <3>10. Shell'
        BY <2>2, <2>6, <3>2, <3>3 DEF SessionInv, Shell, Parked
    <3>11. QED
        BY <3>3, <3>6, <3>7, <3>8, <3>9, <3>10 DEF SessionInv
  <2>7. QED
      BY <2>4, <2>5, <2>6
<1>3. QED
    BY <1>1, <1>2

\* Every step of the session keeps the invariant.
LEMMA StepSession == SessionInv /\ Served /\ [SessionNext]_sessionVars => SessionInv'
<1> SUFFICES ASSUME SessionInv, Served, [SessionNext]_sessionVars PROVE SessionInv'
    OBVIOUS
<1>1. CASE UNCHANGED sessionVars
  <2>1. /\ UNCHANGED <<authStore, pair, posts, refreshing, cached, signingIn, accessLive,
                       refreshLive, path, call>>
      BY <1>1 DEF sessionVars
  <2>2. path' \in {"app", "public"} /\ call' \in [Requests -> Call]
      BY <2>1, SessionTypes DEF SessionInv
  <2>3. QED
      BY <2>1, <2>2, QuietSession
<1>2. CASE \E p \in {"app", "public"} : NavigateTo(p)
    BY <1>2, NavigateKeeps
<1>3. CASE Reload
    BY <1>3, ReloadKeeps
<1>4. CASE \E p \in Pairs : Expire(p)
    BY <1>4, ExpireKeeps
<1>5. CASE \E c \in Requests : Send(c) \/ ServeRequest(c) \/ Answered(c) \/ Unauthorized(c)
    BY <1>5, SendKeeps, ServeKeeps, AnsweredKeeps, UnauthorizedKeeps
<1>6. CASE Rotate \/ RefuseRefresh \/ RefreshLands \/ RefreshFails
    BY <1>6, RotateKeeps, RefuseKeeps, RefreshLandsKeeps, RefreshFailsKeeps
<1>7. CASE Login \/ LoginFails
    BY <1>7, LoginBegins
<1>8. CASE Logout
    BY <1>8, SendKeeps, MeIsApart
<1>9. CASE \E u \in Users : TokenIssued(u)
    BY <1>9, TokenKeeps
<1>10. QED
    BY <1>1, <1>2, <1>3, <1>4, <1>5, <1>6, <1>7, <1>8, <1>9 DEF SessionNext

-----------------------------------------------------------------------------
(* Whose data the pages are given.                                         *)

\* A request that is not given up, and is not sent again, is what it was.
Remains(c) == call'[c].at \in {"idle", "waiting"} \/ call'[c] = call[c]

\* What an abort leaves.
LEMMA AbortedRemain ==
    ASSUME NEW calls \in [Requests -> Call], NEW c \in Requests, NEW new, new = Abort(calls)
    PROVE  new[c].at \in {"idle", "waiting"} \/ new[c] = calls[c]
BY Aborted DEF Parked

\* Nothing is issued, sent or fetched.
LEMMA QuietData ==
    ASSUME SessionInv, DataInv, UNCHANGED <<pair, authStore>>, cached' \subseteq cached,
           \/ refreshing' = refreshing \/ refreshing'.at = "none"
           \/ refreshing.at # "none" /\ refreshing'.at = "refused" /\ refreshing'.of = refreshing.of,
           \A c \in Requests : Remains(c)
    PROVE  DataInv'
<1>1. Issued' = Issued /\ era' = era
    BY PairsStay
<1>2. Served'
    BY <1>1 DEF DataInv, Served, Remains
<1>3. OwnTokens' = OwnTokens /\ \A t : OfThisLogin(t)' = OfThisLogin(t)
    BY <1>1 DEF OwnTokens, OfThisLogin
<1>4. TokensOfTheRefresh'
    BY <1>1, <1>3 DEF DataInv, TokensOfTheRefresh, OfThisLogin
<1>5. Carried'
    BY <1>1, <1>3, MeIsApart DEF DataInv, Carried, Carrying, Remains, OfThisLogin
<1>6. QED
    BY <1>2, <1>4, <1>5 DEF DataInv

\* The store is cleared.
LEMMA ClearedData ==
    ASSUME SessionInv, DataInv, pair' = pair, authStore' = NoStore,
           refreshing' = refreshing \/ refreshing' = NoRefresh,
           \A c \in Requests : Remains(c)
    PROVE  DataInv'
<1>1. Issued' = Issued /\ era' = era
    BY PairsStay
<1>2. Served'
    BY <1>1 DEF DataInv, Served, Remains
<1>3. NoStore.access = NoStore.refresh /\ NoStore.user = Nobody /\ NoRefresh.at = "none"
    BY DEF NoStore, NoRefresh
<1>4. TokensOfTheRefresh'
    BY <1>1, <1>3 DEF DataInv, TokensOfTheRefresh
<1>5. Carried'
    BY <1>3 DEF Carried, Carrying
<1>6. QED
    BY <1>2, <1>4, <1>5 DEF DataInv

\* At first nothing is asked for.
LEMMA InitData == SessionInit => DataInv
<1> SUFFICES ASSUME SessionInit PROVE DataInv
    OBVIOUS
<1>1. \A c \in Requests : call[c].at = "idle"
    BY SentType DEF SessionInit, Tokens
<1>2. authStore.access = authStore.refresh /\ authStore.user = Nobody /\ refreshing.at = "none"
    BY DEF SessionInit, NoStore, NoRefresh
<1>3. QED
    BY <1>1, <1>2 DEF DataInv, Served, TokensOfTheRefresh, Carried, Carrying

\* A request carries the token that the store holds.
LEMMA SendData ==
    ASSUME SessionInv, DataInv, NEW c \in Requests, Send(c) \/ (c = "logout" /\ Logout)
    PROVE  DataInv'
<1>0. call \in [Requests -> Call] /\ authStore \in StoreRecord
    BY SessionTypes DEF SessionInv
<1>1. PICK b \in Tokens : call' = Sent(c, b)
    BY <1>0 DEF Send, Logout, Tokens, StoreRecord
<1> DEFINE d == [IdleCall EXCEPT !.at = "sent", !.token = authStore.access, !.kept = TRUE, !.body = b]
<1>2. d \in Call /\ d.at = "sent" /\ d.token = authStore.access
    BY <1>0, SentType DEF StoreRecord, IdleCall
<1>3. call' = [call EXCEPT ![c] = d]
    BY <1>1 DEF Sent
<1> HIDE DEF d
<1>4. call'[c] = d /\ \A x \in Requests \ {c} : call'[x] = call[x]
    BY <1>0, <1>2, <1>3, CallBecomes
<1>5. UNCHANGED <<authStore, pair, refreshing, cached>>
    BY DEF Send, Logout, server
<1>6. Issued' = Issued /\ era' = era
    BY <1>5, PairsStay
<1>7. Served'
    BY <1>2, <1>4, <1>6 DEF DataInv, Served
<1>8. OwnTokens' = OwnTokens /\ \A t : OfThisLogin(t)' = OfThisLogin(t)
    BY <1>5, <1>6 DEF OwnTokens, OfThisLogin
<1>9. TokensOfTheRefresh'
    BY <1>5, <1>6, <1>8 DEF DataInv, TokensOfTheRefresh, OfThisLogin
<1>10. Carried'
  <2>1. ASSUME authStore.user # Nobody, OwnTokens,
               NEW x \in Calls, Carrying(x)'
        PROVE  OfThisLogin(call'[x].token)
    <3>1. CASE x = c
        BY <1>2, <1>4, <2>1, <3>1 DEF OwnTokens, OfThisLogin
    <3>2. CASE x # c
        BY <1>4, <2>1, <3>2, MeIsApart DEF DataInv, Carried, Carrying
    <3>3. QED
        BY <3>1, <3>2
  <2>2. ASSUME NEW x \in Calls PROVE OfThisLogin(call[x].token)' = OfThisLogin(call'[x].token)
      BY <1>5, <1>6 DEF OfThisLogin
  <2>3. QED
      BY <1>5, <1>6, <1>8, <2>1, <2>2 DEF DataInv, Carried, Carrying
<1>11. QED
    BY <1>7, <1>9, <1>10 DEF DataInv

\* The server answers the owner of a token that it has issued.
LEMMA ServeData ==
    ASSUME SessionInv, DataInv, NEW c \in Requests, ServeRequest(c)
    PROVE  DataInv'
<1>0. call \in [Requests -> Call] /\ accessLive \subseteq Issued
    BY SessionTypes DEF SessionInv
<1>1. \/ \E o \in Answers : /\ call' = [call EXCEPT ![c].at = "answered", ![c].answer = o]
                            /\ o = "ok" => call[c].token \in accessLive
      \/ call' = [call EXCEPT ![c] = [IdleCall EXCEPT !.at = "answered", !.answer = "lost"]]
    BY DEF ServeRequest, Answers
<1>2. /\ call'[c].at = "answered"
      /\ call'[c].answer = "ok" => /\ call'[c].token = call[c].token
                                   /\ call[c].token \in accessLive
      /\ \A x \in Requests \ {c} : call'[x] = call[x]
  <2>1. CASE \E o \in Answers : /\ call' = [call EXCEPT ![c].at = "answered", ![c].answer = o]
                                /\ o = "ok" => call[c].token \in accessLive
    <3>1. PICK o \in Answers : /\ call' = [call EXCEPT ![c].at = "answered", ![c].answer = o]
                               /\ o = "ok" => call[c].token \in accessLive
        BY <2>1
    <3>2. call'[c] = [call[c] EXCEPT !.at = "answered", !.answer = o] /\ call[c] \in Call
        BY <1>0, <3>1
    <3>3. /\ call'[c].at = "answered" /\ call'[c].answer = o
          /\ call'[c].token = call[c].token
        BY <3>2 DEF Call
    <3>4. QED
        BY <1>0, <3>1, <3>3
  <2>2. CASE call' = [call EXCEPT ![c] = [IdleCall EXCEPT !.at = "answered", !.answer = "lost"]]
      BY <1>0, <2>2 DEF IdleCall
  <2>3. QED
      BY <1>1, <2>1, <2>2
<1>3. UNCHANGED <<authStore, pair, refreshing, cached>> /\ call[c].at = "sent"
    BY DEF ServeRequest
<1>4. Issued' = Issued /\ era' = era
    BY <1>3, PairsStay
<1>5. Served'
    BY <1>0, <1>1, <1>2, <1>4 DEF DataInv, Served
<1>6. OwnTokens' = OwnTokens /\ \A t : OfThisLogin(t)' = OfThisLogin(t)
    BY <1>3, <1>4 DEF OwnTokens, OfThisLogin
<1>7. TokensOfTheRefresh'
    BY <1>3, <1>4, <1>6 DEF DataInv, TokensOfTheRefresh, OfThisLogin
<1>8. Carried'
  <2>1. ASSUME NEW x \in Calls, Carrying(x)'
        PROVE  Carrying(x) /\ call'[x].token = call[x].token
      BY <1>2, <1>3, <2>1, MeIsApart DEF Carrying
  <2>2. ASSUME NEW x \in Calls, Carrying(x)'
        PROVE  OfThisLogin(call[x].token)' = OfThisLogin(call[x].token)
      BY <1>3, <1>4, <2>1, <2>2 DEF OfThisLogin
  <2>3. QED
      BY <1>3, <1>4, <1>6, <2>1, <2>2 DEF DataInv, Carried, Carrying
<1>9. QED
    BY <1>5, <1>7, <1>8 DEF DataInv

\* A 401 posts the refresh token of the store.
LEMMA UnauthorizedData ==
    ASSUME SessionInv, DataInv, NEW c \in Requests, Unauthorized(c)
    PROVE  DataInv'
<1>0. call \in [Requests -> Call]
    BY SessionTypes DEF SessionInv
<1>1. /\ UNCHANGED <<authStore, pair, cached>> /\ authStore.refresh # 0
      /\ call' = [call EXCEPT ![c].at = "waiting", ![c].retry = TRUE]
    BY DEF Unauthorized, server
<1>2. \A x \in Requests : Remains(x)
    BY <1>0, <1>1 DEF Remains, Call
<1>3. CASE refreshing.at # "none"
    BY <1>1, <1>2, <1>3, QuietData DEF Unauthorized
<1>4. CASE refreshing.at = "none"
  <2>1. refreshing'.at = "posted" /\ refreshing'.of = authStore.refresh
      BY <1>4 DEF Unauthorized, NoRefresh
  <2>2. Issued' = Issued /\ era' = era
      BY <1>1, PairsStay
  <2>3. Served'
      BY <1>2, <2>2 DEF DataInv, Served, Remains
  <2>4. OwnTokens' = OwnTokens /\ \A t : OfThisLogin(t)' = OfThisLogin(t)
      BY <1>1, <2>2 DEF OwnTokens, OfThisLogin
  <2>5. TokensOfTheRefresh'
    <3>1. authStore.refresh \in Issued /\ authStore.access = authStore.refresh
        BY <1>1 DEF SessionInv, TokensKnown, DataInv, TokensOfTheRefresh
    <3>2. OfThisLogin(refreshing.of)' => OwnTokens'
        BY <1>1, <2>1, <2>2, <3>1 DEF OfThisLogin, OwnTokens
    <3>3. QED
        BY <1>1, <2>1, <2>2, <3>1, <3>2 DEF TokensOfTheRefresh
  <2>6. Carried'
      BY <1>1, <1>2, <2>2, <2>4, MeIsApart DEF DataInv, Carried, Carrying, Remains, OfThisLogin
  <2>7. QED
      BY <2>3, <2>5, <2>6 DEF DataInv
<1>5. QED
    BY <1>3, <1>4

\* What is issued does not change whose the other tokens are.
LEMMA OthersStay ==
    ASSUME SessionInv, NEW n \in Pairs, n \notin Issued, Issued' = Issued \cup {n},
           \A p \in Pairs \ {n} : pair'[p] = pair[p], era' = era
    PROVE  \A t \in Issued \cup {0} : OfThisLogin(t)' = OfThisLogin(t)
<1>1. 0 \notin Pairs
    BY SessionAssumption DEF Pairs
<1>2. QED
    BY <1>1 DEF OfThisLogin

\* The pair that a refresh is given stems from the login of the one it posted.
LEMMA RotateData ==
    ASSUME SessionInv, DataInv, SessionInv', Rotate
    PROVE  DataInv'
<1> DEFINE n == NextPair
           login == pair[refreshing.of].login
           u == pair[refreshing.of].user
<1>0. /\ authStore \in StoreRecord /\ PairType /\ refreshing \in RefreshRecord
      /\ call \in [Requests -> Call] /\ History
    BY SessionTypes DEF SessionInv
<1>1. /\ refreshing.of \in Issued /\ refreshing.of \in Pairs
      /\ login \in Issued /\ pair[login].login = login
      /\ u \in Users \cup {Nobody}
      /\ authStore.access \in Issued \cup {0}
    BY <1>0 DEF DataInv, TokensOfTheRefresh, SessionInv, TokensKnown, Rotate, History, Issued,
                PairType, PairRecord
<1>2. Issue(u, login)
    BY DEF Rotate
<1>3. n \notin Issued /\ n # 0
    BY <1>0, NextPairIs
<1> HIDE DEF u, login
<1>4. /\ n \in Pairs /\ Issued' = Issued \cup {n}
      /\ pair'[n].login = login
      /\ \A p \in Pairs \ {n} : pair'[p] = pair[p]
      /\ era' = era
  <2>1. login # n
      BY <1>1, <1>3
  <2>2. QED
      BY <1>0, <1>1, <1>2, <2>1, Issuing
<1>5. UNCHANGED <<authStore, call, cached>>
    BY DEF Rotate
<1>6. /\ refreshing.at = "posted" /\ refreshing'.at = "rotated"
      /\ refreshing'.gives = n /\ refreshing'.of = refreshing.of
    BY <1>0 DEF Rotate, RefreshRecord
<1> HIDE DEF n
<1>7. \A t \in Issued \cup {0} : OfThisLogin(t)' = OfThisLogin(t)
    BY <1>3, <1>4, OthersStay
<1>8. OwnTokens' = OwnTokens
    BY <1>1, <1>5, <1>7 DEF OwnTokens, OfThisLogin
<1>9. Served'
    BY <1>4, <1>5 DEF DataInv, Served
<1>10. pair'[refreshing.of].login = pair[refreshing.of].login
    BY <1>1, <1>3, <1>4
<1>11. TokensOfTheRefresh'
  <2>1. OfThisLogin(refreshing.of)' = OfThisLogin(refreshing.of)
      BY <1>1, <1>4, <1>6, <1>10 DEF OfThisLogin
  <2>2. pair'[refreshing'.gives].login = pair'[refreshing'.of].login
      BY <1>4, <1>6, <1>10 DEF login
  <2>3. QED
      BY <1>1, <1>4, <1>5, <1>6, <1>8, <2>1, <2>2 DEF DataInv, TokensOfTheRefresh
<1>12. Carried'
  <2>1. ASSUME NEW x \in Calls, OfThisLogin(call[x].token)
        PROVE  OfThisLogin(call[x].token)'
    <3>1. call[x].token \in Pairs /\ (call[x].token # n => pair'[call[x].token] = pair[call[x].token])
        BY <1>4, <2>1 DEF OfThisLogin
    <3>2. pair[n].login = 0
        BY <1>0, <1>3, <1>4, IssuedPairs
    <3>3. era # 0 => call[x].token # n
        BY <2>1, <3>2 DEF OfThisLogin
    <3>4. CASE era = 0
        BY <1>0, <1>1, <3>4, EraFacts, SessionAssumption DEF IsEra, Logins, Issued, Pairs
    <3>5. CASE era # 0
        BY <1>4, <1>5, <2>1, <3>1, <3>3, <3>5 DEF OfThisLogin
    <3>6. QED
        BY <3>4, <3>5
  <2>2. QED
      BY <1>4, <1>5, <1>8, <2>1 DEF DataInv, Carried, Carrying
<1>13. QED
    BY <1>9, <1>11, <1>12 DEF DataInv

\* A login's tokens arrive while nobody is signed in.
LEMMA TokenData ==
    ASSUME SessionInv, DataInv, NEW u \in Users, TokenIssued(u)
    PROVE  DataInv'
<1> DEFINE n == NextPair
<1>0. /\ authStore \in StoreRecord /\ PairType /\ refreshing \in RefreshRecord
      /\ call \in [Requests -> Call] /\ History
    BY SessionTypes DEF SessionInv
<1>1. Issue(u, n)
    BY DEF TokenIssued
<1>2. n \notin Issued /\ n # 0
    BY <1>0, NextPairIs
<1>3. /\ n \in Pairs /\ Issued' = Issued \cup {n}
      /\ \A p \in Pairs \ {n} : pair'[p] = pair[p]
    BY <1>0, <1>1, Issuing
<1>4. /\ refreshing' = refreshing
      /\ authStore' = [authStore EXCEPT !.access = n, !.refresh = n]
      /\ call' = [call EXCEPT !["me"] = [IdleCall EXCEPT !.at = "sent", !.token = n]]
      /\ signingIn = "token"
    BY DEF TokenIssued
<1> HIDE DEF n
<1>5. authStore'.refresh = authStore'.access /\ authStore'.user = Nobody
  <2>1. authStore.user = Nobody
      BY <1>4 DEF SessionInv, SigningIn
  <2>2. QED
      BY <1>0, <1>4, <2>1 DEF StoreRecord
<1>6. call'["me"].at = "sent" /\ \A x \in Requests \ {"me"} : call'[x] = call[x]
  <2>1. [IdleCall EXCEPT !.at = "sent", !.token = n].at = "sent"
      BY DEF IdleCall
  <2>2. QED
      BY <1>0, <1>4, <2>1, MeIsApart
<1>7. Served'
    BY <1>3, <1>6 DEF DataInv, Served
<1>8. TokensOfTheRefresh'
  <2>1. refreshing.at # "none" => refreshing.of \in Issued
      BY DEF DataInv, TokensOfTheRefresh
  <2>2. refreshing.at = "rotated" =>
            refreshing.gives \in Issued /\ pair[refreshing.gives].login = pair[refreshing.of].login
      BY DEF DataInv, TokensOfTheRefresh, SessionInv, TokensKnown
  <2>3. \A p \in Issued : pair'[p] = pair[p] /\ p \in Issued'
      BY <1>2, <1>3 DEF Issued
  <2>4. QED
      BY <1>4, <1>5, <2>1, <2>2, <2>3 DEF TokensOfTheRefresh
<1>9. Carried'
    BY <1>5 DEF Carried, Carrying
<1>10. QED
    BY <1>7, <1>8, <1>9 DEF DataInv

\* The pages' requests of a request that is over.
LEMMA AnswerRemains ==
    ASSUME SessionInv, NEW c \in Requests, Answered(c)
    PROVE  \A x \in Requests : Remains(x)
<1>0. call \in [Requests -> Call]
    BY SessionTypes DEF SessionInv
<1>1. PICK rest : rest = [call EXCEPT ![c] = IdleCall]
    OBVIOUS
<1>2. IdleCall \in Call /\ IdleCall.at = "idle"
    BY SentType DEF Tokens
<1>3. /\ rest \in [Requests -> Call] /\ rest[c] = IdleCall
      /\ \A x \in Requests \ {c} : rest[x] = call[x]
    BY <1>0, <1>1, <1>2, CallBecomes
<1>4. call' = Abort(rest) \/ call' = rest
    BY <1>1 DEF Answered, Mounted
<1>5. ASSUME NEW x \in Requests PROVE Remains(x)
    BY <1>2, <1>3, <1>4, AbortedRemain DEF Remains
<1>6. QED
    BY <1>5

\* A login ends with its own tokens in the store and nothing asked for; other
\* answers leave the store alone, or clear it, and a query's is cached for the
\* owner of the token it carried.
LEMMA AnsweredData ==
    ASSUME SessionInv, DataInv, SessionInv', NEW c \in Requests, Answered(c)
    PROVE  DataInv'
<1>0. /\ call \in [Requests -> Call] /\ PairType /\ History
      /\ \A x \in Requests : Remains(x)
    BY SessionTypes, AnswerRemains DEF SessionInv
<1>1. UNCHANGED <<pair, refreshing>> /\ call[c].at = "answered" /\ authStore' = Settled(c)
    BY DEF Answered, server
<1>2. Issued' = Issued /\ era' = era
    BY <1>1, PairsStay
<1>3. \A t : OfThisLogin(t)' = OfThisLogin(t)
    BY <1>1, <1>2 DEF OfThisLogin
<1>4. Served'
    BY <1>0, <1>2 DEF DataInv, Served, Remains
<1>5. CASE c = "me" /\ call["me"].answer = "ok"
  <2>1. signingIn = "me" /\ era # 0 /\ cached = {} /\ authStore.user = Nobody
      BY <1>1, <1>5 DEF SessionInv, SigningIn
  <2>2. era \in Pairs /\ pair[era].login = era
      BY <1>0, <2>1, EraFacts
  <2>3. PICK e : e = era
      OBVIOUS
  <2>4. authStore' = [access |-> e, refresh |-> e, user |-> pair[e].user]
      BY <1>1, <1>5, <2>3 DEF Settled
  <2>5. authStore'.access = era /\ authStore'.refresh = era
      BY <2>3, <2>4
  <2>6. OwnTokens'
      BY <1>1, <1>2, <2>2, <2>5 DEF OwnTokens
  <2>7. TokensOfTheRefresh'
      BY <1>1, <1>2, <2>5, <2>6 DEF DataInv, TokensOfTheRefresh
  <2>8. cached' = {}
      BY <1>5, <2>1, MeIsApart DEF Answered
  <2>9. \A x \in Calls : call'[x].at \in {"idle", "waiting"}
      BY <1>0, <2>1, MeIsApart DEF SessionInv, Shell, Remains
  <2>10. Carried'
      BY <2>8, <2>9 DEF Carried, Carrying
  <2>11. QED
      BY <1>4, <2>7, <2>10 DEF DataInv
<1>6. CASE ~ (c = "me" /\ call["me"].answer = "ok")
  <2>1. authStore' = NoStore \/ authStore' = authStore
      BY <1>1, <1>6 DEF Settled
  <2>2. CASE authStore' = NoStore
      BY <1>0, <1>1, <2>2, ClearedData
  <2>3. CASE authStore' = authStore
    <3>1. OwnTokens' = OwnTokens
        BY <1>1, <1>2, <2>3 DEF OwnTokens
    <3>2. TokensOfTheRefresh'
        BY <1>1, <1>2, <1>3, <2>3, <3>1 DEF DataInv, TokensOfTheRefresh, OfThisLogin
    <3>3. ASSUME authStore.user # Nobody, OwnTokens PROVE cached' \subseteq {era}
      <4>1. cached \subseteq {era}
          BY <3>3 DEF DataInv, Carried, Carrying
      <4>2. \/ cached' = {} \/ cached' = cached
            \/ /\ c \in Calls /\ call[c].answer = "ok"
               /\ cached' = cached \cup {pair[call[c].token].login}
          BY DEF Answered
      <4>3. c \in Calls /\ call[c].answer = "ok" => pair[call[c].token].login = era
          BY <1>1, <3>3 DEF DataInv, Carried, Carrying, OfThisLogin
      <4>4. QED
          BY <4>1, <4>2, <4>3
    <3>4. Carried'
        BY <1>0, <1>1, <1>2, <2>3, <3>1, <3>3, MeIsApart
           DEF DataInv, Carried, Carrying, Remains, OfThisLogin
    <3>5. QED
        BY <1>4, <3>2, <3>4 DEF DataInv
  <2>4. QED
      BY <2>1, <2>2, <2>3
<1>7. QED
    BY <1>5, <1>6

\* The tokens that a refresh puts into the store are of the latest login only
\* when those it replaces are.
LEMMA LandsData ==
    ASSUME SessionInv, DataInv, RefreshLands
    PROVE  DataInv'
<1> DEFINE g == refreshing.gives
<1>0. authStore \in StoreRecord /\ call \in [Requests -> Call]
    BY SessionTypes DEF SessionInv
<1>1. /\ UNCHANGED <<pair, cached>> /\ refreshing.at = "rotated"
      /\ authStore' = [authStore EXCEPT !.access = g, !.refresh = g]
      /\ refreshing'.at = "none"
    BY DEF RefreshLands, server, NoRefresh
<1>2. /\ g \in Issued /\ g \in Pairs /\ refreshing.of \in Pairs
      /\ pair[g].login = pair[refreshing.of].login
    BY <1>1 DEF SessionInv, TokensKnown, DataInv, TokensOfTheRefresh, Issued
<1>3. ASSUME NEW c \in Requests
      PROVE  Remains(c) \/ (call'[c].at = "sent" /\ call'[c].token = g)
  <2>1. call'[c] = IF call[c].at # "waiting" THEN call[c]
                   ELSE IF ~ call[c].kept THEN IdleCall
                   ELSE [call[c] EXCEPT !.at = "sent", !.answer = "none", !.token = g]
      BY DEF RefreshLands
  <2>2. IdleCall.at = "idle" /\ call[c] \in Call
      BY <1>0, SentType DEF Tokens
  <2>3. CASE call[c].at = "waiting" /\ call[c].kept
    <3>1. call'[c] = [call[c] EXCEPT !.at = "sent", !.answer = "none", !.token = g]
        BY <2>1, <2>3
    <3>2. call'[c].at = "sent" /\ call'[c].token = g
        BY <2>2, <3>1 DEF Call
    <3>3. QED
        BY <3>2
  <2>4. CASE ~ (call[c].at = "waiting" /\ call[c].kept)
      BY <2>1, <2>2, <2>4 DEF Remains
  <2>5. QED
      BY <2>3, <2>4
<1>4. authStore'.access = g /\ authStore'.refresh = g /\ authStore'.user = authStore.user
    BY <1>0, <1>1 DEF StoreRecord
<1> HIDE DEF g
<1>5. Issued' = Issued /\ era' = era
    BY <1>1, PairsStay
<1>6. Served'
    BY <1>3, <1>5 DEF DataInv, Served, Remains
<1>7. TokensOfTheRefresh'
    BY <1>1, <1>4 DEF TokensOfTheRefresh
<1>8. authStore.user # Nobody /\ OwnTokens' => OwnTokens /\ pair[g].login = era
    BY <1>1, <1>2, <1>4, <1>5 DEF OwnTokens, OfThisLogin, DataInv, TokensOfTheRefresh
<1>9. Carried'
  <2>1. ASSUME authStore.user # Nobody, OwnTokens',
               NEW x \in Calls, Carrying(x)'
        PROVE  call'[x].token \in Pairs /\ pair[call'[x].token].login = era
      BY <1>2, <1>3, <1>8, <2>1, MeIsApart DEF Remains, DataInv, Carried, Carrying, OfThisLogin
  <2>2. QED
      BY <1>1, <1>4, <1>5, <1>8, <2>1 DEF DataInv, Carried, Carrying, OfThisLogin
<1>10. QED
    BY <1>6, <1>7, <1>9 DEF DataInv

\* Every step of the session keeps whose data it is.
LEMMA StepData ==
    ASSUME SessionInv, DataInv, SessionInv', [SessionNext]_sessionVars
    PROVE  DataInv'
<1>0. call \in [Requests -> Call] /\ IdleCall.at = "idle"
    BY SessionTypes, SentType DEF SessionInv, Tokens
<1>1. CASE UNCHANGED sessionVars
    BY <1>1, QuietData DEF sessionVars, Remains
<1>2. CASE \/ \E p \in {"app", "public"} : NavigateTo(p)
           \/ Login \/ LoginFails \/ RefuseRefresh \/ \E p \in Pairs : Expire(p)
  <2>1. UNCHANGED <<pair, authStore>> /\ cached' \subseteq cached
      BY <1>2 DEF NavigateTo, Login, LoginFails, RefuseRefresh, Expire, server
  <2>2. call' = call \/ call' = Abort(call)
      BY <1>2 DEF NavigateTo, Login, LoginFails, RefuseRefresh, Expire
  <2>3. \A c \in Requests : Remains(c)
      BY <1>0, <2>2, AbortedRemain DEF Remains
  <2>4. \/ refreshing' = refreshing
        \/ refreshing.at # "none" /\ refreshing'.at = "refused" /\ refreshing'.of = refreshing.of
    <3>1. refreshing \in RefreshRecord
        BY SessionTypes DEF SessionInv
    <3>2. QED
        BY <1>2, <3>1 DEF NavigateTo, Login, LoginFails, RefuseRefresh, Expire, RefreshRecord
  <2>5. QED
      BY <2>1, <2>3, <2>4, QuietData
<1>3. CASE Reload
  <2>1. /\ UNCHANGED <<pair, authStore>> /\ cached' \subseteq cached
        /\ refreshing'.at = "none" /\ \A c \in Requests : Remains(c)
      BY <1>0, <1>3 DEF Reload, NoRefresh, Remains
  <2>2. QED
      BY <2>1, QuietData
<1>4. CASE RefreshFails
  <2>1. authStore' = NoStore /\ pair' = pair /\ refreshing' = NoRefresh
      BY <1>4 DEF RefreshFails, server
  <2>2. PICK ended : /\ ended = [c \in Requests |-> IF call[c].at = "waiting" THEN IdleCall ELSE call[c]]
                     /\ call' = Abort(ended)
      BY <1>4 DEF RefreshFails
  <2>3. IdleCall \in Call
      BY SentType DEF Tokens
  <2>4. ended \in [Requests -> Call]
      BY <1>0, <2>2, <2>3
  <2>5. \A c \in Requests : Remains(c)
      BY <1>0, <2>2, <2>4, AbortedRemain DEF Remains
  <2>6. QED
      BY <2>1, <2>5, ClearedData
<1>5. CASE \E c \in Requests : Send(c) \/ ServeRequest(c) \/ Answered(c) \/ Unauthorized(c)
    BY <1>5, SendData, ServeData, AnsweredData, UnauthorizedData
<1>6. CASE Rotate
    BY <1>6, RotateData
<1>7. CASE RefreshLands
    BY <1>7, LandsData
<1>8. CASE Logout
    BY <1>8, SendData, MeIsApart
<1>9. CASE \E u \in Users : TokenIssued(u)
    BY <1>9, TokenData
<1>10. QED
    BY <1>1, <1>2, <1>3, <1>4, <1>5, <1>6, <1>7, <1>8, <1>9 DEF SessionNext

\* The inductive invariant of the session.
THEOREM SessionInvariance == SessionSpec => [](SessionInv /\ DataInv)
<1>1. SessionInit => SessionInv /\ DataInv
    BY InitSession, InitData
<1>2. SessionInv /\ DataInv /\ [SessionNext]_sessionVars => (SessionInv /\ DataInv)'
    BY StepSession, StepData DEF DataInv
<1>3. QED
    BY <1>1, <1>2, PTL DEF SessionSpec

\* The variables of the session stay what they are.
THEOREM SessionTypesHold == SessionSpec => []SessionTypeOK
<1>1. SessionInv => SessionTypeOK
    BY DEF SessionInv
<1>2. QED
    BY <1>1, SessionInvariance, PTL

\* services/api.ts's shared refresh: however many requests find the access
\* token expired, its refresh token is posted once, by a login's twice.
THEOREM OnePostPerToken == SessionSpec => []RefreshTokensArePostedOnce
<1>1. SessionInv => RefreshTokensArePostedOnce
  <2> SUFFICES ASSUME SessionInv, NEW p \in Pairs
               PROVE  posts[p] <= IF pair[p].login = p THEN 2 ELSE 1
      BY DEF RefreshTokensArePostedOnce
  <2>1. posts[p] \in Nat
      BY SessionTypes DEF SessionInv
  <2>2. posts[p] + MayPost(p) + MayReturn(p) <= IF pair[p].login = p THEN 2 ELSE 1
      BY DEF SessionInv, Budget
  <2>3. MayPost(p) \in {0, 1} /\ MayReturn(p) \in {0, 1}
      BY DEF MayPost, MayReturn
  <2>4. QED
      BY <2>1, <2>2, <2>3
<1>2. QED
    BY <1>1, SessionInvariance, PTL

\* useAuth.tsx and the route guards: as long as the store holds the tokens of
\* the login it names, what a signed-in user is shown was returned to that login,
\* whatever requests the session before it left under way.
THEOREM ShownToItsUser == SessionSpec => []DataIsOfThisLogin
<1>1. DataInv => DataIsOfThisLogin
    BY DEF DataInv, Carried, Carrying, DataIsOfThisLogin
<1>2. QED
    BY <1>1, SessionInvariance, PTL

-----------------------------------------------------------------------------
(***************************************************************************)
(* The run of MCAccess takes one part at a time: its behaviours are, of    *)
(* each part, behaviours of that part, in which the others stutter.        *)
(***************************************************************************)
THEOREM RunIsOfEveryPart ==
    AccessSpec => SetupSpec /\ MembershipSpec /\ InviteSpec /\ SessionSpec
<1>1. AccessInit => SetupInit /\ MembershipInit /\ InviteInit /\ SessionInit
    BY DEF AccessInit
<1>2. [AccessNext]_accessVars =>
          /\ [SetupNext]_setupVars /\ [MembershipNext]_memberVars
          /\ [InviteNext]_inviteVars /\ [SessionNext]_sessionVars
    BY DEF AccessNext, accessVars
<1>3. QED
    BY <1>1, <1>2, PTL DEF AccessSpec, SetupSpec, MembershipSpec, InviteSpec, SessionSpec

\* Through any number of setups posted, requests of a workspace's people,
\* acceptances, flows of the invitation page, logins and refreshes, the rows, the
\* wizard's steps, the flows and the session hold what their types allow.
THEOREM AccessTypes == AccessSpec => []AccessTypeOK
<1>1. SetupTypeOK /\ MembershipTypeOK /\ InviteTypeOK /\ SessionTypeOK => AccessTypeOK
    BY DEF AccessTypeOK
<1>2. QED
    BY <1>1, RunIsOfEveryPart, WizardTypes, MembershipTypes, InvitePageTypes, SessionTypesHold, PTL
=============================================================================
