------------------------------ MODULE MCAccess -------------------------------
(* The ways into the system: the first-run setup, the people of a workspace, *)
(* the page behind an invitation, and the session.  They share nothing that  *)
(* the models keep: a behaviour is one of one part, chosen in the initial    *)
(* state.                                                                    *)
EXTENDS Setup, Membership, InvitePage, Session

VARIABLE part

accessVars == <<part, setupVars, memberVars, inviteVars, sessionVars>>

\* A part with several initial states has them in its own behaviours.
AccessInit ==
    /\ part \in {"setup", "people", "invite", "session"}
    /\ SetupInit /\ MembershipInit /\ InviteInit /\ SessionInit
    /\ part = "people" \/ (/\ accounts = 0 /\ invitation[1] = Unissued
                          /\ role[CHOOSE p \in Staff : TRUE] = "owner")
    /\ part = "invite" \/ (~installationAdmin /\ ~account /\ store.user = NoOne)

AccessNext ==
    /\ \/ part = "setup" /\ SetupNext
          /\ UNCHANGED <<memberVars, inviteVars, sessionVars>>
       \/ part = "people" /\ MembershipNext
          /\ UNCHANGED <<setupVars, inviteVars, sessionVars>>
       \/ part = "invite" /\ InviteNext
          /\ UNCHANGED <<setupVars, memberVars, sessionVars>>
       \/ part = "session" /\ SessionNext
          /\ UNCHANGED <<setupVars, memberVars, inviteVars>>
    /\ UNCHANGED part

AccessSpec == AccessInit /\ [][AccessNext]_accessVars

\* The wizard's steps, the rows of memberships and invitations, the flows of the
\* invitation page and the stores of the session hold what their types allow.
AccessTypeOK == SetupTypeOK /\ MembershipTypeOK /\ InviteTypeOK /\ SessionTypeOK
=============================================================================
