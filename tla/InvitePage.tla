----------------------------- MODULE InvitePage -----------------------------
(***************************************************************************)
(* The page behind an invitation's link (pages/Invite/InvitePage.tsx): a   *)
(* visitor registers, signs in or accepts with the session there is, and   *)
(* the page stores the session it is given.  What it does after each await *)
(* is a flow; the buttons are disabled only while the latest acceptance is *)
(* pending, so a flow may start while another waits for a login or for the *)
(* current user.  Module Membership has the server's side; here the link   *)
(* is open or used.                                                        *)
(***************************************************************************)
EXTENDS Naturals

CONSTANT MaxFlows   \* bound: acceptances and sign-ins that the page starts

ASSUME InvitePageAssumption == MaxFlows \in Nat

VARIABLES
    installationAdmin,  \* whether the link makes an administrator or a member
    linkUsed, account,  \* the server: the link, and an account of its address
    store,              \* whose tokens useAuthStore holds, and whose user
    preview,            \* the query of useInvitationPreview
    flow,               \* what the page has started
    latest,             \* the flow whose acceptance the mutation observes
    left                \* the page has navigated to what was joined

inviteVars == <<installationAdmin, linkUsed, account, store, preview, flow, latest, left>>
theServer == <<linkUsed, account>>

Flows == 1..MaxFlows
Anyone == {"invited", "other"}     \* the address of the invitation, or another
NoOne == "no one"
\* as: whose token the flow's request carries.  fresh: a registration, which is
\* answered with tokens.
NoFlow == [at |-> "unused", as |-> NoOne, fresh |-> FALSE]
Ended == [NoFlow EXCEPT !.at = "over"]

InviteTypeOK ==
    /\ installationAdmin \in BOOLEAN /\ linkUsed \in BOOLEAN /\ account \in BOOLEAN
    /\ store \in [tokens : Anyone \cup {NoOne}, user : Anyone \cup {NoOne}]
    \* "cleared": logins and logouts clear the cache; the page shows what it
    \* had until it is rendered again.
    /\ preview \in {"loading", "shown", "cleared", "failed"}
    /\ flow \in [Flows -> [at : {"unused", "token", "login me", "accept", "joined", "refused",
                                 "me", "admin me", "over"},
                           as : Anyone \cup {NoOne}, fresh : BOOLEAN]]
    /\ latest \in {0} \cup Flows
    /\ left \in BOOLEAN

InviteInit ==
    /\ installationAdmin \in BOOLEAN /\ linkUsed = FALSE /\ account \in BOOLEAN
    /\ \E visitor \in {"other", NoOne} \cup (IF account THEN {"invited"} ELSE {}) :
         store = [tokens |-> visitor, user |-> visitor]
    /\ preview = "loading"
    /\ flow = [f \in Flows |-> NoFlow]
    /\ latest = 0 /\ left = FALSE

-----------------------------------------------------------------------------
(* The preview.                                                            *)

PreviewAnswers ==
    /\ preview = "loading"
    /\ preview' \in IF linkUsed THEN {"failed"} ELSE {"shown", "failed"}
    /\ UNCHANGED <<installationAdmin, theServer, store, flow, latest, left>>

\* The retry of the failure, or a rendering of the page without its query.
PreviewIsAsked ==
    /\ preview \in {"failed", "cleared"}
    /\ preview' = "loading"
    /\ UNCHANGED <<installationAdmin, theServer, store, flow, latest, left>>

PageShown == preview \in {"shown", "cleared"} /\ ~left

-----------------------------------------------------------------------------
(* What the visitor starts.                                                *)

acceptPending == latest # 0 /\ flow[latest].at \in {"accept", "joined", "refused"}

IsUnused(f) == flow[f].at = "unused" /\ \A g \in 1..(f - 1) : flow[g].at # "unused"

\* accept.mutateAsync: the request carries the token that is stored now.
PostsAcceptance(f, fresh) ==
    /\ flow' = [flow EXCEPT ![f] = [at |-> "accept", as |-> store.tokens, fresh |-> fresh]]
    /\ latest' = f

AcceptInvitation(f) ==
    /\ PageShown /\ store.user # NoOne /\ ~acceptPending /\ IsUnused(f)
    /\ PostsAcceptance(f, FALSE)
    /\ UNCHANGED <<installationAdmin, theServer, store, preview, left>>

Register(f) ==
    /\ PageShown /\ store.user = NoOne /\ ~acceptPending /\ IsUnused(f)
    /\ PostsAcceptance(f, TRUE)
    /\ UNCHANGED <<installationAdmin, theServer, store, preview, left>>

\* auth.login clears the cache and asks for tokens.
signIn(f, who) ==
    /\ PageShown /\ store.user = NoOne /\ ~acceptPending /\ IsUnused(f)
    /\ flow' = [flow EXCEPT ![f] = [at |-> "token", as |-> who, fresh |-> FALSE]]
    /\ preview' = "cleared"
    /\ UNCHANGED <<installationAdmin, theServer, store, latest, left>>

\* The logout's request is in module Session.
UseAnotherAccount ==
    /\ PageShown /\ store.user # NoOne
    /\ store' = [tokens |-> NoOne, user |-> NoOne]
    /\ preview' = "cleared"
    /\ UNCHANGED <<installationAdmin, theServer, flow, latest, left>>

-----------------------------------------------------------------------------
(* The login of a flow.                                                    *)

LoginTokens(f) ==
    /\ flow[f].at = "token"
    /\ \/ /\ flow[f].as = "other" \/ account
          /\ store' = [store EXCEPT !.tokens = flow[f].as]
          /\ flow' = [flow EXCEPT ![f].at = "login me"]
       \/ /\ flow' = [flow EXCEPT ![f] = Ended]
          /\ UNCHANGED store
    /\ UNCHANGED <<installationAdmin, theServer, preview, latest, left>>

\* setSession, and finish() with the token just stored; or the session is
\* cleared, whoever's it is by now.
LoginUser(f) ==
    /\ flow[f].at = "login me"
    /\ \/ /\ store' = [tokens |-> flow[f].as, user |-> flow[f].as]
          /\ flow' = [flow EXCEPT ![f] = [at |-> "accept", as |-> flow[f].as, fresh |-> FALSE]]
          /\ latest' = f
       \/ /\ store' = [tokens |-> NoOne, user |-> NoOne]
          /\ flow' = [flow EXCEPT ![f] = Ended]
          /\ UNCHANGED latest
    /\ UNCHANGED <<installationAdmin, theServer, preview, left>>

-----------------------------------------------------------------------------
(* The acceptance of a flow.                                               *)

\* A post with a session is of that account, whatever the form holds.
MayJoin(f) ==
    /\ ~linkUsed
    /\ flow[f].as = "invited" \/ (flow[f].as = NoOne /\ flow[f].fresh /\ ~account)

ServerAccepts(f) ==
    /\ flow[f].at = "accept"
    /\ \/ /\ MayJoin(f)
          /\ linkUsed' = TRUE /\ account' = TRUE
          /\ flow' = [flow EXCEPT ![f].at = "joined"]
       \/ /\ flow' = [flow EXCEPT ![f].at = "refused"]
          /\ UNCHANGED theServer
    /\ UNCHANGED <<installationAdmin, store, preview, latest, left>>

\* Refused, or the answer is lost: the page shows the error and goes on.
AcceptanceFails(f) ==
    /\ flow[f].at \in {"accept", "joined", "refused"}
    /\ flow' = [flow EXCEPT ![f] = Ended]
    /\ UNCHANGED <<installationAdmin, theServer, store, preview, latest, left>>

\* An administrator's user is read with the token that is stored now.
GoesOn(f, tokens) ==
    IF installationAdmin
      THEN /\ flow' = [flow EXCEPT ![f] = [at |-> "admin me", as |-> tokens, fresh |-> FALSE]]
           /\ UNCHANGED left
      ELSE flow' = [flow EXCEPT ![f] = Ended] /\ left' = TRUE

\* Tokens come with the account that the acceptance created.
Joined(f) ==
    /\ flow[f].at = "joined"
    /\ IF flow[f].as = NoOne
         THEN /\ store' = [store EXCEPT !.tokens = "invited"]
              /\ flow' = [flow EXCEPT ![f] = [at |-> "me", as |-> "invited", fresh |-> FALSE]]
              /\ UNCHANGED left
         ELSE GoesOn(f, store.tokens) /\ UNCHANGED store
    /\ UNCHANGED <<installationAdmin, theServer, preview, latest>>

\* Mutant: only the user is set, the tokens are those of the store by now.
NewUser_KeepsTokens(f) ==
    /\ flow[f].at = "me"
    /\ \/ /\ store' = [store EXCEPT !.user = "invited"]
          /\ GoesOn(f, store.tokens)
       \/ /\ store' = [tokens |-> NoOne, user |-> NoOne]
          /\ flow' = [flow EXCEPT ![f] = Ended]
          /\ UNCHANGED left
    /\ UNCHANGED <<installationAdmin, theServer, preview, latest>>

\* Without the user the session is cleared, and nothing is shown: the account
\* exists and the link is used.
NewUser(f) ==
    /\ flow[f].at = "me"
    /\ \/ /\ store' = [tokens |-> "invited", user |-> "invited"]
          /\ GoesOn(f, "invited")
       \/ /\ store' = [tokens |-> NoOne, user |-> NoOne]
          /\ flow' = [flow EXCEPT ![f] = Ended]
          /\ UNCHANGED left
    /\ UNCHANGED <<installationAdmin, theServer, preview, latest>>

AdminUser(f) ==
    /\ flow[f].at = "admin me"
    /\ \/ /\ flow[f].as # NoOne
          /\ store' = [store EXCEPT !.user = flow[f].as]
          /\ left' = TRUE
       \/ UNCHANGED <<store, left>>
    /\ flow' = [flow EXCEPT ![f] = Ended]
    /\ UNCHANGED <<installationAdmin, theServer, preview, latest>>

InviteNext ==
    \/ PreviewAnswers \/ PreviewIsAsked \/ UseAnotherAccount
    \/ \E f \in Flows :
         \/ AcceptInvitation(f) \/ Register(f) \/ \E who \in Anyone : signIn(f, who)
         \/ LoginTokens(f) \/ LoginUser(f)
         \/ ServerAccepts(f) \/ AcceptanceFails(f) \/ Joined(f) \/ NewUser(f) \/ AdminUser(f)

InviteSpec == InviteInit /\ [][InviteNext]_inviteVars

-----------------------------------------------------------------------------
(* What makes it correct.                                                  *)

Resting == \A f \in Flows : flow[f].at \in {"unused", "accept", "joined", "refused", "over"}

\* However registrations, sign-ins and the account switch of a workspace's
\* invitation overlap, once no login is under way the tokens in the store are
\* those of the user it names.
SessionIsOnePersons ==
    (~installationAdmin /\ Resting) => store.tokens = store.user
=============================================================================
