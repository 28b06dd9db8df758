------------------------------- MODULE Session -------------------------------
(***************************************************************************)
(* The frontend's session: the token store (features/auth/store), login    *)
(* and logout (features/auth/hooks/useAuth.tsx), the axios interceptors    *)
(* with their shared refresh (services/api.ts) and what the root layout    *)
(* and the route guards show of it.                                        *)
(*                                                                         *)
(* Token pairs are numbered in the order the server issues them; 0 is the  *)
(* absence of a token.  Requests answer in any order.  All of a page's     *)
(* queries are the requests of Calls; "write" is a mutation, which unlike   *)
(* a query is not aborted when its page goes away.                         *)
(***************************************************************************)
EXTENDS Naturals, FiniteSetsExt

CONSTANTS
    Users,
    Calls,      \* requests of the pages that may be under way at once
    MaxPairs    \* bound: token pairs the server issues

ASSUME SessionAssumption == MaxPairs \in Nat /\ {"write", "me", "logout"} \cap Calls = {}

VARIABLES
    authStore,   \* useAuthStore, kept in sessionStorage
    pair,        \* the issued pairs: the user, and the login they stem from
    accessLive,  \* pairs whose access token the server accepts
    refreshLive, \* pairs whose refresh token is neither blacklisted nor expired
    call,        \* requests: the pages', login's /auth/me/ and the logout's
    refreshing,  \* the shared refresh of services/api.ts
    signingIn,   \* LoginPage's submit waits for /auth/token/ or /auth/me/
    path,        \* the page the router is at
    cached,      \* the logins whose data the query cache holds
    posts        \* how often each refresh token was posted since the page loaded

sessionVars == <<authStore, pair, accessLive, refreshLive, call, refreshing, signingIn,
                 path, cached, posts>>
server == <<pair, accessLive, refreshLive>>

Pairs == 1..MaxPairs
Nobody == "nobody"
Requests == Calls \cup {"write", "me", "logout"}
NoPair == [user |-> Nobody, login |-> 0]
Issued == {p \in Pairs : pair[p] # NoPair}
NextPair == Cardinality(Issued) + 1

\* The pair of the latest login, 0 before the first.
era == Max({0} \cup {pair[p].login : p \in Pairs})

\* waiting: for the shared refresh.  kept: the query that sent it has not been
\* cancelled.  body: the refresh token a logout posts.
Call == [at : {"idle", "sent", "answered", "waiting"}, token : Pairs \cup {0},
         answer : {"none", "ok", "refused", "401", "lost"}, retry : BOOLEAN, kept : BOOLEAN,
         body : Pairs \cup {0}]
IdleCall == [at |-> "idle", token |-> 0, answer |-> "none", retry |-> FALSE,
             kept |-> FALSE, body |-> 0]
NoStore == [access |-> 0, refresh |-> 0, user |-> Nobody]
NoRefresh == [at |-> "none", of |-> 0, gives |-> 0]

SessionTypeOK ==
    /\ authStore \in [access : Pairs \cup {0}, refresh : Pairs \cup {0},
                     user : Users \cup {Nobody}]
    /\ pair \in [Pairs -> [user : Users \cup {Nobody}, login : Pairs \cup {0}]]
    /\ accessLive \subseteq Issued /\ refreshLive \subseteq Issued
    /\ call \in [Requests -> Call]
    /\ refreshing \in [at : {"none", "posted", "rotated", "refused"},
                       of : Pairs \cup {0}, gives : Pairs \cup {0}]
    /\ signingIn \in {"no", "token", "me"}
    /\ path \in {"app", "public"}
    /\ cached \subseteq Pairs
    /\ posts \in [Pairs -> Nat]

SessionInit ==
    /\ authStore = NoStore
    /\ pair = [p \in Pairs |-> NoPair]
    /\ accessLive = {} /\ refreshLive = {}
    /\ call = [c \in Requests |-> IdleCall]
    /\ refreshing = NoRefresh
    /\ signingIn = "no"
    /\ path = "app"
    /\ cached = {}
    /\ posts = [p \in Pairs |-> 0]

-----------------------------------------------------------------------------
(* The pages.                                                              *)

\* Invitations and password resets need no session; every other path is the
\* shell for a signed-in user and the login page for anybody else.
RootLayout == IF path = "public" THEN "public"
              ELSE IF authStore.user # Nobody THEN "shell" ELSE "login"

\* A query without an observer or a cache aborts its request; one that waits
\* for the refresh is given up when it is to be sent again.
Abort(calls) == [c \in Requests |->
    IF c \notin Calls THEN calls[c]
    ELSE IF calls[c].at = "waiting" THEN [calls[c] EXCEPT !.kept = FALSE] ELSE IdleCall]

\* What is left of the requests when the store becomes s.
Mounted(s, calls) == IF s.user = Nobody THEN Abort(calls) ELSE calls

NavigateTo(p) ==
    /\ p # path
    /\ path' = p
    /\ call' = IF p = "public" THEN Abort(call) ELSE call
    /\ UNCHANGED <<authStore, server, refreshing, signingIn, cached, posts>>

\* The request interceptor attaches whatever token the store holds.
Sent(c, body) == [call EXCEPT ![c] = [IdleCall EXCEPT !.at = "sent", !.token = authStore.access,
                                                  !.kept = TRUE, !.body = body]]

Send(c) ==
    /\ c \in Calls \cup {"write"}
    /\ RootLayout = "shell"
    /\ call[c].at = "idle"
    /\ call' = Sent(c, 0)
    /\ UNCHANGED <<authStore, server, refreshing, signingIn, path, cached, posts>>

\* A reload of the tab: the store is restored from sessionStorage, everything
\* else of the page is gone.  The server may or may not have seen a refresh.
Reload ==
    /\ call' = [c \in Requests |-> IdleCall]
    /\ refreshing' = NoRefresh
    /\ refreshLive' \in {refreshLive, refreshLive \ {refreshing.of}}
    /\ signingIn' = "no"
    /\ cached' = {}
    /\ posts' = [p \in Pairs |-> 0]
    /\ UNCHANGED <<authStore, pair, accessLive, path>>

-----------------------------------------------------------------------------
(* The server.                                                             *)

Issue(u, login) ==
    /\ NextPair \in Pairs
    /\ pair' = [pair EXCEPT ![NextPair] = [user |-> u, login |-> login]]
    /\ accessLive' = accessLive \cup {NextPair}

\* An access token expires after 15 minutes; a login does not take that long.
\* (A refresh token that expires, after 7 days, is one that RefuseRefresh
\* refuses.)
Expire(p) ==
    /\ p \in accessLive
    /\ p = era => signingIn # "me"
    /\ accessLive' = accessLive \ {p}
    /\ UNCHANGED <<authStore, pair, refreshLive, call, refreshing, signingIn, path, cached,
                   posts>>

\* A request is served, or fails on the way.  LogoutAPIView blacklists the
\* refresh token of the body, and refuses one that is not valid.
ServeRequest(c) ==
    LET valid == call[c].token \in accessLive
        accepted == valid /\ (c = "logout" => call[c].body \in refreshLive)
    IN
    /\ call[c].at = "sent"
    /\ \/ /\ call' = [call EXCEPT ![c].at = "answered",
                        ![c].answer = IF accepted THEN "ok" ELSE IF valid THEN "refused" ELSE "401"]
          /\ refreshLive' = IF c = "logout" /\ accepted THEN refreshLive \ {call[c].body}
                            ELSE refreshLive
       \/ /\ call' = [call EXCEPT ![c] = [IdleCall EXCEPT !.at = "answered", !.answer = "lost"]]
          /\ UNCHANGED refreshLive
    /\ UNCHANGED <<authStore, pair, accessLive, refreshing, signingIn, path, cached, posts>>

\* POST /auth/token/refresh/: rotation blacklists the old refresh token.
Rotate ==
    /\ refreshing.at = "posted"
    /\ refreshing.of \in refreshLive
    /\ Issue(pair[refreshing.of].user, pair[refreshing.of].login)
    /\ refreshLive' = (refreshLive \ {refreshing.of}) \cup {NextPair}
    /\ refreshing' = [refreshing EXCEPT !.at = "rotated", !.gives = NextPair]
    /\ UNCHANGED <<authStore, call, signingIn, path, cached, posts>>

\* The token is not accepted, or the request or its answer is lost.
RefuseRefresh ==
    /\ refreshing.at \in {"posted", "rotated"}
    /\ refreshing' = [refreshing EXCEPT !.at = "refused"]
    /\ UNCHANGED <<authStore, server, call, signingIn, path, cached, posts>>

-----------------------------------------------------------------------------
(* Login and logout (useAuth.tsx).                                         *)

\* Mutant: the cache is cleared by logout only.
Login_KeepsCache ==
    /\ RootLayout = "login"
    /\ signingIn = "no"
    /\ signingIn' = "token"
    /\ UNCHANGED <<authStore, server, call, refreshing, path, cached, posts>>

\* queryClient.clear(), then /auth/token/.  LoginPage disables its button while
\* a login is pending.
Login ==
    /\ RootLayout = "login"
    /\ signingIn = "no"
    /\ signingIn' = "token"
    /\ cached' = {}
    /\ call' = Abort(call)
    /\ UNCHANGED <<authStore, server, refreshing, path, posts>>

\* /auth/token/ answers: the pair is stored before the user is known.
TokenIssued(u) ==
    /\ signingIn = "token"
    /\ call["me"].at = "idle"
    /\ Issue(u, NextPair)
    /\ refreshLive' = refreshLive \cup {NextPair}
    /\ authStore' = [authStore EXCEPT !.access = NextPair, !.refresh = NextPair]
    /\ call' = [call EXCEPT !["me"] = [IdleCall EXCEPT !.at = "sent", !.token = NextPair]]
    /\ signingIn' = "me"
    /\ UNCHANGED <<refreshing, path, cached, posts>>

LoginFails ==
    /\ signingIn = "token"
    /\ signingIn' = "no"
    /\ UNCHANGED <<authStore, server, call, refreshing, path, cached, posts>>

\* AccountMenu's sign out.
Logout ==
    /\ RootLayout = "shell"
    /\ call["logout"].at = "idle"
    /\ authStore.refresh # 0
    /\ call' = Sent("logout", authStore.refresh)
    /\ UNCHANGED <<authStore, server, refreshing, signingIn, path, cached, posts>>

-----------------------------------------------------------------------------
(* The response interceptor, and what its caller does with the outcome.    *)

\* The store when the promise of c has settled.  setSession puts the pair of
\* the login into the store, whatever it holds by then.
Settled(c) ==
    LET ok == call[c].answer = "ok" IN
    CASE c = "me" /\ ok -> [access |-> era, refresh |-> era, user |-> pair[era].user]
      [] c = "logout" \/ (c = "me" /\ ~ok) -> NoStore
      [] OTHER -> IF call[c].answer = "401" /\ ~call[c].retry THEN NoStore ELSE authStore

\* A query caches what the server returned to the owner of the token it carried.
Answered(c) ==
    LET ok == call[c].answer = "ok" IN
    /\ call[c].at = "answered"
    /\ \/ call[c].answer \in {"ok", "refused", "lost"}
       \/ call[c].answer = "401" /\ (call[c].retry \/ authStore.refresh = 0)
    /\ authStore' = Settled(c)
    /\ cached' = CASE c = "logout" -> {}
                  [] c \in Calls /\ ok -> cached \cup {pair[call[c].token].login}
                  [] OTHER -> cached
    /\ signingIn' = IF c = "me" THEN "no" ELSE signingIn
    /\ path' = IF c = "me" /\ ok THEN "app" ELSE path
    /\ call' = Mounted(Settled(c), [call EXCEPT ![c] = IdleCall])
    /\ UNCHANGED <<server, refreshing, posts>>

\* Mutant: every 401 starts a refresh of its own.
Unauthorized_Alone(c) ==
    /\ call[c].at = "answered" /\ call[c].answer = "401"
    /\ ~call[c].retry /\ authStore.refresh # 0
    /\ call' = [call EXCEPT ![c].at = "waiting", ![c].retry = TRUE]
    /\ refreshing' = [NoRefresh EXCEPT !.at = "posted", !.of = authStore.refresh]
    /\ posts' = [posts EXCEPT ![authStore.refresh] = @ + 1]
    /\ UNCHANGED <<authStore, server, signingIn, path, cached>>

\* The first 401 posts the refresh token, the others wait for the same answer.
Unauthorized(c) ==
    /\ call[c].at = "answered" /\ call[c].answer = "401"
    /\ ~call[c].retry /\ authStore.refresh # 0
    /\ call' = [call EXCEPT ![c].at = "waiting", ![c].retry = TRUE]
    /\ IF refreshing.at = "none"
       THEN /\ refreshing' = [NoRefresh EXCEPT !.at = "posted", !.of = authStore.refresh]
            /\ posts' = [posts EXCEPT ![authStore.refresh] = @ + 1]
       ELSE UNCHANGED <<refreshing, posts>>
    /\ UNCHANGED <<authStore, server, signingIn, path, cached>>

\* The new pair replaces the stored one and every waiting request is sent
\* again, the logout with the body it had.
RefreshLands ==
    /\ refreshing.at = "rotated"
    /\ authStore' = [authStore EXCEPT !.access = refreshing.gives, !.refresh = refreshing.gives]
    /\ call' = [c \in Requests |->
                  IF call[c].at # "waiting" THEN call[c]
                  ELSE IF ~call[c].kept THEN IdleCall
                  ELSE [call[c] EXCEPT !.at = "sent", !.answer = "none",
                                       !.token = refreshing.gives]]
    /\ refreshing' = NoRefresh
    /\ UNCHANGED <<server, signingIn, path, cached, posts>>

\* Every waiting request clears the session and rejects; a waiting login ends
\* and a waiting logout clears the cache too.
RefreshFails ==
    LET over(c) == call[c].at = "waiting" IN
    /\ refreshing.at = "refused"
    /\ refreshing' = NoRefresh
    /\ authStore' = NoStore
    /\ call' = Abort([c \in Requests |-> IF over(c) THEN IdleCall ELSE call[c]])
    /\ cached' = IF over("logout") THEN {} ELSE cached
    /\ signingIn' = IF over("me") THEN "no" ELSE signingIn
    /\ UNCHANGED <<server, path, posts>>

SessionNext ==
    \/ \E p \in {"app", "public"} : NavigateTo(p)
    \/ Reload
    \/ \E p \in Pairs : Expire(p)
    \/ \E c \in Requests : Send(c) \/ ServeRequest(c) \/ Answered(c) \/ Unauthorized(c)
    \/ Rotate \/ RefuseRefresh \/ RefreshLands \/ RefreshFails
    \/ Login \/ LoginFails \/ Logout
    \/ \E u \in Users : TokenIssued(u)

SessionSpec == SessionInit /\ [][SessionNext]_sessionVars

-----------------------------------------------------------------------------
\* Of several requests that find the access token expired one posts the
\* refresh token; rotation has blacklisted it, so a second post would end the
\* session.  Only a login may put the pair it was given back into the store
\* (setSession) after a late 401 of the former user's mutation rotated it.
RefreshTokensArePostedOnce ==
    \A p \in Pairs : posts[p] <= IF pair[p].login = p THEN 2 ELSE 1

\* The store holds a pair of the latest login.  A refresh of the session before
\* it, rotated by the server and answered after that login, replaces the pair:
\* RefreshLands does not ask whose session the store holds by then.
OwnTokens == authStore.access \in Pairs /\ pair[authStore.access].login = era

\* As long as the store holds the tokens of the login it names, what the pages
\* show was returned to that login, even when the session before it ended in an
\* interceptor, which leaves the query cache alone, with requests and a refresh
\* still under way.
DataIsOfThisLogin == authStore.user # Nobody /\ OwnTokens => cached \subseteq {era}

\* docs/api/authentication.md: the tab retains the session, while logout clears it.
\* A store without tokens is given some by a login only: not by a refresh that was
\* under way when the logout cleared it, which RefreshLands puts into the store
\* without asking whether there is still a session.
LogoutClearsTheSession ==
    [][authStore.refresh = 0 /\ authStore'.refresh # 0 => signingIn \in {"token", "me"}]_authStore

\* privacy-and-security.md: refresh tokens rotate and logout blacklists them.
\* When a logout that the server has answered is over, no refresh token that
\* stems from the same login is accepted any more.
LogoutBlacklistsTheSession ==
    [][LET logout == call["logout"] IN
       /\ logout.answer \in {"ok", "refused"} /\ call'["logout"].at = "idle"
       /\ authStore'.user = Nobody
       => \A p \in refreshLive : pair[p].login # pair[logout.body].login]_call
=============================================================================
