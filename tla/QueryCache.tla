----------------------------- MODULE QueryCache ------------------------------
(***************************************************************************)
(* What the web frontend shows of the server's data: the TanStack queries  *)
(* and mutations of features/*/hooks, the screens that observe and offer   *)
(* them, and the cache in between (config/queryClient.ts).                 *)
(*                                                                         *)
(* Entries of the cache do not influence each other, so a behaviour watches *)
(* one of them.  A mutation is reduced to what it does to that entry.      *)
(* Data is the number of committed writes it reflects.  Ids and filters    *)
(* are left out of the keys: one workspace, one record of each kind.       *)
(***************************************************************************)
EXTENDS Integers, SequencesExt

CONSTANT Changes   \* bound: mutations in a behaviour
ASSUME ChangesAssumption == IsFiniteSet(Changes)

-----------------------------------------------------------------------------
(* Queries: their keys, and the tables the endpoint reads.                 *)

Query(key, reads) == [key |-> key, reads |-> reads]

Workspaces == <<"organizations">>
Workspace == Workspaces \o <<"w">>
Of(root) == Append(Workspace, root)

organizationKeys ==
    [organizations |-> Query(Workspaces, {"workspaces"}),
     organization  |-> Query(Workspace, {"workspaces", "members"})]

dealKeys ==
    [deals |-> Query(Of("deals") \o <<"list">>, {"deals", "companies", "contacts"}),
     idle_deals |-> Query(Of("deals") \o <<"list", "missing">>, {"deals", "tasks"}),
     deal  |-> Query(Of("deals") \o <<"detail">>, {"deals", "companies", "contacts"})]

taskKeys ==
    [tasks |-> Query(Of("tasks") \o <<"filters">>, {"tasks", "companies", "contacts", "deals"})]

companyKeys ==
    [companies  |-> Query(Of("companies") \o <<"filters">>, {"companies"}),
     company    |-> Query(Of("companies") \o <<"id">>, {"companies"}),
     timeline   |-> Query(Of("companies") \o <<"id", "timeline">>, {"timeline"}),
     attention  |-> Query(Of("companies") \o <<"attention">>, {"companies", "tasks", "timeline"}),
     assignees  |-> Query(Of("companies") \o <<"assignees">>, {"members"})]

contactKeys ==
    [contacts |-> Query(Of("contacts") \o <<"filters">>, {"contacts", "companies"}),
     contact  |-> Query(Of("contacts") \o <<"id">>, {"contacts", "companies"}),
     contact_activity |-> Query(Of("contacts") \o <<"id", "activity">>, {"contacts"})]

serviceKeys ==
    [catalog       |-> Query(Of("services") \o <<"catalog">>, {"catalog"}),
     subscriptions |-> Query(Of("services") \o <<"subscriptions">>,
                             {"subscriptions", "charges", "catalog", "companies"}),
     charges       |-> Query(Of("services") \o <<"charges">>,
                             {"subscriptions", "charges", "companies"}),
     overview      |-> Query(Of("services") \o <<"overview">>, {"subscriptions", "charges"})]

costingKeys ==
    [collaborators |-> Query(Of("costing") \o <<"collaborators">>, {"collaborators"}),
     collaborator_services |-> Query(Of("costing") \o <<"services">>,
                                     {"collaborators", "collaborator_services"}),
     costs         |-> Query(Of("costing") \o <<"deals", "costs">>,
                             {"costs", "collaborators"}),
     profitability |-> Query(Of("costing") \o <<"deals", "profitability">>, {"costs", "deals"})]

peopleKeys ==
    [members     |-> Query(Of("members"), {"members"}),
     invitations |-> Query(Of("invitations"), {"invitations"})]

useActivityInbox ==
    [inbox |-> Query(Of("activity-inbox"),
                     {"tasks", "deals", "companies", "subscriptions", "charges", "invitations"})]

useOrganizationSettings ==
    [settings |-> Query(Of("settings"), {"settings"}),
     email_accounts |-> Query(Of("email-accounts"), {"email_accounts"}),
     activity |-> Query(Of("activity"), {"audit"})]

useWorkspaceProvisioning ==
    [pending |-> Query(<<"workspaces", "pending">>, {"workspaces", "pending"})]

installationKeys ==
    [account |-> Query(<<"account-settings">>, {"account"}),
     installation |-> Query(<<"installation-settings">>, {"installation"}),
     administrators |-> Query(<<"installation-administrators">>, {"administrators"}),
     audit_log |-> Query(<<"installation-audit-log">>, {"audit"})]

\* What the records of a set have, in one record.
AllOf(records) ==
    [n \in UNION {DOMAIN r : r \in records} |-> (CHOOSE r \in records : n \in DOMAIN r)[n]]

Queries ==
    AllOf({organizationKeys, dealKeys, taskKeys, companyKeys, contactKeys, serviceKeys,
           costingKeys, peopleKeys, useActivityInbox, useOrganizationSettings,
           useWorkspaceProvisioning, installationKeys})

-----------------------------------------------------------------------------
(* Mutations: the tables the endpoint writes, the keys the hook            *)
(* invalidates, and whether it does so after an error too (onSettled).     *)

Mutation(writes, drops) == [writes |-> writes, drops |-> drops, settled |-> FALSE]
Inbox == useActivityInbox.inbox.key

DealMutations ==
    LET invalidateDeals == {Of("deals"), Inbox} IN
    [createDeal  |-> Mutation({"deals", "timeline"}, invalidateDeals),
     updateDeal  |-> Mutation({"deals", "timeline"}, invalidateDeals),
     archiveDeal |-> Mutation({"deals", "timeline"}, invalidateDeals),
     deleteDeal  |-> Mutation({"deals"}, invalidateDeals),
     moveDeal    |-> [Mutation({"deals", "timeline"}, invalidateDeals) EXCEPT !.settled = TRUE]]

TaskMutations ==
    LET useInvalidateTasks == {Of("tasks"), Inbox} IN
    [createTask     |-> Mutation({"tasks", "timeline"}, useInvalidateTasks),
     updateTask     |-> Mutation({"tasks", "timeline"}, useInvalidateTasks),
     rescheduleTask |-> Mutation({"tasks", "timeline"}, useInvalidateTasks),
     completeTask   |-> Mutation({"tasks", "timeline"}, useInvalidateTasks),
     reopenTask     |-> Mutation({"tasks", "timeline"}, useInvalidateTasks),
     moveTask       |-> Mutation({"tasks", "timeline"}, useInvalidateTasks),
     deleteTask     |-> Mutation({"tasks"}, useInvalidateTasks)]

CompanyMutations ==
    LET useCompanyMutation == {Of("companies"), Inbox} IN
    [saveCompany |-> Mutation({"companies", "timeline"}, useCompanyMutation),
     archiveCompany |-> Mutation({"companies", "timeline"}, useCompanyMutation),
     addTimelineNote |-> Mutation({"timeline"}, {companyKeys.timeline.key}),
     addCommunication |-> Mutation({"timeline"},
                            {companyKeys.timeline.key, companyKeys.attention.key})]

ContactMutations ==
    [saveContact |-> Mutation({"contacts"}, {Of("contacts")}),
     archiveContact |-> Mutation({"contacts"}, {Of("contacts")}),
     deleteContact |-> Mutation({"contacts"}, {Of("contacts")})]

ServiceMutations ==
    LET invalidateServices == {Of("services"), Inbox} IN
    [saveCatalogItem |-> Mutation({"catalog"}, {serviceKeys.catalog.key}),
     saveSubscription |-> Mutation({"subscriptions", "charges", "timeline"}, invalidateServices),
     endSubscription |-> Mutation({"subscriptions", "charges", "timeline"}, invalidateServices),
     recordPayment |-> Mutation({"subscriptions", "charges", "timeline"}, invalidateServices)]

CostingMutations ==
    [createCollaborator |-> Mutation({"collaborators"}, {costingKeys.collaborators.key}),
     updateCollaborator |-> Mutation({"collaborators"}, {Of("costing")}),
     saveCollaboratorService |-> Mutation({"collaborator_services"}, {Of("costing")}),
     saveDealCost |-> Mutation({"costs"}, {Of("costing") \o <<"deals">>})]

PeopleMutations ==
    [invite |-> Mutation({"invitations"}, {Of("invitations"), Inbox}),
     revokeInvitation |-> Mutation({"invitations"}, {Of("invitations"), Inbox}),
     changeMember |-> Mutation({"members"}, {Of("members")})]

SettingsMutations ==
    [saveSettings |-> Mutation({"settings"}, {Of("settings")}),
     saveEmailAccount |-> Mutation({"email_accounts"}, {Of("email-accounts")}),
     downloadExport |-> Mutation({"audit"}, {Of("activity")}),
     createWorkspace |-> Mutation({"workspaces"}, {Workspaces, <<"workspaces", "pending">>}),
     cancelPending |-> Mutation({"pending"}, {<<"workspaces", "pending">>}),
     saveAccount |-> Mutation({"account"}, {<<"account-settings">>}),
     saveInstallation |-> Mutation({"installation"}, {<<"installation-settings">>}),
     inviteAdministrator |-> Mutation({"administrators"}, {<<"installation-administrators">>}),
     exportInstallation |-> Mutation({"audit"}, {<<"installation-audit-log">>})]

Mutations ==
    AllOf({DealMutations, TaskMutations, CompanyMutations, ContactMutations,
           ServiceMutations, CostingMutations, PeopleMutations, SettingsMutations})

-----------------------------------------------------------------------------
(* Screens: the queries a page always observes, those it observes while a  *)
(* view, a drawer or a role asks for them, the mutations it offers, and    *)
(* the queries it refetches itself when a mutation of a drawer is done.    *)

Screen(always, sometimes, offers) ==
    [always |-> always, sometimes |-> sometimes, offers |-> offers, refetches |-> {}]

taskDrawer == {"createTask", "updateTask", "deleteTask"}
taskDrawerReads == {"contacts", "deals", "assignees"}

Shell == {"organizations", "inbox", "organization"}

DashboardPage ==
    [Screen({"overview", "tasks", "attention", "deals", "idle_deals"},
            {"invitations"} \cup taskDrawerReads,
            {"completeTask", "reopenTask", "rescheduleTask", "addCommunication", "createTask"})
     EXCEPT !.refetches = {<<"createTask", "attention">>}]

DealsPage == Screen({"deals", "companies"}, {"tasks", "deal"} \cup taskDrawerReads,
    {"moveDeal", "archiveDeal", "deleteDeal", "createDeal", "updateDeal"} \cup taskDrawer)

DealProfilePage ==
    Screen({"deal", "tasks", "costs", "profitability"},
           {"companies", "collaborators", "collaborator_services"} \cup taskDrawerReads,
           {"archiveDeal", "updateDeal", "completeTask", "saveDealCost"} \cup taskDrawer)

TasksPage == Screen({"tasks", "companies"}, taskDrawerReads,
    {"completeTask", "reopenTask", "moveTask"} \cup taskDrawer)

CompaniesPage == Screen({"companies"}, {"assignees", "company", "contacts"},
    {"saveCompany", "archiveCompany", "addTimelineNote"})

CompanyDetailPage ==
    [Screen({"company", "contacts", "subscriptions", "timeline"}, {"assignees", "deals"},
            {"saveCompany", "archiveCompany", "addTimelineNote", "addCommunication", "createTask"})
     EXCEPT !.refetches = {<<"createTask", "timeline">>}]

ContactsPage ==
    Screen({"companies", "contacts"},
           {"contact", "contact_activity", "tasks", "company"} \cup taskDrawerReads,
           {"saveContact", "archiveContact", "deleteContact", "saveCompany",
            "addTimelineNote"} \cup taskDrawer)

ServicesPage == Screen({}, {"catalog", "subscriptions", "charges", "companies"},
    {"saveCatalogItem", "saveSubscription", "endSubscription", "recordPayment"})

CollaboratorsPage == Screen({"collaborators"}, {"collaborator_services"},
    {"createCollaborator", "updateCollaborator", "saveCollaboratorService"})

MembersPage == Screen({"members", "invitations"}, {},
    {"invite", "revokeInvitation", "changeMember"})

InboxPage == Screen({"inbox"}, {}, {"completeTask"})

SettingsPage == Screen({"settings", "email_accounts"}, {"activity"},
    {"saveSettings", "saveEmailAccount", "downloadExport"})

OrganizationsPage == Screen({"organizations", "pending"}, {},
    {"createWorkspace", "cancelPending"})

AccountSettingsPage ==
    Screen({"account", "organizations"}, {"installation", "administrators", "audit_log"},
           {"saveAccount", "saveInstallation", "inviteAdministrator", "exportInstallation"})

Inside(page) == [page EXCEPT !.always = @ \cup Shell]

Screens ==
    [dashboard |-> Inside(DashboardPage), deals |-> Inside(DealsPage),
     deal |-> Inside(DealProfilePage), tasks |-> Inside(TasksPage),
     companies |-> Inside(CompaniesPage), company |-> Inside(CompanyDetailPage),
     contacts |-> Inside(ContactsPage), services |-> Inside(ServicesPage),
     collaborators |-> Inside(CollaboratorsPage), members |-> Inside(MembersPage),
     inbox |-> Inside(InboxPage), settings |-> Inside(SettingsPage),
     organizations |-> OrganizationsPage, account |-> AccountSettingsPage]

-----------------------------------------------------------------------------
VARIABLES
    watched,   \* the query this behaviour is about
    screen,    \* the page that is open
    observed,  \* a mounted component observes the watched query
    change,    \* the mutations
    db,        \* committed writes to what the query reads
    held,      \* the writes the cached data reflects, NoData without data
    fetch,     \* NoFetch, Asked, or the writes the answer reflects
    invalid,   \* isInvalidated
    aged,      \* staleTime has passed
    acked      \* the latest write that a hook declared and that succeeded

cacheVars == <<watched, screen, observed, change, db, held, fetch, invalid, aged, acked>>

NoData == -1
NoFetch == -2
Asked == -1
Versions == 0..Cardinality(Changes)

\* What a mutation does to the watched query.
Change == [phase : {"ready", "sent", "committed", "over"}, writes : BOOLEAN, drops : BOOLEAN,
           settled : BOOLEAN, optimistic : BOOLEAN, refetch : {"none"} \cup DOMAIN Screens,
           version : Versions]
NoChange == [phase |-> "ready", writes |-> FALSE, drops |-> FALSE, settled |-> FALSE,
             optimistic |-> FALSE, refetch |-> "none", version |-> 0]

CacheTypeOK ==
    /\ watched \in DOMAIN Queries \cup {"none"}
    /\ screen \in DOMAIN Screens
    /\ observed \in BOOLEAN
    /\ change \in [Changes -> Change]
    /\ db \in Versions
    /\ held \in Versions \cup {NoData}
    /\ fetch \in Versions \cup {NoFetch, Asked}
    /\ invalid \in BOOLEAN /\ aged \in BOOLEAN
    /\ acked \in Versions

CacheInit ==
    /\ watched = "none"
    /\ screen = "dashboard"
    /\ observed = FALSE
    /\ change = [c \in Changes |-> NoChange]
    /\ db = 0
    /\ held = NoData
    /\ fetch = NoFetch
    /\ invalid = FALSE
    /\ aged = FALSE
    /\ acked = 0

Watch(q) ==
    /\ watched = "none"
    /\ watched' = q
    /\ observed' = (q \in Screens[screen].always)
    /\ fetch' = IF observed' THEN Asked ELSE NoFetch
    /\ UNCHANGED <<screen, change, db, held, invalid, aged, acked>>

-----------------------------------------------------------------------------
(* The cache.                                                              *)

\* Data that a mount or the window's focus fetches again.
Stale == held = NoData \/ invalid \/ aged

\* Observers come and go.  Without one the request is aborted: every query
\* function passes the signal on.
Observe(now, remount) ==
    /\ observed' = now
    /\ fetch' = CASE ~now -> NoFetch
                  [] now /\ observed /\ ~remount -> fetch
                  [] OTHER -> IF Stale THEN Asked ELSE NoFetch

\* A page replaces another one; the shell stays.
Navigate(s) ==
    LET q == watched IN
    /\ q # "none"
    /\ s # screen
    /\ screen' = s
    /\ Observe(q \in Screens[s].always, ~ (q \in Shell /\ q \in Screens[screen].always))
    /\ UNCHANGED <<watched, change, db, held, invalid, aged, acked>>

\* A view, a drawer or a dialog that uses the query opens or closes.
ToggleView ==
    /\ watched # "none"
    /\ watched \in Screens[screen].sometimes \ Screens[screen].always
    /\ Observe(~observed, FALSE)
    /\ UNCHANGED <<watched, screen, change, db, held, invalid, aged, acked>>

Ask ==
    /\ fetch = NoFetch
    /\ fetch' = Asked
    /\ UNCHANGED <<watched, screen, observed, change, db, held, invalid, aged, acked>>

\* refetchOnWindowFocus, when the data is stale; retry buttons; the inbox's
\* refetchInterval.
Refocus == observed /\ (Stale \/ watched = "inbox") /\ Ask

ServerReads ==
    /\ fetch = Asked
    /\ fetch' = db
    /\ UNCHANGED <<watched, screen, observed, change, db, held, invalid, aged, acked>>

Arrive ==
    /\ fetch \in Versions
    /\ held' = fetch
    /\ fetch' = NoFetch
    /\ invalid' = FALSE
    /\ aged' = FALSE
    /\ UNCHANGED <<watched, screen, observed, change, db, acked>>

\* The request and its one retry fail.
FetchFails ==
    /\ fetch # NoFetch
    /\ fetch' = NoFetch
    /\ UNCHANGED <<watched, screen, observed, change, db, held, invalid, aged, acked>>

\* staleTime, 15 s, has passed.
StaleTime ==
    /\ held # NoData
    /\ ~aged
    /\ aged' = TRUE
    /\ UNCHANGED <<watched, screen, observed, change, db, held, fetch, invalid, acked>>

\* Data nobody has observed for five minutes is dropped.
Collect ==
    /\ ~observed
    /\ held # NoData
    /\ held' = NoData
    /\ invalid' = FALSE
    /\ aged' = FALSE
    /\ UNCHANGED <<watched, screen, observed, change, db, fetch, acked>>

\* Mutant: a request under way is thought to bring the new data.
Refetched_Joined == IF fetch = NoFetch THEN Asked ELSE fetch

\* invalidateQueries starts a request over if there is data, and joins one
\* that loads the query for the first time.
Refetched == IF fetch = NoFetch \/ held # NoData THEN Asked ELSE fetch

Invalidate ==
    /\ invalid' = (held # NoData)
    /\ fetch' = IF observed THEN Refetched ELSE fetch

-----------------------------------------------------------------------------
(* Mutations.                                                              *)

Effect(m) ==
    LET q == Queries[watched]
        pages == {s \in DOMAIN Screens : <<m, watched>> \in Screens[s].refetches}
    IN  [NoChange EXCEPT
           !.phase = "sent",
           !.writes = Mutations[m].writes \cap q.reads # {},
           !.drops = \E k \in Mutations[m].drops : IsPrefix(k, q.key),
           !.settled = Mutations[m].settled,
           !.optimistic = (m = "moveDeal" /\ watched = "deals"),
           !.refetch = IF screen \in pages THEN screen ELSE "none"]

\* The user submits; moveDeal first cancels the list's request and writes the
\* card's new place into the cached list.
Mutate(c, m) ==
    LET e == Effect(m) IN
    /\ watched # "none"
    /\ change[c].phase = "ready"
    /\ e.writes \/ e.drops
    /\ change' = [change EXCEPT ![c] = e]
    /\ IF e.optimistic
       THEN /\ fetch' = NoFetch
            /\ invalid' = (invalid /\ held = NoData)
            /\ aged' = (aged /\ held = NoData)
       ELSE UNCHANGED <<fetch, invalid, aged>>
    /\ UNCHANGED <<watched, screen, observed, db, held, acked>>

\* The server's transaction.  Mutations are not retried.
Commit(c) ==
    /\ change[c].phase = "sent"
    /\ db' = IF change[c].writes THEN db + 1 ELSE db
    /\ change' = [change EXCEPT ![c].phase = "committed", ![c].version = db']
    /\ UNCHANGED <<watched, screen, observed, held, fetch, invalid, aged, acked>>

Over(c) == change' = [change EXCEPT ![c].phase = "over"]

Later(seen, c) == IF change[c].version > seen THEN change[c].version ELSE seen

\* onSuccess of the hook runs wherever the user is by now; the page's own
\* refetch only if it is still open.
Succeed(c) ==
    LET e == change[c]
        loaded == e.writes /\ observed /\ held # NoData
    IN
    /\ e.phase = "committed"
    /\ Over(c)
    /\ acked' = IF loaded /\ e.drops THEN Later(acked, c) ELSE acked
    /\ IF e.drops THEN Invalidate
       ELSE /\ fetch' = IF observed /\ e.refetch = screen THEN Refetched ELSE fetch
            /\ UNCHANGED invalid
    /\ UNCHANGED <<watched, screen, observed, db, held, aged>>

\* An error, or an answer that is lost after the write.  moveDeal puts the
\* former list back (setQueryData) and its onSettled invalidates.
Rejected(c) ==
    /\ change[c].phase \in {"sent", "committed"}
    /\ Over(c)
    /\ IF change[c].settled /\ change[c].drops THEN Invalidate
       ELSE UNCHANGED <<invalid, fetch>>
    /\ UNCHANGED <<watched, screen, observed, db, held, aged, acked>>

CacheNext ==
    \/ \E q \in DOMAIN Queries : Watch(q)
    \/ \E s \in DOMAIN Screens : Navigate(s)
    \/ ToggleView
    \/ Refocus \/ ServerReads \/ Arrive \/ FetchFails \/ StaleTime \/ Collect
    \/ \E c \in Changes :
          \/ \E m \in Screens[screen].offers : Mutate(c, m)
          \/ Commit(c) \/ Succeed(c) \/ Rejected(c)

CacheSpec == CacheInit /\ [][CacheNext]_cacheVars

-----------------------------------------------------------------------------
\* An optimistic move is under way: the list is what the user made of it.
Moving == \E c \in Changes : change[c].optimistic /\ change[c].phase \in {"sent", "committed"}

\* A list on screen that misses a change reported as done is about to be
\* fetched, or marked so that the next occasion fetches it.
WillShow(change_) ==
    observed /\ held # NoData /\ held < change_ => invalid \/ fetch # NoFetch \/ Moving

\* A change that its hook declares reaches every loaded list that shows it,
\* in whatever order other changes, requests under way, failures, navigation
\* and an optimistic move's cancelQueries and setQueryData come.
DeclaredChangesShow == WillShow(acked)
=============================================================================
