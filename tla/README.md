# Bubllio CRM: specifications and proofs

Bubllio CRM is a self-hosted CRM: a Django REST API with PostgreSQL, Celery
workers on RabbitMQ, a React frontend, and a separate Update Agent that
installs releases with Docker Compose. This directory holds TLA+ models of the
parts where order, concurrency and failure decide whether the system is right,
on the server, in the agent and in the browser, the TLC configurations that
check them, and TLAPS proofs. Paths below are
relative to the repository root.

Conventions: an action carries the name of the function it models. A property
has a comment that says what it promises. A definition such as
`Claimable_Locked`, under a comment that starts with "Mutant", is a faulty
variant of the definition that follows it; no specification uses it, and
substituting it for the real one makes TLC report the property `PROJECT.json`
names with it.

## 1. Inventory

| Component | State | Operations | Hard behaviour | What makes it correct |
|---|---|---|---|---|
| Update agent (`updater/src/bubllio_update_agent`) | SQLite job table and recorded version; `release.env`; the Compose project; process lock | `POST /v1/updates` (a thread per request), `_run_job` (a thread per job), start-up recovery | races of requests, death at any line, failing writes, a Compose child that outlives the agent | one active job; no live job marked interrupted; outcomes and recorded version tell the truth; every job ends |
| CRM Update Center (`src/onboarding/services/update_orchestration.py`, `update_agent.py`) | `InstallationUpdateRun` rows | start, resume, poll | calls lost, late or unanswered; the deployment ends the very process that asked for it; overlapping polls | no success the agent did not report; a saved job id is the right one; runs end |
| Email outbox (`src/delivery`) | `OutboxMessage` rows, RabbitMQ, Celery retries | queue, claim, send, retry, republish, release stale locks | duplicates, lost workers, lost publications, timeouts | one sender at a time; at-least-once delivery; everything settles |
| Customer services and billing (`src/subscriptions`) | subscription, charges, payments | create, patch, pay, cancel, pause, resume | decisions on unlocked reads, edits that race payments, long sequences of legal calls | no overpayment; one outstanding charge; paid history kept; renewal |
| Invitations and memberships (`src/access`) | memberships, invitations, access events | invite, resend, revoke, accept, change role, transfer, remove | roles read before the lock, acceptance against revocation | exactly one owner; one open link; nobody joins but by a link that is open |
| Setup and installation administrators (`src/onboarding/api`) | `InstallationState`, superusers | set up, invite and remove administrators | two set-ups at once, a lost answer | set up once |
| Deals (`src/deals`) | stage, order, archive flag | move, archive, restore | concurrent moves, toggles on unlocked reads | a column is totally ordered, an acknowledged move persists |
| Tasks (`src/activities`) | workflow status, completion record | update, move, complete, reopen | lost updates | completion record agrees with the status |
| Companies (`src/companies`) | rows, customer code counter | save, import, delete | concurrent saves, explicit codes | a code is never given twice |
| Contacts, costing, accounts, automation events, transfer and export, status pages | rows | create, read, update, delete, report | none of their own | validation |
| Frontend: session (`services/api.ts`, `features/auth`) | token store, shared refresh | login, logout, requests, refresh, reload | token refresh while calls are in flight, answers after a logout | a refresh token is posted once; no data of another login |
| Frontend: query cache (`features/*/hooks`, `config/queryClient.ts`) | TanStack queries and mutations | observe, refetch, invalidate, mutate | answers out of order with writes | no declared change stays hidden |
| Frontend: deal board (`features/deals`, `pages/Deals`) | lists, drag, optimistic move | drag, drop, roll back, archive | moves that overlap each other and refetches | a quiet board is the server's; cards land where they were dropped |
| Frontend: forms (27 drawers, dialogs and forms) | what was filled in, pending mutation | open, edit, submit, leave | late answers, repeated presses, dependent fields | submitted once, to its own record, with fields that belong together |
| Frontend: update screen (`features/updates`) | cached status and runs, dialog, preflight | poll, confirm, start, follow a run | outages during the update it shows, late answers | the screen shows the end of the run it tracks |
| Frontend: lists, global search | URL, debounced text, cached results, highlight | filter, turn, open, search, choose | answers to what has been changed since | owner shown is applied; results are of their scope |
| Frontend: setup wizard, invitation page (`pages/Setup`, `pages/Invite`) | steps and form, test e-mail, flows over the token store | next, back, skip, test, complete; register, sign in, accept | results of former settings, overlapping flows | what is shown is of what is set; the session is one person's |
| Scripts (`scripts`) | none | build, release, deploy | none | run in order |

How they interact:

* The Update Center calls the agent over HTTP with a key chosen by the client
  and copies the job's status when the account page polls. The agent replaces
  the containers the Update Center runs in.
* Access, accounts and onboarding write an outbox row in their own transaction;
  delivery happens later, and reads the invitation or user again.
* Companies, deals, tasks and subscriptions write timeline events of a company
  in their own transaction and read nothing of each other while they do.
* The frontend reaches the API through one axios client with shared refresh;
  pages observe queries of one cache and change the server by mutations that
  invalidate them.

`PROJECT.json` lists the components with their sources, and every hazard at its
line, with the properties that would catch it.

## 2. Modules

| Module | Models |
|---|---|
| `UpdateJob` | abstract specification: what the agent promises about jobs |
| `UpdateAgent` | the agent, in detail |
| `UpdateAgentProofs` | theorems about `UpdateAgent` |
| `UpdateCenter` | the CRM's side, composed with `UpdateJob` |
| `UpdateCenterProofs` | theorems about `UpdateCenter` |
| `UpdateScreen`, `UpdateScreenProofs` | the Update Center's screen in the browser, and theorems about it |
| `Outbox`, `OutboxProofs` | the email outbox, and theorems about it |
| `Billing`, `BillingProofs` | subscriptions, charges and payments; theorems about them, and about Update Center, its screen and billing together (`MCServer`) |
| `Membership` | roles, invitations and acceptance of one workspace |
| `Setup` | first-run setup: wizard, status query and endpoint |
| `InvitePage` | the page behind an invitation's link |
| `AccessProofs` | theorems about `Membership`, `Setup`, `InvitePage`, `Session` and the four together (`MCAccess`) |
| `Session` | token store, login, logout, interceptors |
| `QueryCache` | queries, mutations and pages of the frontend |
| `Ranking`, `RankingProofs` | finite sets put in order, and what is true of every sort |
| `DealBoard` | the board with its optimistic moves, and the endpoints behind it |
| `Forms` | drawers, dialogs and forms |
| `ListPages` | the lists of companies and contacts |
| `GlobalSearch` | the search dialog |
| `WorkspaceDataProofs` | theorems about `Forms`, `DealBoard`, `QueryCache`, `ListPages`, `GlobalSearch` and the five together (`MCWorkspaceData`) |
| `MC...` | instances for TLC |

### UpdateJob

For each idempotency key a state and a target. A key is accepted once, while no
job is active; an active job only moves forward, fails plainly only before
deployment, succeeds only from `VERIFYING`, and a terminal job never changes.
The agent is shown to implement it, and the Update Center is checked against it
in place of the agent, so that neither run has to explore both programs.

### UpdateAgent

`jobs` is the table (keys are UNIQUE), `version` the recorded version, `proc`
the life of each agent process, `reqs` the threads of the HTTP server, `worker`
the job threads, `desired` what `release.env` says, `running` what Compose
runs, `orphans` releases a dead agent's `compose up` may still bring up.
`backups` and `touched` record what jobs have done, and exist for the
properties.

* `Launch`, `AcquireLock`, `LockRefused`, `recover_interrupted`, `Interrupt`,
  `Exit`, `Crash` follow `cli.py` and `process_lock.py`. After an interrupt the
  lock is released while daemon threads of the old interpreter still run, until
  `Exit`.
* `StartLookup`, `StartVerify`, `StartPreflight`, `create_job`, `Respond` are
  the parts of a start request between which others run. `create_job` is one
  SQLite transaction.
* `run_job` is the job thread: each store write, adapter call and the exception
  handler is a step, and each adapter call may fail. With `StoreFaults` a store
  write may raise too. When the handler's own write raises, the thread dies and
  the row stays active under an agent that serves (`Abandoned`): nothing looks at
  it again before the next start of the agent.

A crash kills the threads but not a `compose up` child (`OrphanUp`). `progress`
and the events table are functions of the state and are left out.

### UpdateCenter

`runs` are the rows, `handler` the Django requests, each with its own copy of
the row as the code has it, `inflight` the start requests the agent has not
served yet, `crm` the version the CRM runs as. `StartRequest` to
`StartUnavailable` are `create_update_run` and `_resume_unacknowledged_run`;
`SyncRequest`, `PollAgent` and `SaveSync` are `sync_update_run`. A start call may
time out before (`LoseStart`) or after it is served. `Deploy` lets the agent go
on to `VERIFYING` and end all handlers in the same step.

### Outbox

`row` is the table, with ages and waits in ticks; `broker` counts the copies of
each task; `etas` are Celery's retry timers; `worker` the worker processes.
`queue_outbox_message` may lose its publication, `Claim` and `SkipTask` are the
two results of `_claim`, `CheckSubject` and `SendMail` are `_send`,
`RecordFailure` and `RecordSent` the closing updates. `KillWorker` loses a
worker anywhere, with or without redelivery, and `Tick` does not go past a task
that has reached its time limit and must be killed first. An SMTP call may fail
after the server took the email. `lapses` counts emails that left unrecorded.

### Billing

One subscription. `charge` is indexed by due date, which the database keeps
unique per subscription. Service functions lock the subscription row first, so
each is one step; views check before they call, so create, patch, pause and
cancel are two (`CreateRow`/`CreateCharge`, `ValidatePatch`/`update_subscription`,
`CheckPause`/`pause_subscription`, `CheckCancel`/`cancel_subscription`), and a
request may be lost between them with its process (Django runs without
`ATOMIC_REQUESTS`). A patch is any part of an agreement. Dates are day numbers
in a calendar of equal months, so `add_months` loses its clamping to the end of
the month; amounts are small whole gross amounts, so VAT rounding is lost.
`expire_subscription`, which nothing calls, and the waived state, which nothing
sets, have no action.

### Membership

`role` is the membership of each person, `invitation` the links issued for one
address, `request` what managers ask for, `acceptance` posts of a link. Handlers
read the actor's role before they lock, so `Checked` is one step, which keeps
that role in `as`, and `deliver_workspace_invitation`, `Revoke`, `patch` and
`delete` are the transaction under the lock. A request may fail at that point
for any reason, which covers validation, missing SMTP accounts and constraints
of the tables. The constraint of one open link per address is left out: the
handlers are shown not to need it. The one of one owner is relied on: `patch`
locks the membership it changes, so two transfers to different people lock
different rows, and it is the unique index of the owner that makes the second
fail when they overlap (it no longer finds the owner that its update waited for);
in the model each is one step, or fails.
The actors ask for what the People page
offers from lists of any age, and for transfers, which only other clients of the
API ask for. Invitations of an owner to a workspace that waits for one are left
out.

### Setup

`setupStatus` is the query by which the root layout shows the wizard; `form`,
`step`, `setup` and `emailTest` are the wizard, `post` the setups posted by it
or by others, `installed` what was committed. Whatever hides the wizard
(`LayoutFollows`) resets it; the closure that waits for its answer lives on.
`Locks` and `Commits` are the endpoint: the lock of the installation's row and
the checks, then the writes or their failure. Fields are grouped by the step
that validates them.

### InvitePage

Each click of a button starts a flow (`flow`), which is the rest of `finish` or
`signIn` after each await. `store` is whose tokens and whose user the auth store
holds. The buttons are disabled only while the latest acceptance is pending, so
flows overlap. The refresh and logout requests are in `Session`.

### Session

Token pairs are numbered in the order of their issue; `authStore` holds numbers,
`call` the requests with the token each was sent with, `refreshing` the shared
promise. `Unauthorized`, `RefreshLands` and `RefreshFails` are the response
interceptor, with the single repetition of a request. Queries are aborted when
their page goes away, mutations are not. `cached` records for which login the
server returned the pages' data: the one of the token that the request carried,
which need not be the one the page thinks of. `OwnTokens` says that the store
still holds a pair of the latest login; a refresh of the session before it,
answered late, makes it false.

### QueryCache

Entries of the cache do not influence each other, so a behaviour watches one of
them: which of 33 queries it is, is chosen in the initial state. `held` is the
number of committed writes its data reflects, `fetch` the request under way
with the number it will bring, `invalid` and `observed` are TanStack's flags.
Each mutation is a record of what its hook invalidates, declares to change and
does optimistically; each screen one of the queries it observes and the
mutations it offers.

### DealBoard

`list` is what the cache holds per view, rows with stage and place; `moves` are the
drops under way with what `onMutate` saved. `Optimistic` edits one list,
`MoveFails` rolls back into the list of the filters the hook has by then.
`DealMoveAPIView` reads the deal, `move_deal` runs later under the lock with
that copy, as the code does. Sorts and filters, in the browser and in the
database, are those of `Ranking`: the place of an element is the number of
elements before it, which says what a stable sort returns without saying how it
gets there, and can be reasoned about without recursion. Filters other than the
views, the forecast and deletion are left out.

### Forms

27 kinds, each a record: how it is closed, what a pending mutation disables,
what an answer does. A behaviour is about one kind, `Form`. `draft` keeps the
record the fields were filled from, a parent and a dependent child, and a count
of other edits. `Press`, `Served` and `Answer` are the mutation; a request may be
carried out and its answer be lost (`unseen`), which the user sees as an error.

Most drawers are opened by their page for a record that cannot change while they
are open, or only with the drawer. Some show the record of their page's route or
search parameter and have no key (`Routed`): the drawers of deals and contacts,
the dialog of companies, and what the panels of those pages open. The global
search, which listens on the window, and the browser's history change the
parameter behind them. If the other record is cached, the form stays mounted
with the fields of the first one and the mutation of the second (`ShowAnother`);
if it must be loaded, the form goes and, when it was the page's, comes back for
the other record (`Unload`, then `OpenForm`). `EmailAccountForm` gets another
connection by the page's own button. `LeavePage` is the way to another route.

### UpdateScreen, ListPages, GlobalSearch

`UpdateScreen` has the status and run queries with their polling conditions, the
preflight, the confirmation reducer and the start; the server is reduced to what
the screen reads of it. A tab in the background does not poll (TanStack's
default), and polls again when it is shown: the model's tab is shown. `ListPages` has the URL's search, the debounced text, the
page of rows and the menus of a row. `GlobalSearch` has the reducer, the results
cached per scope and text, and the highlight.

Buttons that are "disabled while pending" are taken to be disabled from the
press on: React renders before the next click is handled.

## 3. Runs

Components that share nothing are checked in one run: a variable chosen in the
initial state says which of them a behaviour is about. Where fairness is
assumed, the others rest in a state in which none of their fair actions is
enabled.

| Run | Shows |
|---|---|
| `agent` | 2 keys, 2 racing requests, 2 supervised processes, 1 stop anywhere, failing store writes: `OneActiveUpdate`, `InFlightNeverInterrupted`, `OutcomesAreHonest`, `RecordedVersionIsRunning`, `RepliesMatchTheirKey`, and that the agent implements `UpdateJob` |
| `server` | Update Center with 2 requests, 2 keys, lost and late calls, a crash: `NoFalseSuccess`, `AcknowledgedRunsHaveTheirJob`. Billing with 4 due dates, 2 requests, 3 kinds of patch: `NeverOverpaid`, `OneOutstanding`, `PaidHistoryIsKept`, `StoppedServicesAreNotBilled`. Update screen with 2 releases, one run, requested here or by another administrator, 2 visits: that what it caches, shows and tracks are runs that were requested (its type invariant) |
| `progress` | Outbox with 2 rows, 2 workers, up to 2 lost workers: `OneSender`, `DeliveryIsAtLeastOnce`, `EveryMessageSettles`; Update Center: `AcknowledgedRunsEnd` |
| `update_progress` | liveness: `EveryJobEnds` of the agent, with store writes that fail at any line and 2 stops anywhere; `TrackedRunsSettle` of the screen, with 2 runs and an outage |
| `access` | Setup with 2 posts: `OneInstallation`, `TestShownIsOfTheSettings`. Membership with an owner, an administrator and an invited person, 2 links, 2 requests, 2 acceptances: `OneOwner`, `OneOpenLink`, `ClosedLinksStayClosed`, `MembershipsComeFromOpenLinks`, `AdminInvitationsAreTheOwners`. Invitation page with 3 flows: `SessionIsOnePersons`. Session with 3 token pairs: `RefreshTokensArePostedOnce`, `DataIsOfThisLogin` |
| `workspace_data` | Query cache with 2 mutations, every query: `DeclaredChangesShow`. Board with 2 deals, 2 stages, 2 views, 2 requests: `QuietListsAreTheServers`, `MovesLandWhereShown`. Forms, every kind, 2 submissions, 2 openings: `SubmittedBelongTogether`, `CarriedOutOnce`. Lists with 2 rows, 2 pages: `OwnerShownIsApplied`. Search: `ResultsAreOfTheirScope` |
| `agent_downgrade` | counterexample: an older release is installed over a newer one |
| `center_stuck` | counterexample: a run without a job id stays active for ever, replays included |
| `billing_renewal` | counterexample: a charge settled by a price edit is not followed by the next one |
| `session_logout` | counterexample: a logout leaves a valid refresh token |
| `session_clear` | counterexample: a late refresh puts tokens into the store that a logout cleared |
| `deal_moves` | counterexample: an acknowledged move leaves the deal elsewhere |

`agent`, `server`, `access` and `workspace_data` check the type invariants of
their modules too, joined in one where several components share the run. Run one
with `tlc -config Access.cfg MCAccess`; each takes up to four minutes with two
workers.

What four of the properties say, and do not say:

* `EveryJobEnds` has an exception, hazard `service.py:134`: a job whose
  exception handler could not write its row is not ended by the agent that
  serves. The property says that this is the only one, and that whatever is
  active once no agent serves is ended when the agent is started again.
* `DataIsOfThisLogin` holds as long as the store keeps the latest login's own
  tokens. Without `OwnTokens` it is false, as hazard `api.ts:77` says.
* `SubmittedBelongTogether` says that a child belongs to its parent in every
  form, and that the fields are those of the record they are saved to in every
  form but those that follow the record of their page. There the second is false
  (hazard `DealProfilePage.tsx:357`).
* `CarriedOutOnce` does not promise that a repeat is recognised: the server
  cannot tell. It says that two requests of one mutation of one opened form are
  carried out only if the user was told that one of them had failed.

### Bounds

Two keys and two requests are what a race between starts needs: the same key
with different targets, or different keys. `update_progress` has one request and
one process, which is launched again after each of two stops: the second stop
meets the recovery of the first or a later job. Versions 1, 2 and 3 give an upgrade
that another upgrade overtakes. One stop meets every line of a job; a second
process is needed to recover it. In the outbox, two workers are what a double
claim needs, `MAX_ATTEMPTS` 3 gives two retries and a last attempt, `TIME_LIMIT`
1 below `LOCK_TIMEOUT` 3 keeps the order of 120 s and 15 min, two copies in the
broker are a duplicate, and two workers may be lost. Rows share nothing but the
workers, so one live row and one legacy row stand for more. In billing, four due
dates allow a paid charge, one paid ahead, one open and a quarterly jump over
both; a price can rise, fall to nothing and leave a partial payment above it.
`LastDate` and `MaxAmount` cut behaviours off and add none.

In `access`, two posts are two set-ups at once or one repeated after a lost
answer; two requests and two acceptances give each race between two of them
under one lock, and two links a replacement. Three flows are a login that is
overtaken by a registration and a third. In the frontend, two mutations are what a rollback or a late answer needs; two deals
and two stages give moves within a lane and between lanes; two openings of a
form meet a late answer of the first; three token pairs are a login, its
refresh and another refresh or login; two pages and two rows are a page that
vanishes and a menu of another row.

The proofs of section 5 lift these bounds for every property they state.

Runs that stop at a bound, where the program may also have nothing left to
do, switch the deadlock check off. `agent` checks for deadlock.

### Fairness

* Agent: adapter calls have timeouts, so a job thread goes on (`WF`), by its next
  line or by the exception handler; the service definition of `updater/README.md`
  starts the agent again after it stops. A death can happen any time but the run
  has finitely many. A failing store write is never fair or excluded: it may
  happen at each line of a job, the handler's included.
* Update Center: handlers run to their end because every call has a timeout; the
  agent ends its jobs, which `EveryJobEnds` shows, an abandoned one when it is
  started again; the account page polls an
  active run every two seconds, and polls get through again and again (`SF`).
  `RetrySpec`, under which `center_stuck` still fails, adds a client that retries.
* Update screen: the queries poll by their `refetchInterval`, the server answers,
  jobs end (`WF`), and outages are finitely many. That the tab is shown again and
  again is part of it: in the background the polls pause. No user action is fair.
* Outbox: Beat runs `dispatch_pending_outbox` every minute, workers go on with
  what they hold, and a task in the broker is claimed in the end (`SF`, because a
  row's lock disables the claim now and then).
* Nothing else promises anything that needs fairness.

## 4. Findings

1. `agent_downgrade`: `start` compares the target with the installed version,
   then verifies and preflights for seconds; `create_job` does not compare again.
2. `center_stuck`: a replay is validated against the running version before the
   key is looked up, so once the target runs no replay recovers the run.
3. `billing_renewal`: a total edited down to what was paid settles the charge
   outside `record_payment`, and the renewal chain stops.
4. `session_logout`: a logout answered with 401 refreshes, which rotates the
   refresh token, and then blacklists the one it has just used up.
5. `session_clear`: the continuation of a shared refresh stores the new pair
   without asking whether there is still a session; when a logout whose own
   request failed has cleared the store, the tab holds valid tokens again.
6. `deal_moves`: `move_deal` compares its target with a copy read before the
   lock; a move back to where the deal was in that copy writes nothing and is
   answered with success.

Remarks, seen in the models and stated by no document of the repository:

* The agent's process lock is released before daemon threads end; a supervisor
  that waits for the old process (`Supervised`) hides this.
* An unanswered first start marks the run failed; the agent may still serve it.
* A copy of an outbox task that is already in the broker is claimed before the
  delay of the failure that was just recorded: `_claim` does not read
  `available_at`. The outbox compares the attempt limit only when a send raises, so attempts lost
  with their worker are not limited by it.
* `useDeals.ts:71` leaves the cards of a lane twice in the optimistic list until
  it is read again.
* `docs/contributing.md:121` says tokens stay in memory; `authStore.ts` keeps them
  in `sessionStorage`.
* `pause_subscription` does not look at the status again under the lock: a service
  that was cancelled in between becomes paused and can be resumed.
* Charges paid ahead are open, so cancel and pause mark them cancelled and resume
  reopens only the first; a service paused before its first period is resumed
  without a charge.
* The forms that follow their page have no key: the search or the browser's back
  button shows another record under them, which then gets the fields of the first
  (`DealProfilePage.tsx:357`, `CompanyDetailPage.tsx:203`, `ContactsPage.tsx:201`,
  the panels on those pages); `EmailAccountForm` does so by the page's own button.
  The confirmations whose mutation belongs to the page close whatever record they
  are open for when a late answer arrives.
* A refresh of a former session that is answered after another user has logged in
  replaces that user's tokens (`api.ts:77`): the pages then fetch the former
  user's data under the new user's name.
* A create whose answer was lost is carried out again when the user repeats it: no
  request carries a key by which the server could tell.
* A job whose exception handler cannot write its row stays active while the agent
  goes on serving, and blocks every further update until the agent is started
  again.
* In the 300 ms after a change of the search text a list is turned and opened with
  the rows of the text before; the same holds for Enter in the global search.
* `startUpdate.data` stays until the screen is left, so that no further update is
  offered after a start of one's own.
* A former owner's transfer that was checked before its own demotion still goes
  through; one owner remains.
* `InvitePage.tsx:86`: when the current user cannot be read after a registration,
  the session is cleared and no error is shown.

## 5. Proofs

`UpdateAgentProofs`, for every set of keys, versions, request threads and
processes, every manifest and any number of stops. Assumed are only the typing
assumptions of the constants that `UpdateAgent` names and, for the theorems
marked *, `Supervised`: no agent is launched while an interrupted one lingers.

| Theorem | Establishes |
|---|---|
| `TypeCorrect` | `TypeOK` |
| `OneActive` | `OneActiveUpdate` |
| `RepliesMatch` | `RepliesMatchTheirKey` |
| `Invariance`* | the inductive invariant `Inv` |
| `NeverInterrupted`* | `InFlightNeverInterrupted` |
| `HonestOutcomes`* | `OutcomesAreHonest` |
| `RecordedIsRunning`* | `RecordedVersionIsRunning` |
| `Refinement`* | `ImplementsContract` |

`OneActiveUpdate` is inductive given types: `create_job` and the partial index
refuse a second active row, marks keep an active row's key, and recovery ends
them all. `InFlightNeverInterrupted` is not inductive: it must be known that
recovery meets no live worker. Hence `OneLiveProcess` (one process holds the lock
or lingers), and `OwnedReqs` and `OwnedWorkers` (busy threads belong to a process
that serves or closes), so that during recovery there is no worker at all.
`Phases` ties each program counter of a worker to the row it last wrote, and
`Deeds` to the backup and the write of `release.env`; together they give
`OutcomesAreHonest`. `Refinement` takes each step with `Inv` before it to a step
of `UpdateJob` or to a stutter. `RecordedIsRunning` adds `StackFollows`: while no job
waits for an operator, `release.env`, the running release and the recorded
version are equal outside deployment, and inside it follow the worker; an
orphaned `compose up` exists only for a job that is deploying without a worker,
which recovery hands to the operator.

`AccessProofs`, first of `Membership`, for any number of people, links, requests
and acceptances, under the typing assumptions of the constants alone:

| Theorem | Establishes |
|---|---|
| `MembershipTypes` | `MembershipTypeOK` |
| `AlwaysOneOwner` | `OneOwner` |
| `AlwaysOneOpenLink` | `OneOpenLink` |
| `LinksStayClosed` | `ClosedLinksStayClosed` |
| `MembersUseOpenLinks` | `MembershipsComeFromOpenLinks` |
| `OwnersInviteAdministrators` | `AdminInvitationsAreTheOwners` |

The types are not inductive alone: a request's role ends up in an invitation or
a membership, so it must be known what its first reads let through
(`RequestsAreChecked`, `AcceptancesAreOfLinks`). The counts are stated without
cardinalities, as one person who is the owner (`SoleOwner`) and as two open links
being the same (`SoleLink`), and turned into cardinalities at the end. Nothing
about the role at the moment of the lock is needed: one owner remains although a
request may act with a role that its actor has lost.

Of the set-up, the invitation page, the session and the four together, for any number
of setups posted, flows, users, calls and token pairs:

| Theorem | Establishes |
|---|---|
| `WizardTypes` | `SetupTypeOK` |
| `SetUpOnce` | `OneInstallation` |
| `TestsAreOfTheForm` | `TestShownIsOfTheSettings` |
| `InvitePageTypes` | `InviteTypeOK` |
| `StoreNamesOnePerson` | `SessionIsOnePersons` |
| `SessionTypesHold` | `SessionTypeOK` |
| `OnePostPerToken` | `RefreshTokensArePostedOnce` |
| `ShownToItsUser` | `DataIsOfThisLogin` |
| `RunIsOfEveryPart` | `AccessSpec => SetupSpec /\ MembershipSpec /\ InviteSpec /\ SessionSpec` |
| `AccessTypes` | `AccessTypeOK` |

`OneInstallation` needs that the row's lock has one holder and that it holds it
only while nothing is installed. `TestShownIsOfTheSettings` also holds of a test
that has no answer yet. `StoreIsSettled` is stronger than `SessionIsOnePersons`:
tokens and user agree whenever no flow is between writing the one and the other.

A refresh token may still be posted while the store has it, and may come back
to the store from a login that reads its user. `Budget` adds these to the posts
made, and the sum never exceeds one, or two for a login's own token. It rests on
`History` (pairs are numbered in order, and stem from logins) and `TokensKnown`
(what a refresh brings is unused). `DataIsOfThisLogin` is about tokens, so its
invariant `DataInv` follows them: while the store's are the latest login's own, so
is every token that a page's request carries and can still be answered for
(`Served`, `Carried`), and a shared refresh that such a request waits for is one of
that login's (`TokensOfTheRefresh`). What is cached was then returned to the
latest login, or the store names nobody.

`OutboxProofs`, for any rows, workers, kinds, copies in the broker and lengths of
the timeouts with `TIME_LIMIT < LOCK_TIMEOUT`:

| Theorem | Establishes |
|---|---|
| `OutboxTypesHold` | the types, without the bounds of the run |
| `AlwaysOneSender` | `OneSender` |
| `AlwaysAtLeastOnce` | `DeliveryIsAtLeastOnce` |
| `SentIsFinal` | a row that is sent stays sent, and no further email of it leaves |

`OneSender` needs `WorkersHoldTheirRow`: the row of a task is `processing` and its
lock is as old as the task, so that a lock that is stale has no task left.
The count of emails needs `TasksKnowTheirMail` and `MailsAreRecorded`: of the
emails that left, all but the unrecorded ones belong to a row that is sent or to
a task that is about to record it. The delay before a retry is an exponential
with a ceiling; nothing else is assumed of it.

`UpdateCenterProofs`, for any keys, versions, handlers and crashes, on top of
`UpdateJob`:

| Theorem | Establishes |
|---|---|
| `CenterTypes` | `CenterTypeOK` |
| `SuccessIsTheAgents` | `NoFalseSuccess` |
| `RunsHaveTheirJob` | `AcknowledgedRunsHaveTheirJob` |
| `WithinTheContract` | `Spec => JobSpec`: what the agent is asked for keeps the contract that `Refinement` proves of `UpdateAgent` |

Handlers save copies of a row they read without a lock. `Knows` says what such a
copy is still good for: its target is the row's, a job id it holds or was
promised is of a job for that target, and a success it read stays one
(`JobsAreKept`, the contract's part in the argument). `MessagesAreAwaited` ties a
request in flight to the handler that waits for it.

`BillingProofs`, for any agreements, patches, currencies, amounts and number of
requests:

| Theorem | Establishes |
|---|---|
| `BillingTypes` | `BillingTypeOK` |
| `ChargesAreNotOverpaid` | `NeverOverpaid` |
| `OnlyTheLastIsOwed` | `OneOutstanding` |
| `PaidRowsAreKept` | `PaidHistoryIsKept` |
| `OnlyActiveServicesAreBilled` | `StoppedServicesAreNotBilled` |
| `RunIsOfEach` | `ServerSpec => Spec /\ BillingSpec /\ ScreenSpec` |
| `ServerTypes` | `ServerTypeOK` |

`RunIsOfEach` carries these theorems, and those of `UpdateCenterProofs` and
`UpdateScreenProofs`, over to the run that checks the three components together.

`OneOutstanding` is proved as `LatestOwes`: no open charge follows one that is
owed. It is not inductive: a creation between its two inserts would break it if
anything else could charge, hence `CreationIsAlone`.

`RankingProofs`, for any finite set and any strict total order of it:

| Theorem | Establishes |
|---|---|
| `ArrangedIsTheOne` | one sequence only has the members of the set in that order: what any sort returns |

with the lemmas the next two modules rest on: every place is taken once
(`RankIsAPlace`), the arrangement follows the order (`ArrangedInOrder`), and what is
picked from a list are its elements at the chosen places (`PickedOfTheList`). The
cardinalities of the places before each place stand in for an induction over
the list.

`UpdateScreenProofs`, for any runs, versions, outages and visits. `ScreenAssumption`
says that there is a release to show (`MaxVersion # 0`):

| Theorem | Establishes |
|---|---|
| `ScreenTypes` | `ScreenTypeOK` |

It says that the runs the screen knows have been requested and are cached under
their own id. That is inductive with the same for what is still on its way
(`AnswersAreOfRuns`): the answers of the two queries and of the start, whoever
reads them later.

`WorkspaceDataProofs`, for any number of submissions, openings and edits of each
of the 27 forms; any deals, stages, views and moves; each of the queries,
screens and hooks with any number of mutations; and any rows, pages and answers:

| Theorem | Establishes |
|---|---|
| `FormsTypesHold` | `FormsTypeOK` |
| `SubmissionsBelongTogether` | `SubmittedBelongTogether` |
| `RepeatsFollowALostAnswer` | `CarriedOutOnce` |
| `QuietBoardIsTheServers` | `QuietListsAreTheServers` |
| `BoardTypes` | `BoardTypeOK` |
| `CardsLandWhereShown` | `MovesLandWhereShown` |
| `CacheTypesHold` | `CacheTypeOK` |
| `DeclaredChangesAreShown` | `DeclaredChangesShow` |
| `ListsTypes` | `ListsTypeOK` |
| `OwnerIsAskedFor` | `OwnerShownIsApplied` |
| `SearchTypes` | `GlobalSearchTypeOK` |
| `ResultsAreOfScope` | `ResultsAreOfTheirScope` |
| `RunIsOfEveryPart` | `WorkspaceDataSpec => CacheSpec /\ BoardSpec /\ FormsSpec /\ ListsSpec /\ GlobalSearchSpec` |
| `WorkspaceDataTypes` | `WorkspaceDataTypeOK` |

The forms' proof rests on two facts of the inventory, checked dialog by dialog:
a pending mutation disables its own button, and a form with a child has a
parent. `RepeatedUnanswered` then says: of two requests that were or may still be
carried out for one mutation of one instance, one is over without an answer; a
success that was answered has closed the form.

The board: while no mutation is under way and no archive has failed (`Quiet`),
an unmarked list is the server's, and so is an answer on its way. It is
inductive because rows change only during a mutation, and the end of every
mutation marks all lists and asks anew; the property's condition that no request is
under way turns out not to be needed. What a list holds (`Listed`, with its sort)
enters only as a function of the rows.

`BoardTypes` is where the lists themselves are proved about, a lemma for each operator
that says what its value is made of (`WithoutADeal`, `LaneOfTheList`,
`InsertedByElements`, `OptimisticByParts`, `RenumberedRows`). The types are
inductive with what the handlers rely on (`BoardData`): cards are dragged in the
active view, mutations under way are of a deal, and the copy with which a move
waits for the lock is not of an archived deal.

`CardsLandWhereShown` compares the browser's computation with the server's on a
board that is as it was loaded. `OthersOfTheAnswer` has the other cards in the
server's order; the lane is picked from them by the order of the cards, the
server's by the order of the rows, and both are the one arrangement of the same
deals (`SameLane`, by `ArrangedIsTheOne`). The card goes in at the same index
(`SamePlaces`), each deal of the lane is last shown at its place there, each other
where it was (`ShownPlaces`), and those are the rows `move_deal` writes and the ones it
leaves alone (`RenumberedRows`). That the copy is the row as it is under the lock
is used once, and needed: finding 6 is what happens without it.

For the lists, an owner in the URL excludes the views that name an owner
themselves. What the search lists is of its scope because everything cached under
a key is of that key (`ResultsAreTrue`), also what arrives after the scope has
changed: an answer is stored under the key that was asked for, which is the
observed one (`SearchedIsObserved`), and grouping adds nothing.

The cache: `fetch` is never older than what was acknowledged, because
`invalidateQueries` starts a request over once there is data; data that is older
is marked, unless an optimistic move is under way; and such a move invalidates
the list it wrote into, however it ends (`OptimisticSettles`). The last is read off
the inventory: `moveDeal` is the one hook with `onSettled`, and its key is a
prefix of the list's. `db` is bounded by the mutations committed so far.

Only model-checked:

* Liveness (`EveryMessageSettles`, `AcknowledgedRunsEnd`, `EveryJobEnds`,
  `TrackedRunsSettle`): fairness and `ENABLED` are out of the prover's reach.

Every invariant and every action property that a passing run checks is stated by a
theorem; those of a component hold of the run that joins it with others by the
theorems `RunIsOf...`. Where the code orders, filters or counts, the models say so
without recursion, so that no property had to be left to the runs for that reason.

## 6. Not modelled, and the plan

Next, if the project is continued:

1. `CustomerCodes`: the counter under generated, explicit and deleted codes.
2. `Tasks`: the workflow and its completion record.
3. Invitations of owners and the list of installation administrators.
4. Calendar and VAT arithmetic of billing as operators with a reference
   definition.

Proofs: of `Billing`, that the calendar operators agree with a reference definition;
liveness, once the prover handles fairness.

Left out for good: rendering and wording, the dashboard and record profiles
(views of queries `QueryCache` has), Docker, SMTP, PostgreSQL and RabbitMQ
beyond what the code relies on, signature checking (its outcomes are kept),
read-only reports, copies of data to and from files, and build scripts.
