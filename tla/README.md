# A verification project for the MIE open source server

TLA+ models of the *create-a-container* manager (its API, its pages, its start-up), of
its job runner, its background scripts and the site agent, checked with TLC, and
theorems about several of them checked with TLAPS. Every definition is translated from the code; `PROJECT.json`
maps each definition to its lines, lists the runs, the mutants that show a property
can fail, the hazards and the theorems. Paths below are relative to
`src/create-a-container/` unless they begin with `src/`.

1. [Inventory](#1-inventory)
2. [Plan](#2-plan)
3. [Modules](#3-modules)
4. [Runs, bounds and what they show](#4-runs-bounds-and-what-they-show)
5. [Fairness](#5-fairness)
6. [Proofs](#6-proofs)
7. [Disagreements between the code and what is said of it](#7-disagreements)
8. [Not modelled](#8-not-modelled)

## 1. Inventory

The manager is an Express application on a PostgreSQL (or SQLite) database. It never
touches a node by itself for a long operation: it inserts a row into `Jobs`, a
separate *job runner* process claims it and spawns a script, and the script talks to
the database, the node (Proxmox or Docker) and Cloudflare. Each site has an *agent*
that polls the manager for the configuration of nginx and dnsmasq. All
synchronisation is through the database; there are no queues and almost no locks.

```
 browser --POST/PUT/DELETE--> web server --Job row--> Jobs <--claim-- job runner
    ^                           |    ^                 ^                  | spawn
    |<------ SSE stream --------+    | status          | status, output   v
    |                                |            create-/reconfigure-container.js
    |                           Containers <-----------+----> node, DNS
 agent (timer) --check-in, ETag--> web server --configuration--> nginx, dnsmasq
```

| Component | State it keeps | Operations | What is hard | What makes it correct |
|---|---|---|---|---|
| **Job runner** `job-runner.js`, `models/job.js` | `Jobs.status`; in memory the children map and the handlers in flight | claim a pending row under `FOR UPDATE`, spawn, append output, `error`/`close` handlers, shutdown on a signal, restart | several runners; handlers with awaits; crash between claim and spawn; signals at any time | a command is spawned at most once; a verdict is that of the process and never changes; first come first started; a job ends or is explainably orphaned |
| **Containers API** `routers/api/v1/containers.js` | `Containers` rows with their services | POST (row and job in one transaction), PUT (load, transaction, maybe a job), DELETE (DNS, node, row) | each handler awaits between its steps; none waits for the row's jobs | a row describes its own guest; nothing leaks; nobody else's guest is destroyed |
| **Creation job** `bin/create-container.js` | the guest, the row's id, address and environment | about ten remote calls, each of which may fail | no undo, stale copy of the environment, VMIDs that are not reserved | the outcome that is shown is what exists |
| **Reconfiguration job** `bin/reconfigure-container.js`, `utils/*-api.js` | the guest | apply configuration, stop, start, record | on Docker configuring deletes and re-creates | a newer environment is not undone; the guest stays reachable |
| **Live status** `utils/container-status.js` | none (derived) | one snapshot per node combined with rows and creation jobs read before | sources that change independently while the answer is computed; ids shared by a cluster and given out again | each status was true at some moment of the computation |
| **Site agent** `src/agent/src`, `routers/api/v1/agents.js` | `state.json`, the managed files, what the services have loaded; on the manager the reported results | check-in with ETag; per service render, stage, test, roll back, reload, second reload; save | the process may die anywhere; calls are lost; configuration changes meanwhile | the report is true; the last known-good configuration stays in force; the agent catches up |
| **Job API and log stream** `routers/api/v1/jobs.js`, `JobDetailPage.tsx` | `lastId` per stream; the page's lines | poll each second (overlapping), end on a final status; backfill | appends become visible out of order; rows read before the status | the page shows a prefix without holes; a stream ends after everything was sent |
| **Resource requests** `routers/api/v1/resource-requests.js`, `models/resourcerequest.js` | request rows | POST (with automatic approval), approve, deny; `getApprovedResources` for a creation | check-then-update without a lock; a job for each approval | only approved values reach a guest; the last approval is in force; a decision is final |
| **Accounts** `routers/api/v1/auth.js`, `users.js`, `groups.js`, `models/user.js`, tokens | users, group membership, single-use tokens | register, sign in through a provider (find, link, provision), create, edit, delete, invite, reset | every handler is a chain of queries without a transaction | the first user runs the manager; an identity is one account; a link in a mail works once |
| **Sessions and sign-in** `app.js`, `middlewares/api.js`, `lib/api.ts`, `lib/auth.ts`, `RequireAuth.tsx`, `LoginPage.tsx` | the session store, the cookie; per tab a token cache, a session query, a page | sign-in, the provider's redirects, sign-out, mutations behind a token | tabs share the cookie and not the caches; answers and redirects overlap | a mutation carries its session's token; who signs out stays signed out |
| **Container pages** `ContainerFormPage.tsx`, `ContainersListPage.tsx`, `CollaboratorsManager.tsx`, `docker-registry.js` | form fields, the query cache | choose an image, load its metadata, ask for resources, submit; list, filter, edit, share, delete | requests under way while fields change; what an invalidation covers | what is submitted belongs to the image; what is typed survives; a list hides nothing one has done |
| **Services, ports, hostnames, DNS** `containers.js`, `models/*service.js`, `utils/cloudflare-dns.js` | service rows with unique ports and hostnames; A records | POST and PUT (one transaction each), DELETE; DNS calls before the commit | reads outside the transaction, locks between transactions, failures that are only warnings | records follow services; a request is refused for a reason of its own |
| **Node clients** `utils/proxmox-api.js`, `docker-api.js`, `dummy-api.js` | tasks of a node, its image files | pull, create, start, stop; `waitForTask` | a task outlives the wait for it; locks; a tag moves | a guest is made from its tag's image, and runs when all is over |
| **Nodes, sites** `routers/api/v1/nodes.js`, `sites.js` | rows | create, import a cluster, delete | counts that are checked before and not when deleting | no row goes with its node; each stands for a guest of its own node |
| **Administrators' forms** (nodes, sites, domains, users, groups, settings) and their PUTs | one form, one row | load, type, save all fields | refetches reset the form; other administrators | what is typed and saved is not taken back |
| **Start-up** `utils/migrate.js`, `server.js`, migrations | an advisory lock, the schema, session secrets | lock, migrate, unlock, read or make a secret | several processes; deaths and broken connections in between | one migrates; who serves has the whole schema; restarts sign nobody out |
| **API keys, tool proxy, landing site, images, CI** | single rows; none | - | - | - |

The forty hazards at their lines are in `PROJECT.json`; each has a property that
would fail if the hazard went wrong, but for one (a systemd job that never ends), where the
model states what it assumes instead.

## 2. Plan

Order: by how much depends on the component and how little a test reaches of it. All of
these are done and checked; what is proved is in section 6.

1. `JobLifecycle`, `JobRunner`, `JobRunner_proofs`: every other promise rests on the
   job table.
2. `Provisioning`, `Provisioning_proofs`: API, both scripts, both kinds of node, status.
3. `KnownGood`, `AgentApply`, `AgentApply_proofs`.
4. `JobStream`, `JobStream_proofs`.
5. `ResourceRequests`, `ResourceRequests_proofs`.
6. `Accounts`, `WebSession`, `SignIn_proofs` (about both): who is who.
7. `ContainerServices`, `NodeTasks`, `LiveStatus`: what `Provisioning` abstracts of a
   container's services, of the node's tasks and of the status of a list.
8. `ContainerForm`, `ContainerPages`, `AdminForms`: the pages over their query cache.
9. `Inventory`, `Startup`.
10. `MCPlatform`: the modules of 6 to 9, which share no state, in one run.
11. `Server_proofs` (about `Inventory`, `Startup`, `LiveStatus`, `NodeTasks`) and
    `Console_proofs` (about `ContainerForm`, `ContainerPages`, `AdminForms`,
    `ContainerServices`).

Left for later: a second agent process in `AgentApply`; `JobLifecycle` in place of the
runner in `Provisioning` and `JobStream`, whose own treatment of `status` (any job is
started, settled by its exit, or cancelled once) is an instance of it and could be stated
as such. A further disagreement to be shown by a run:
`resourcerequest.js:25-26` promises the most recent approved value, which line 40 does not
return when it is 0.

## 3. Modules

State and actions carry the code's names where there are any. Variables marked
*history* in a module are not state of the program: they record which accident or
race has happened, so that a property can say exactly when it is promised.

### JobLifecycle, JobRunner, MCJobRunner

`JobRunner` is `job-runner.js` statement by statement, at the granularity of its
awaits. `status`, `created`, `ahead` are the table (a row is *staged* until the
inserting transaction commits; `createdAt` comes from the inserter's clock);
`pc`, `snap`, `got` are a runner's claim transaction; `proc`, `starts` the processes
and the number of `spawn()` calls; `handler` the position of the `error` and `close`
handlers of each child; `shut`, `todo`, `cur` the shutdown loop; `up` whether a runner
lives.

| Code | Actions |
|---|---|
| `Job.create` in a request's transaction | `InsertJob`, `CommitJob` |
| `claimPendingJob` (`SELECT ... FOR UPDATE`, re-check, update, commit) | `ClaimSelect`, `ClaimLock`, `ClaimSkip`, `ClaimCommit`, `ClaimError` |
| `runJob` | `Run` (`Spawn` or `SpawnFails`), `SpawnThrows` |
| child events and handlers | `ChildExit`, `CloseEvent`, `HandlerAppend`, `HandlerRead`, `HandlerWrite`, `HandlerError` |
| `shutdownAndCancelJobs` | `Signal`, `ShutKill`, `ShutMark`, `ShutMarkError`, `ShutWait`, `ShutExit` |
| process death, systemd's restart | `Crash`, `Start` |

`JobLifecycle` is what a reader of the table may rely on: a job is submitted, started,
executed at most once, and ends in its verdict or in a cancellation, which the verdict
of a command that ended during the shutdown may replace. `JobRunner` implements it
under `state <- VisibleStatus`, `executions <- starts`.

### Provisioning, MCProvisioning

One state machine for what happens to container rows: `row, name, cid, addr, env` are
the columns; `guest`, `issued` the node; `dns` the A records; `st, pc, mem, want` the jobs
(creation `<<c, 0>>`, restarts `<<c, k>>`) and the scripts' local variables; `del`, `put`
the handlers under way. `docker` chooses the kind of node: a Proxmox node gives out
the lowest free id and does not reserve it, a Docker node invents ids and changes them
on every configuration. Each step of `create-container.js` and of
`reconfigure-container.js` is an action, each remote call may fail (and the script
exits), and each script may be killed with its runner. A guest's environment is a
version number (0: what the image has); `newest` remembers the version the user stored last,
`want` the version a row had when a reconfiguration of it was queued (both *history*).
`Status` is `decideStatus`.

Abstracted: the image, template and storage calls (one step), services (one HTTP
service with one record), the wording of statuses. The runner is reduced to starting
jobs and settling them as their scripts exit, which is what `JobLifecycle` allows.

### KnownGood, AgentApply, MCAgentApply

`Start` is the timer together with `State.load`; `CheckIn`, `CheckInFails` the request;
`Compare`, `Stage`, `Test`, `Undo`, `Reload`, `Rollback`, `ReloadAgain` are
`applyService`, for nginx and then for dnsmasq; `Save` and `Write` the in-place write of
`state.json` (a death in between leaves it torn); `Dies` may happen before any step.
`disk` is what is written, `loaded` what the running service has read: these differ
exactly when the code has staged and not reloaded, or has reloaded by SIGHUP what needs
a restart. A configuration is a function from managed files to contents; templates are
deterministic, so the rendered contents are its identity, and so is its ETag.

`KnownGood` is what a service that the agent configures may rely on, without files, stages and passes:
it is given a version of an offer, whole and tested (*Accept*), or hears nothing of it (*Refuse*,
*Confirm*); one that does not come up (*Fail*) is next of all brought back (*GoBack*) with the version it last came up
with; and what is said of it is how its latest attempt ended. `AgentApply` implements it up to the second
mishap, with a service's version being its files: `running` what it has read, `good` the files the agent
could restore (the former ones, from `Stage` to the end of the attempt), `trying` the service between
a failed reload and the reload of the restored files.

### JobStream

The runner appends output rows without awaiting them, each `INSERT` becomes visible when
it does; the stream handler's polls (`setInterval`, an async callback) overlap, read at most `Limit` rows
after `lastId`, send them, set `lastId`, read the status and end; the page merges
stream and backfill, of `BackfillLimit` rows at most, by replacing. A row is its number in the order of calls. TLC runs
the module itself: its constants are all numbers.

### ResourceRequests, MCResourceRequests

One (site, hostname, owner) and one type of resource. `Post` approves at once for
administrators and for values up to the default. A review is `ReviewLoad`, `ReviewCheck`
(422 without a provisioned container), `Approve` or `Deny` (an update by id, whatever the
status is by then), then `ApplyToExisting`, which queues a job, or `ApplyFails`. `Effective` is
`getApprovedResources`. `CreateRow`, `ReadApproved`, `Provision`, `DeleteContainer` are the container's
life as far as it reads a request; `Reconfigure` is the job.

### Accounts

A request is a record in `reqs` with the query it is at; every handler is split at its
awaits. `users` is the table by `uidNumber` with its unique indexes (`Collides`),
`sysadmins` and `admins` group 2000 and its members.

| Code | Actions |
|---|---|
| `POST /auth/register` | `Register`, `ValidateToken`, `CountUsers`, `ReadNumber`, `InsertUser`, `AfterCreate`, `MarkAsUsed` |
| `GET /auth/oidc/callback`, `findOrProvision` | `Callback`, `FindLink`, `FindMail`, `SaveLink`, `ReadUid`, `ReadNumber`, `InsertUser`, `Raced` (the retry), `AfterCreate`, `Look` |
| `users.js`, `groups.js` | `AdminCreate`, `SetGroups`, `AdminEdit`, `AdminDelete`, `GroupEdit`, `Invite` |
| password resets | `RequestReset`, `ResetPassword`, `ValidateToken`, `SetPassword`, `MarkAsUsed` |
| a failed query, a dead process | `RequestDies` |

### WebSession

`sess` is the session store, `cookie` the browser's one cookie; `tab` has for each tab the
page it shows, what its session query knows, its CSRF token and two mutations that may be
under way. `ReadSession` is `GET /session` with the guard's and the login page's
redirects; `Mutate`, `ServeToken`, `TokenArrives` are `lib/api.ts`; `Refuse`, `SaveSomething`,
`CheckLogin`, `ActivateSession`, `Logout` the server's half of a mutation, the `...Answered` the
client's; `OidcLogin`, `OidcCallback`, `EndSession` the redirects. express-session writes a session
at the end of the request, which is why `ActivateSession` can bring back one that was destroyed.

### ContainerForm, ContainerPages, AdminForms

`ContainerForm` is the form that creates: `ChooseTemplate`, `TypeCustom`, `BlurCustom`,
`FetchMetadata`, the registry (`ReadManifest`, `ReadConfig`, `RegistryFails` with
`withRetry`'s attempts), `MetadataArrive`; the resources section with its debounced hostname
(`Settle`) and its query (`ReadEffective`, `EffectiveArrives`, `EffectiveStale`, and `EffectiveFails`, after which the
former value or the defaults are shown without a word); `Submit`.
`ContainerPages` is the list, the edit form and sharing over react-query's cache: a fetch
that begins, is read on the server and arrives are three steps, and `Invalidated` is what
`invalidateQueries` does to queries that are shown and that are not; a query that fails (`QueryFails`) shows its
former data below an error. `AdminForms` is one form of
each kind and its PUT statement by statement; the six pages differ in `Form` and `Handler`.

### ContainerServices, NodeTasks, LiveStatus

Each looks closer at what `Provisioning` abstracts. `ContainerServices`: `has` is the
committed owner of each port and hostname, `req` the transactions with what they have
inserted and removed; an insertion of a value that another transaction holds waits for its end,
as a unique index makes it (`Deadlocked` is the database's way out). A PUT finds the services to delete by id
(`Found`), whosever they are, for its DNS calls, and removes its own container's rows (`Remove`). `NodeTasks`: `task` is the
task on the node, which runs on its own (`TaskEnds`) while a script waits for it or
gives up (`WaitForTask`); the clients differ in `TaskRefused`, `Effect`, `StorageContents`,
`ShownRunning`, and Docker makes a guest anew when it is configured (`MadeAnew`), which the creation stores
(`StoreId`) and a reconfiguration drops (`lost`). `LiveStatus`: `ReadRows` and then `Resolve` for each node, with the lives of the
containers going on in between, creations that a shutdown of the runner has cancelled among them; `truth` is history: what has been true of a container
since the rows were read.

### Inventory, Startup

`Inventory`: the requests on sites, nodes and rows, each check and each write a
step, with the foreign keys (`OnDelete`) and the unique index (`Fits`) as the database
enforces them. `Startup`: each process locks, runs the pending statements (neighbouring statements of one
purpose, such as the two `addIndex`, are one step: who finds the first one done fails there),
unlocks, and, if it is a web server, reads or makes the session secret; it may die, or lose
the lock's connection, between any two steps.

### MCPlatform

The ten modules above share no variable. `MCPlatform` joins them in one instance: a
behaviour first chooses its `topic`, and only that component moves. This adds no
behaviour and loses none; it lets one run check them all.

## 4. Runs, bounds and what they show

Two of most things suffice: every race in the list of hazards is between two actors
(two claims, a handler and a shutdown, two DELETEs, two polls, two reviews), and a third could
only repeat one of them. Faults, crashes and signals are bounded because each costs a
history of its own; the properties that exclude them name the bound. Constants are
model values where their identity is all that matters, and symmetric there, except in
runs with a liveness property.

| Run | Instance | Shows |
|---|---|---|
| `runner_safety` | 2 runners, 2 jobs, 1 fault, 1 signal, restarts | `TypeOK`; `SpawnedAtMostOnce`; `VerdictIsTheExit`; `RunningIsAttended` (without faults and signals every running row has its close handler ahead); `NoOvertaking`; `VerdictsAreFinal`; `RefinesLifecycle` |
| `runner_live` | 1 job, 2 runners, 2 faults, 1 signal | `SettlesOrIsAbandoned`: the job ends, or a fault or a signal has orphaned its row. One job: rows do not compete for a runner, which spawns without waiting |
| `runner_cancel` | 1 runner, 1 job, 1 signal | violated: `CancelledSticks` |
| `provision_proxmox` | Proxmox, 2 containers, 2 ids, 1 DELETE, 1 PUT, 1 fault, 1 guest removed on the node | `TypeOK`; `LeaksAreExplained`; `RowsDescribeTheirGuest`; `OutcomeIsShown`; `RestartIsNotUndone`. Two ids for two containers: a VMID can be given twice and be reused |
| `provision_deletes` | both kinds of node, 2 containers, 2 DELETEs, ids 1..4, 1 fault, 1 removal | `DeleteSparesOthers`, `OverlappingDeletesHold` (`LeaksAreExplained`, `RowsDescribeTheirGuest` and `OutcomeIsShown` again). Four ids: a Docker container takes two (creation, configuration) |
| `provision_env` | 1 container, 1 PUT, 1 restart | violated: `UserValuesWin` |
| `provision_reconfigure` | Docker, 1 container, 1 PUT | violated: `ReconfiguredIsReachable` |
| `agent_apply` | 5 configurations, 2 changes, 2 faults, 1 death, 2 passes | `TypeOK`; `LastKnownGood`; `DownNeedsTwoMishaps`; `CatchesUp`; `KeepsKnownGood` (the refinement of `KnownGood`). The five differ in nginx's file, dnsmasq's main file, its auxiliary files, in not managing dnsmasq, and in what a test refuses; two changes allow a return to an earlier one |
| `agent_crash` | the same, 1 change, 1 death | violated: `SuccessMeansTested` |
| `job_stream` | 3 rows, limits of 2 (poll) and 2 (backfill), 2 polls, 1 fault, 1 refetch | `TypeOK`; `NoHole`; `NothingAfterTheVerdict`; `StreamEnds`. Three rows exceed one poll's limit and the backfill's; a fault is a failed poll or a lost connection |
| `resource_requests` | 3 requests, 2 reviews, values 0..2 around a default of 1, 2 container rows, 1 fault | `TypeOK`; `OnlyTheApproved`; `LatestIsInForce`; `ReviewsAreFinal`. 0 is the value JavaScript takes for none, 1 needs no review and 2 does |
| `platform` | the ten modules of `MCPlatform`, below | `PlatformTypeOK` and one invariant for each, two for accounts |

The instances of `platform`:

| Topic | Instance | Shows |
|---|---|---|
| accounts | nine scenes of two to four requests of the kinds that meet in one: registrations with sign-ins, creations with sign-ins, edits or deletions with sign-ins, invitations, resets; 2 addresses, 2 identities, 1 token, 2 attempts, 1 death | `Bootstrapped`; `AccountsHold` (one account per identity, giving up only when beaten, tokens that work once) |
| session | 2 tabs, 2 sessions, 3 clicks, 1 mishap, for each of the three configurations of the provider | `SessionsHold` (fresh tokens, a sign-out that sticks) |
| form | 2 built-in images and a typed one, of which one without entrypoint; 2 hostnames; 4 inputs, 1 failed request or fetch | `FormHolds` (entries and entrypoint belong to the image, one's own request is shown) |
| tasks | 2 creations from one image, or 1 and 2 restarts; the three clients; 1 or 2 slips (failures, timeouts, a tag that moves) | `GuestsHold` (the tag's image, no id without a guest, running in the end) |
| pages | 2 containers of the user and 1 of another; 3 acts, 1 of somebody else; administrator or not | `PagesHold` (unsaved edits survive, a list is current) |
| status | 2 containers on 2 nodes: two Proxmox nodes, joined or not, or Docker and dummy; 2 events | `StatusIsHonest` |
| startup | 2 web servers, 1 runner, a transport and an HTTP row, 2 crashes | `StartsRight` (alone, whole, sessions survive) |
| services | 3 containers, 2 ports, 2 hostnames, 3 requests of 9 kinds, one of which names another container's service, 1 failed call | `ServicesHold` (records follow services, refusals have a cause) |
| admin | forms of nodes (a secret), users (two statements) and settings (stays open); 2 edits, 2 visits, 1 upset | `AdminEditsStay` (typed and saved edits) |
| inventory | 2 sites, a cluster of 2 nodes and 2 guests, 3 requests, 1 failed call | `InventoryHolds` |

Three kinds of form cover the six: those of domains are nodes' and those of sites and groups are nodes' without a secret.

What the properties exclude is as much a result as what they say:

- Guests and DNS records leak only after a failed call, a DELETE of a container that
  still had a job, or an id that the node gave out again while a row still had it.
- A row never describes another container's guest, except after two overlapping DELETEs
  of one container or a removal behind the manager.
- The page of a job can show a hole only if rows became visible out of order, or if the
  backfill replaced streamed rows.
- The last approval is not in force when a call failed, when the approval fell between
  a creation's reading and its end, or when two jobs of one container ran together.

- Accounts: two first registrations at once may leave nobody in charge, as may an
  administrator's own change; a mailed link works twice for two requests that hold it at once.
- A token is stale only behind the back of a page: another tab, the session's end, or the
  page's own sign-in and sign-out. A sign-out does not last if the provider has no
  end-session endpoint, or if a sign-in was on its way.
- A filtered list misses what a form has saved; any list may miss what an answer, read
  before a change, and arriving after it, did not have.
- A container's records and services disagree only after a failed call of Cloudflare or
  overlapping requests on that container, or a PUT of another container that names one of its services; one PUT cannot add two ports, and may fail to add
  one when it gives one up.
- A status that says "missing" may be of a container whose guest has another id than the row, or whose
  creation the runner's shutdown has cancelled before the id was stored.
- A guest that a reconfiguration on Docker has made anew stays stopped, and a job fails with it.
- The resources shown are not what one's requests have obtained after a fetch that failed.

Each property of a passing run has a mutant of the code in `PROJECT.json` that breaks it. The modules
hold some more (`RacedSameNames`, `ValidateTokenUsedToo`, `SignedOutHereKeepsToken`,
`LoadedOnTop`, `FinishedOrNot`, `ToldContainer`, `NamesOfReversed`, `StaleNever`,
`OnDeleteCascade`), one for each further conjunct of a component's property; the same run
refutes each of them.

Deadlock is not checked where the modelled work is finite (`CHECK_DEADLOCK FALSE`): all jobs are settled and
nobody asks for more. It is checked for `AgentApply`, whose timer never stops.

## 5. Fairness

- `JobRunner` (`FairSpec`): weak fairness of a child's exit, of its handlers, and of each
  runner's claims, spawns, shutdown and restart. The poll is a timer that is re-armed
  in every case, Node runs the handlers whose awaits are over, systemd restarts a failed
  service (`Restart=on-failure`) and the package's postinstall a stopped one, and a command
  is assumed to end. A claim's steps
  are fair together, not each of its branches. Nothing forces
  an insert, a commit, a fault, a crash or a signal.
- `AgentApply`: weak fairness of the agent's next step. The timer fires as long as the
  host is up, a check-in is aborted by `CHECKIN_TIMEOUT_MS`, and systemd is assumed to end the
  reloads it is asked for (`runJob` in `system.ts` has no timeout of its own).
- `JobStream`: weak fairness of the polls: the interval ticks and queries are answered.
  Neither the runner nor the page is fair.
- All the other modules state only safety: their requests end in an answer by the web
  server's own scheduling, and nothing in them retries for ever.

## 6. Proofs

Eight modules prove what the runs check, for every value of the constants. Their
assumptions are named in the modules they are about, and TLC evaluates them in the runs:

| Module | Assumes |
|---|---|
| `JobRunner_proofs`, `ResourceRequests_proofs` | `ConstantsAssumption`: bounds are natural numbers, `None` is none of the other values, requests and reviews are different things, values are natural numbers |
| `AgentApply_proofs` | `ConstantsAssumption`: a configuration maps the managed files to contents, and a service's files are rendered together; `TornAssumption`: a torn `state.json` is not a state |
| `Provisioning_proofs` | `ConstantsAssumption`: ids are numbers, `None` is no row, name or number, bounds are natural numbers; `NoneIsNoGuest`: `None` is no guest |
| `JobStream_proofs` | `ConstantsAssumption`: bounds are natural numbers, and the limits of a poll and of the backfill are not 0 |
| `Server_proofs` | `ClusterAssumption`: a finite, non-empty cluster, each of its guests on one of its nodes; `RowsDiffer`: no row is both a transport and an HTTP service; `NobodyStarts`: no process is called `"nobody"`; `KindsAreOfNodes`: finitely many containers, and each node has one of the three kinds; `TaskConstants`: creations are not restarts, versions are positive numbers, a cast is of these scripts |
| `SignIn_proofs` | `AttemptsPositive`: provisioning tries at least once; `ScenariosAssumption`: a behaviour begins in a scene of the declared form; `NoneIsNobody`: `None` is no address and no identity; `BoundsAreNumbers`, `WebBounds`: bounds are natural numbers |
| `Console_proofs` | `FormImages`: `NoImage` is no image, those without an entrypoint are images, and none is called like a choice of the form; `FormBounds`: bounds are natural numbers; `PagesDisjoint`: containers are their owner's or others', and none is called like a page; `FormsAndBounds`: forms are those there are, bounds are natural numbers; `PortsAreNumbers`: ports are positive numbers, and neither hostnames nor the mark for "any port"; `AsksAreRequests`: a POST adds ports only and only a PUT removes services, finitely many |

**JobRunner.** `IInv` joins the invariants with what their preservation needs:
`Unclaimed` (a pending row has no process and no owner), `Claims` (what a runner that
has locked or claimed a row knows about it), `RowLock`, `Executed` (handlers and
verdicts presuppose an execution), `Shutting`, `OwnersUp`, and for the order
`AheadIsOlder` and `CandidatesInOrder`. `SpawnedAtMostOnce` is not inductive without `Claims`:
only that a claimed row is not yet started makes the next spawn the first one. There
is one lemma per action. `VerdictsAreFinal` follows since a handler that
writes over a verdict writes the same one (`VerdictIsTheExit`). `RunnersImplementLifecycle`
maps each step: `CommitJob` to *Submit*, `ClaimCommit` to *Start*, `Run` and `SpawnThrows` to *Execute*,
`HandlerWrite` to *Finish* or to a stutter, `ShutMark` to *Cancel* or to a stutter,
and the others to stutters.

**ResourceRequests.** `IInv` has two halves. `TypeOK`, `Stamps`, `Posted` and `Loaded`
are preserved by every step. `Undecided`, `Decided` and `OnTheWay` are so only until two reviews
of one request overlap: a review that has yet to write is the only one of a pending
request, what is about to be applied is approved, and every value that a job, a creation or the
guest holds was granted. As an approval lasts as long as no reviews overlap
(`ApprovalsLast`), so does what it granted (`GrantsLast`). That the creation
reads an *approved* value needs a latest approval among any set of requests, finite or
not: `FirstIsLast`, from a least element of the ages of their stamps.
`LatestIsInForce` speaks of a container at rest and needs what leads there, `LInv`, as long as nothing
has failed or raced (`Smooth`). `OneAtATime` is the point: at most one approval is on
its way, as one being applied or as a job, so that none can be overtaken by an older one; `Foremost`
says that it is the last, and `SetRight` that a container whose value, or whose creation's plan, is
not the last approved one has it ahead. That a "last" approval is one (`Apart`) rests on the
stamps.

**AgentApply.** `LastKnownGood` speaks of an agent at rest, and so is not
inductive: while it works, files, services and what it remembers disagree. `IInv` says how.
`Rendered` and `Between` describe each step's files as the former ones up to some point
and the new ones from there; `Accepted` says that what is reloaded, and what can be gone back to,
was tested; `Stopped` counts the mishaps that it takes to stop a service. Until the
agent dies or two things fail (`Calm`), `Served` says what each service has read, and `Recorded`
which results are true of the disk. `Served` needs the count: only a second failure can
make the reload of the restored files fail, and a reload without a restart is only chosen
when `dnsmasq.conf` has not changed.

`AgentKeepsKnownGood` maps the steps: `CheckIn` with a new configuration to *Fetch*, `Compare` without a change
to *Confirm*, `Undo` to *Refuse*, `Reload` to *Accept* or *Fail*, `ReloadAgain` to *GoBack*, `ConfigChanges` to *Offer*, and
what passes between them (`Stage`, `Test`, `Rollback`, `Save`, `Write`) to stutters; after the second mishap
or a death any step is a *Mishap*. There is one lemma for each (`ConfirmShown` to `GoBackShown`). Each needs `IInv` for
what its step does not check: that a service has read its former files, all of them, until it is reloaded (`Served`),
that the files on disk are by then all new (`Between`) and tested (`Accepted`), and that before the second mishap a service which did
not come up has failed by its one accident, so that it does come up with the files that are restored.

**Provisioning.** `IInv` begins with `Shaped`: types, and which step each request and script can be at.
`Checked` is what DELETE relies on: between reading the guest's hostname and destroying it there
is no other guest under that id, unless somebody else has destroyed the one it read (`raced`); a Docker
node never gives an id again, a Proxmox node gives it only when it is free. With it,
`DeleteSparesOthers` holds on both. `RowsDescribeTheirGuest` needs more: `Distinct` (rows that
are there differ in names and ids, and have an id only once their creation has stored it),
`Aimed` (DELETEs that do not overlap are of different rows, which are there, with the id each
has noted), `NoRace` (so no two of them destroy one guest), and `Owned` (the row's id and the
ids in its scripts' memory stand for guests made for that row). On a Docker node the creation makes its container
anew under another id when it configures it (`Remakes`, `Remade`); `Faithful` says what ids never
given twice are worth there: the id a row or a script has was made for that row, and no other container's
guest ever answers to it. It follows that whoever replaces a guest is its own creation (`RemakesOwn`).

*Kinds of node.* `Owned` is about the containers that keep their guest when they are configured (`Keeps`): all on a
Proxmox node, and on a Docker node those that no reconfiguration has begun of. `RowsOfKeepers` says so of each row,
`RowsDescribe` and `LeaksExplained` where all containers do (`AllKeep`). The restriction is the code's: on Docker a
reconfiguration drops the id of the container it has made anew (`provision_reconfigure`), so that the row's id
stands for nothing from then on and the new guest is lost; both statements are then false. What is true of it
instead is proved as well: `Dropped` says that it goes on with an id whose guest it has itself deleted, and so
`NoneReconfigured`, that on a Docker node no reconfiguration ever succeeds. `OutcomeIsShown` needs no restriction:
of a container that is only created nothing is reconfigured, and what becomes of others does not reach it.

*Nothing left behind.* `LeaksAreExplained` and `OutcomeIsShown` promise something only
as long as no call has failed and nothing has raced, and as these never become true again it is
enough to keep an invariant of calm behaviours. `Undisturbed` says that scripts work for rows that are there and
that nobody deletes; `Standing` that the guest whose id a row has is there until a DELETE of that row has
destroyed it; `Belongs`, the other way round, that a guest's row is there and has its id, or that the
creation that made it has it in memory and has not stored it yet; `Cleared` and `Unpublished` that
a DELETE past its call to the node, or to Cloudflare, has left nothing there. For `OutcomeIsShown`, `Progress` says
what a creation has done at each of its steps if nobody touches its container, and `Mine` that its guest has the id
it has stored or is about to store; others matter to it only through a shared id, which `Owned` (and on a Docker node
`Faithful`) rules out. With `RowsDescribe` these give `OverlappingDeletesHold`, for `AllKeep` again.

*Restarts.* `RestartIsNotUndone` is promised with failed calls and killed scripts too. The danger
is a creation that applies the environment it loaded at its start after a reconfiguration has applied
a later one. `Promised` is why it does not: a PUT queues a reconfiguration only for a row that has its id, which the
creation stores after it has applied its environment and has written it back, so that from then on the row's
environment only grows. `OneGuest` says that a creation makes one guest, the only one of its row, and `InForce` that a
reconfiguration past its write has left there what was asked of it or something newer.

It holds on both kinds of node: on Docker by `NoneReconfigured`, for want of a reconfiguration that succeeded.

**Inventory.** The foreign keys carry most of `InventoryHolds`. What they do not see are rows a request has
computed and not yet inserted: `DeedsPending` says that these are right if their node is still there,
`RowsNumbered` that no later node is taken for it, as ids are given once, and `HasMade` that an import looks
for its guests' nodes among those it has just inserted.

**Startup.** `LockHeld` gives `MigratesAlone` at once. The rest may not use it, since a process that has lost its
lock goes on migrating next to the one that got it. What keeps the schema whole is that `addIndex` fails if the
index is there: `Progress` says that at most one process is past the indexes and before the record of
its file, even after losses of the lock, and how far the schema is for it (`Halfway`); `Recorded` that a schema without the
indexes is untouched, so that whoever makes them reads the old rows. If that process dies, nobody gets
past the indexes again, and nobody is ever up. `Remaining` relates what a process has left to do to the end of the
script. For the sessions, `SecretsNumbered` and `Sessions`: whoever is up signs with a secret that is in the table, so a
process that finds none has seen nobody up.

**JobStream.** While the rows become visible in their order, every list of rows in the system is a run of
consecutive numbers (`Run`): what a poll has read, what the backfill has, what the page shows. `Connected`
relates two of them that are read at different times: what a poll has yet to send
begins at or before the end of what the page shows, so that sending leaves no hole even if another poll has sent
the same rows. `Complete` adds that a poll which read everything after the verdict reaches the
exit note (`NoteIsLast`). That a query returns such a run rests on lemmas on ranks: a finite set of rows in
order of their ids has one row at each place (`AllRanked`).

**LiveStatus.** `Watched` says that whatever holds of a container while an answer is computed is in
`truth`, and `SameRow` how a row may have changed since it was read: not at all if its creation was over, never its
id. An answer is then honest at the moment it is given (`AnswerIsTrue`), by what the snapshot of that
node shows, and stays so, since `truth` only grows. That there are finitely many containers matters: a Docker
node's new id has to be one nobody knows, which exists because finitely many containers have ids (`GreatestNatural`,
`FiniteImage`). The first attempt failed for a good reason, and corrected the model: a container that was deleted
while its node did not answer was recorded as unreachable and not as gone.

**NodeTasks.** `Tasked` and `Attended` tie a script's place to the task it has on the node, which ends without it.
For images, `FilesAreNamed` (a file is what its name says while no tag moves between a digest and its
pull), `Fetched` and `Making`: from the pull to the guest's creation, what is in the storage under the creation's
name has been the tag's since the creation began, whoever pulled it again; Docker's guest may be made again
from what was pulled later, which `had` follows. For restarts, `Restarted`: if the
guest is stopped, some script has its start ahead (`HasStart`), and nothing but another such script can make
the node refuse that start. On Docker that is so until the id is lost, when the script that lost it has failed.

**ContainerPages.** `UpToDate` says for each list which of its data count: the answer on its way and the data that
are not stale, or that are shown. It is kept except between a change and the answer that tells of it
(`Acting`), which invalidates what it covers; what it does not cover is in `behind`.

**AdminForms.** `AdminEditsStay` speaks of what is *kept*, a value saved by a save that met no other. It needs
`KeptStays`: the value is in the row, in data that are not stale, in an answer on its way, and in what a later save
will write, but for a secret, which is never sent back and never overwritten by a blank. `FormIsUsed` and `DataAreRow` say where
the untyped fields of a later save come from; `SaveGoesOn` is for the PUTs that take several statements.

**ContainerServices.** The two halves need different invariants. *Records* (but for the names that a PUT of another container has deleted, `stray`): `ValuesLocked` is the unique indexes' work (no two
transactions hold a value), `RowsOwned` says that requests on different containers touch different rows, `CallsAreForRows` that a PUT
deletes names before it creates any. `RecordPlanned` then follows each hostname: where nobody will touch it its record is
there exactly if a row is, and where somebody will, what he has still to do leaves it as his rows will be.
*Refusals*: `RequestsAlone` and `AloneUndisturbed` (nothing changes behind a request that met no other),
and `StillAdds`, which ties the ports it has inserted to those it asked for. A collision then
means two ports of one PUT, or one it is giving up, which the search for a free port does not see as
its own transaction does. The second of these the property did not mention before the proof: the run now has such
a request.

**ContainerForm.** Besides `FormMatchesImage`, `FormInv` has `LoadsItsImage` (the form waits for the metadata of
the image it shows, so that what arrives late for another one is not taken) and `FieldsMatch`. For the
resources `ValuesAreRight` follows both copies of a hostname's value, the one a fetch has read and the one in the cache, and
says when each is what there is; the time between a request that is granted and its answer is the
exception (`Unanswered`), since invalidating after the answer reaches the copy that is wrong, unless there is no new fetch: because the
hostname has been edited, the answer is lost, or a first fetch, which is not started again, is under way (`unshown`). A
fetch that fails is the other exception (`failed`): it leaves the copy as it is.

**WebSession.** `TokenIsFresh` is the heart of `FreshTokens`: the token a page has, and the one on its way, are
those of the cookie's session, which lives, unless the page does not know that the session has changed
(`behind`) or is signing out itself (`LeftIt`). `Awaited` ties the mutations to it: one that
waits for a token has a fetch ahead, any other has gone out with what the page had. For `SignOutSticks`, `NobodyIsIn` lists
the places from which a sign-in could come back: a session with a user, a sign-in under way in any
tab, and the provider's own session, until the end-session redirect has ended it (`Leaving`).

**Accounts.** `LinksHold` numbers accounts by the request that made them (`MayMake`: who may still make one has
made none and signed nobody in), so that two accounts of one identity would have the link of
both. `ProvisioningHolds` is the argument for the three attempts: what a sign-in has read (no account of the
identity, a free uid, a free number) is still so, or another request has written since, which is counted; each
collision costs one such write, so that whoever gives up was beaten as often as it tried. `TokenHolds` says that a
token whose purpose has been served is used, or is held by one request that is about to mark it. `ChargeHolds`
says who is in charge between two steps of a creation: an active administrator, or the one account there is, which is
at the hook that makes it one; `Waiting` that what a registration has counted still holds. As an account's number is
one more than the greatest and its uid the first that is free, the proof needs that a finite set of numbers has a greatest
element and leaves one below its size free (`GreatestNatural`, `LeastNatural`). The attempt found two things, now in the
model and in section 7: `sysadmins` deleted while there is no account, and the account read back by its uid.

Only model-checked: every liveness property (`SettlesOrIsAbandoned`, `CatchesUp`,
`StreamEnds`), which is out of the prover's reach; and `PlatformTypeOK`, the types of the ten modules in one
formula: they are parts of the invariants of their modules and so proved there, but for the upper bounds
of the accounts' and requests' numbers, which only TLC checks.

## 7. Disagreements

Four runs end in a counterexample; `PROJECT.json` quotes the sentence each refutes.

| Run | Said | Done |
|---|---|---|
| `runner_cancel` | `job-runner.js:104`: a job is killed and marked cancelled | a close handler that had read `running` overwrites the mark with its verdict |
| `provision_env` | `create-container.js:408`: user-supplied values still win | the environment read at the start is written back over a PUT made meanwhile |
| `provision_reconfigure` | `reconfigure-container.js:5-7`: applies configuration and restarts | on Docker the id that configuring returns is dropped, and the next call fails |
| `agent_crash` | `docs/developers/agent.md:73`: staged, tested, rolled back on failure | an agent that dies between staging and testing reports success for untested files next time |

Others were met while modelling. No run shows them: the properties excuse exactly these
cases, or they lie beside what the properties say.

- **Sign-out.** With a provider but without an end-session URL (`auth.js:232-238`) the login page redirects
  to the provider at once and the user is signed in again; `LoginPage.tsx:57-61` means to prevent that.
- **CSRF tokens.** `lib/api.ts:8-16`: "A mutation NEVER goes out without a valid token". The cached one is stale
  after the session has ended or another tab has signed in; mutations fail until the page is loaded again.
- **Invitations.** `InviteUserPage.tsx:42-43` says that the link lasts 7 days, `users.js:138` makes it 24 hours.
  `user.js:30` has uids start at 1001, its code at 2000.
- **First user.** If group 2000 is deleted or loses its powers (`groups.js:59-94`) before the first account is made, or
  while there is none, the first user joins nothing, or a group without powers, and nobody is in charge (`user.js:285-287`).
- **Provisioning.** The account is read back by its uid (`user.js:175`). If an administrator has renamed it meanwhile and
  the uid has gone to another, the provider's user is signed in to that other account.
- **Node import.** `NodeImportPage` shows `result.imported`; the API answers with `importedContainerCount`
  (`nodes.js:285-288`). A failure after `bulkCreate` leaves nodes without their containers, and
  as names are not unique a retry makes them twice.
- **Editing a container.** The form is filled once, from the cache (`ContainerFormPage.tsx:187-225`), and saving
  (345, `exact: true`) does not invalidate that entry: for 30 seconds the form opens with the values from before. Lists with a
  filter are not invalidated either.
- **Metadata.** The comment at 232-233 speaks of entries "from a previous metadata load"; those typed by hand
  are removed too, and an image without an entrypoint keeps the last one's.
- **Images and tasks on a node.** `waitForTask` gives up and leaves the task running; it takes "WARNINGS" for a
  failure; a file that is named by a digest may hold what the tag has meant since.
- **Ports.** PUT looks for free ports outside its transaction (`containers.js:723`): two new transport services of
  one PUT get the same one, and the whole PUT is rolled back. The range ends at 65565, the
  validator's at 65535 (`transport-service.js:63`).
- **Resources of a new container.** A fetch of the effective resources that fails leaves the defaults, or the value from
  before a request that was granted, on display as if they held (`ResourcesSection.tsx:85-89`, `124`).
- **Cancelled creations.** `decideStatus` (`container-status.js:91-103`) has no case for a job that is cancelled: a
  creation that a shutdown of the runner stops before it stores its id is shown as missing, and its guest stays.
- **Logs.** The page of a job that is over shows the first 1000 rows (`jobs.js:45`) and asks for no more.
- **DNS.** PUT looks a service to delete up by its id alone (`containers.js:656`) and so deletes the record of another
  container's service, whose row it then leaves. It calls Cloudflare (730-735) before it commits; DELETE removes the records before it compares
  the hostname and may answer 409.
- **Administration.** The settings' PUT is six upserts without a transaction. Forms start over when their query is
  read again, and so lose what has been typed. A session keeps `isAdmin` from when it began.
- **Start-up.** A process that dies between the migration's last statement and its row in `SequelizeMeta`, or between
  its indexes and that row, makes every later start fail; one that dies between dropping columns and
  inserting loses the rows it has in memory. Two web servers that both find no session secret
  sign with different ones. On SQLite there is no lock.

## 8. Not modelled

- **A second agent process**, started by hand beside the timer's: the two would share `state.json` and the
  files between any two of their steps, which nothing in the code prevents.
- **rootfs requests**, which a clone takes no notice of and which are applied with a restart.
- **Accounts**: development sign-in (`auth.js:55-103`), mails to everyone, the rate limiter, what is in a password,
  groups other than the administrators'.
- **Lists**: filters by status, template and text, which narrow what is shown and change nothing else.
- **Services** of the kind SRV, which have no value that could collide. The loop of a PUT that looks up and
  removes services is one step: in the code a lookup may precede a wait for another transaction's lock, which
  matters to requests on one container only, and these are excused.
- **Renaming a node** by PUT, an administrator's statement of what the node is called from then on.
- **NetBox**: a mirror that nothing reads. **Cloudflare** is a record that is made,
  removed, or only warned about.
- **Node clients**: cloning from a template, devices, disk sizes and access lists, which are single
  calls with no later effect on what is modelled.
- **The agent's templates**: rendering is a function of the configuration.
- **Seeders and the other migrations**, which add tables and columns; **API keys**, single rows; the **tool
  proxy**, which forwards requests to the API.
- **Landing site, images, CI**: no state beyond the API's.
