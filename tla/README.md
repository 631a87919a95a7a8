# Verification of Coolify's orchestration core

Coolify is a Laravel application that deploys applications, databases and
services to servers over SSH. Most of its PHP translates settings into Docker
commands. What is hard to get right, and hard to test, is the coordination
around those commands: web requests, Horizon workers, the scheduler and the
start-up command read and write the same PostgreSQL rows, Redis jobs and cache
locks. The same holds for the JavaScript parts that keep state of their own: the
terminal server, the terminal page and the canvas of an environment. These TLA+
modules model that coordination.

Paths are relative to the repository (`src/`).

## Inventory

| Component | State | Operations | Hard behaviour | Status |
|---|---|---|---|---|
| Deployment admission (`bootstrap/helpers/applications.php`) | `application_deployment_queues` rows | `queue_application_deployment`, `cancel_superseded_deployments` | concurrent requests; reads at READ COMMITTED next to workers that take no admission lock | modelled |
| Queue passes (same file) | the rows, `static $pending` | `queue_next_deployment`, `start_queued_deployment`, `force_start_deployment`, `next_after_cancel` | stale snapshots, shared build servers, failed dispatch | modelled |
| Deployment job (`app/Jobs/ApplicationDeploymentJob.php`, `app/Traits/ExecuteRemoteCommand.php`) | its row, containers | claim, build server, deploy phase, commands, terminal write, `failed()` | a cancel at any point; a timeout; check-then-write | partly |
| Cancelling (`DeployController`, `DeploymentNavbar`, MCP `CancelDeployment`, `CancelSupersededDeploymentJob`, `CleanupCancelledDeployment`) | the row, the build container | conditional and unconditional cancel, cleanup, next pass | races with the job and with the replacement | partly |
| Restart (`app/Console/Commands/Init.php`, `config/queue.php`) | rows and surviving Redis jobs | `app:init`, redelivery | jobs of failed rows come back | modelled |
| Scheduled job delivery (`app/Services/ScheduledJobDeliveryService.php`, `app/Jobs/ScheduledJobManager.php`) | `scheduled_job_occurrences` (pending, enqueued, claimed, failed, skipped) | record, publish, claim, complete, recover, report missed | crash between record and publish; late and duplicate jobs; recovery by two managers | partly |
| Terminal server (`docker/coolify-terminal/terminal-server.js`, `terminal-utils.js`) | `userSessions`: a websocket, a PTY, a timer, an end reason | authenticate, redeem a token, start, kill, detach, watch, report the end | events of an old PTY after its replacement; a socket that closes during an await; kills that are not obeyed | partly |
| Terminal page (`resources/js/terminal.js`, `terminal-connection.js`) | the socket, seven timers, attempts, a waiting token | connect, reconnect, heartbeat, start a session, hide and show the tab | timers against events; a token that must be sent once; a rejection that must last | partly |
| Environment canvas (`resources/js/canvas/environment/EnvironmentCanvas.svelte`) | positions: loaded, shown, waiting, being saved | drag, save, load, leave | loads and saves that overtake each other | partly |
| Multi-server notification, database operation reservation, resource start activity, volume backup and recovery, GitHub deployment sync, delivery failures | rows, cache locks, counters | see "Not modelled" | concurrent writers, restarts | not modelled |
| GitHub runners, managed DNS records, SSH multiplexing, key rotation, server connection checks, image scans | own tables and caches | - | retries against remote APIs | not modelled |
| Deploy canvas, canvas layout, runtime logs | one page each | - | one user, rendering | not modelled |
| Build packs, proxy configuration, Docker command generation, UI, API, authentication, billing, server transfer, the vendored Monaco editor | - | - | text and data, no coordination | not modelled |

How they interact: a request admits a row; the admission or a pass dispatches
an `ApplicationDeploymentJob` through Redis; the job writes its row and, when
it ends, runs a pass that starts other rows. Cancels write the row from a
request and run a pass after their cleanup. The start-up command writes the
rows while jobs still wait in Redis. A page gets a single-use token
from Coolify and sends it to the terminal server, which redeems it at Coolify and
reports the end of the session there. The canvas reads and writes positions
through two endpoints and shares nothing with the rest.

## Modules

| Module | Role |
|---|---|
| `DeploymentPromise` | abstract specification: what a user is promised about one deployment |
| `DeploymentQueue` | the queue, its requests, passes, jobs and cancels |
| `DeploymentQueue_proofs` | the theorems about it |
| `DeploymentPromise_proofs` | the slot limit, and the queue implements the promise |
| `DeploymentRestart` | the queue with process deaths, redelivery and restarts |
| `DeploymentAdmission_proofs` | theorems about what an admission checks before it adds a row |
| `DeploymentRestart_proofs` | theorems about the queue when processes die |
| `DeliveryPromise` | abstract specification: what a user is promised about the occurrences of a schedule |
| `ScheduledDelivery` | the occurrences of one cron schedule, from the record to the run |
| `ScheduledDelivery_proofs` | the theorems about it |
| `TerminalServer` | the sessions, PTYs and kill calls of the terminal server |
| `TerminalServer_proofs` | the theorems about it |
| `TerminalClient` | the connection and the session starts of a terminal page |
| `TerminalClient_proofs` | the theorems about it |
| `EnvironmentCanvas` | the positions of the cards on a canvas |
| `EnvironmentCanvas_proofs` | the theorems about it |
| `MC...` | the instances for TLC, one module per model |

The models of the queue, the delivery, the terminal and the canvas share no
state. `DeploymentRestart` extends `DeploymentQueue`, and `DeploymentQueue` is
shown to implement `DeploymentPromise`, `ScheduledDelivery` to implement
`DeliveryPromise`. `TerminalClient` treats the terminal
server as its environment: the two are joined only by the order of the messages on one
socket, and each has to cope with any order that the other one produces.

### DeploymentQueue

A deployment is a row number; rows are created in order, as ids are. `status`
is the column, with `absent` (not created) and `uncommitted` (created by an
admission whose transaction is open, so invisible to others). `req` holds the
columns that the admission stores once. `pc` is where the row's job is,
`cancelPc` where the process that cleans up after a cancel is, and `todo` the
rows that a running queue pass has still to try. `overlooked` is history: why a
queue pass did not look at a row that could have used what it gave back, because
the row's admission was still open (`"open"`) or because the row waits on another
server for the build slot (`"builder"`).

| Action | Code |
|---|---|
| `AdmitBegin`, `AdmitCommit` | the transaction of `queue_application_deployment`: reads, superseding and decision; then the commit and the jobs for superseded builds |
| `Dispatch`, `DispatchFails` | the dispatch after a commit that started a row; `fail_undispatchable_deployment` |
| `ForceStart` | `force_start_deployment` |
| `Snapshot` (in `JobAdvance`, `CancelAdvance`), `PassStep` | `queue_next_deployment`: one snapshot, then one transaction per row |
| `JobCancelledBeforeStart`, `JobRejected`, `JobClaim`, `JobSelectBuildServer`, `JobStartDeploy`, `JobGate`, `JobCommandDone`, `JobLastCommand`, `JobFails` | `ApplicationDeploymentJob::handle` up to the last command |
| `JobCheckTerminal`, `JobWrite`, `JobAdvance` | `transitionToStatus`: the check, the write, the pass |
| `ApiCancel`, `UiCancel`, `RunCleanup`, `CancelAdvance` | the cancels and what follows them |

Abstractions:

- The admission is two steps because PostgreSQL runs it at READ COMMITTED while
  jobs write their rows without its locks. Its locks are taken together
  (`LocksFree`): the code locks the application, the server and then the build
  servers, so it can deadlock and be aborted, which leaves the row as it was.
  `start_queued_deployment` needs the application and the server only
  (`RowsFree`); a pass takes the build servers' locks when it gets as far as the
  slots. An open admission holds them whenever it may build elsewhere, also when
  it has found a running deployment of its target and has not locked them.
- A command of the job is one step between two cancellation checks. Building
  and deploying several times are the loop `gate` - `changing`.
- The pass after a failed dispatch runs as the failed row's own pass. In the
  code it runs after the caller's current pass in the same process.
- The duplicate check compares the commit; the image tag of a Docker image
  application is part of the commit here.
- All servers belong to one team, and settings do not change. A reserved build
  server that becomes unusable before the job runs would let the job take a slot
  of another server, which `SlotsWithinLimit` therefore does not cover. Build
  servers that are turned off during a build make its pass leave out the team's
  other servers, another way to the wait that `"builder"` in `overlooked` marks.
- A server becomes a build server only while it hosts nothing, and a build server
  takes no resources (`Server::canHostResources`), so in the instances no build
  server is the primary or an additional server of an application.
- An exception and a timeout are the same step, `JobFails`.
- One cancel per deployment is in flight at a time.
- `MaxDeployments`, `MaxCancels` and `MaxForced` bound rows, cancels and force
  starts, in the guards. When they are used up the system may stop, so the
  configurations do not check for deadlock.

### DeploymentRestart

Adds `StarterDies` (between a commit and its dispatch), `WorkerDies`,
`Redeliver` (Redis delivers a reserved job after `retry_after`; with
`$tries = 1` Laravel calls only `failed()`), and `Restart` (`app:init` fails
queued and running rows before the workers start; waiting jobs stay in Redis,
because `CleanupRedis` removes only Horizon's keys). `MaxCrashes` bounds them.

### DeploymentPromise

One record per deployment: stage, target, slot, exempt. A deployment waits,
runs, ends, in this order and once; a start needs an idle target and a
slot that deployments within the limits leave free, unless it is exempt
(forced, or submitted with `no_questions_asked`). An exempt deployment chooses
its build server without locks, so it may take a slot that another transaction
has just given away; it is therefore not counted.
`DeploymentQueue!Promise` maps a row to that record.

### ScheduledDelivery

`ScheduledJobManager` runs every minute. For a due schedule it stores the
occurrence in the schedule's state row, creates an occurrence row (`pending`),
dispatches a job and marks the row `enqueued`. A worker takes the overlap lock
of the schedule, claims the row, runs the body and deletes the row. Before the
due schedules, the manager recovers rows whose job never started, fails claims
whose worker died, and publishes pending rows again.

Occurrences are numbered in the order they are due. `status` is the column of
the row, with `none` (no row yet) and `gone` (row deleted). A queued job is an
occurrence and a slot; the slot stands for the uuid that the job uses as claim
token. `mgr` is a manager: its phase, the rows it loaded, the row it works on
and the decision it has taken about it. `ran` and `reports` are history.

| Action | Code |
|---|---|
| `Begin` | start of `ScheduledJobManager::handle`, query of `recoverStaleEnqueued` |
| `RecoverNext`, `PublishNext`, `MoveUnstarted`, `ReportMissed` | the loops of `recoverStaleEnqueued` and `publishPending`; the reads, the conditional update and the report of `recoverUnstartedOccurrence` |
| `FailInterruptedClaims` | `failInterruptedClaims`, then the query of `publishPending` |
| `Publish`, `PublishWithoutResource`, `DispatchThrows`, `MarkEnqueued` | `publish`: the dispatch and the update after it |
| `Record`, `RecordSkipped`, `NothingDue` | the transactions of `recordAndPublish` and `recordSkipped` |
| `TakeLock`, `FindLockHeld`, `SkipOccurrence`, `ReleaseLock` | the middleware `withoutOverlapping` |
| `ClaimOccurrence`, `ClaimRejected`, `Complete`, `BodyThrows`, `Failed`, `Redeliver` | `claim`, `complete`, `fail` as the four job classes call them |
| `RowAges`, `EnqueuedAges`, `ClaimAges`, `LockExpires`, `TickDue` | the passage of time |
| `DeleteOldOccurrences` | the daily clean-up |

Abstractions:

- One schedule. Schedules share only the batch limit of 500 rows and the order
  of the rows, and the overlap lock has the schedule in its key.
- The clock is replaced by the ages that the code compares: a row is new, stale
  (60 minutes) or too old (24 hours); an `enqueued_at` is stale or not; a claim
  is older than the worker timeout or not. `created_at` and `scheduled_for`
  differ by at most the catch-up window and are one age.
- Horizon kills a job at its timeout and the overlap lock outlives that
  timeout, so `ClaimAges` and `LockExpires` wait until the job is no longer
  alive; a kill at any point is `WorkerKilled`.
- A manager works on the execution time it froze, on the latest occurrence at
  that time, or on none when the catch-up window has passed.
- The recovery decision and the update are two steps; a single SQL statement is
  one step. `FailInterruptedClaims` joins its updates, which no other step can
  tell apart: a claimed row is not loaded by anybody.
- The body is one step between claim and completion. What it does to
  databases and servers is not modelled.
- Manual runs have no occurrence. The lock they share with scheduled Docker
  cleanups makes more skips, not other ones.
- `N`, `Slots` and `MaxFaults` bound occurrences, jobs of an occurrence that
  exist at once, and faults. Lost jobs are not bounded. `FaultKinds` selects
  the faults of an instance.

### DeliveryPromise

`stage` of an occurrence is none, open, claimed or closed; `latest` is the one
taken up last, `busy` are those whose body runs, `runs` and `reports` count. An
occurrence is opened or passed over in the order of the times (`IsNext`, which
also leaves out the second occurrence of a repeated local time), is started from
open while nothing else of the schedule runs, and is closed for good; only a
closed one that never ran is reported, once. Neither managers, jobs, tokens,
locks nor times appear in it. `Promise` in `ScheduledDelivery` maps the rows to
it: pending and enqueued rows are open, failed, skipped and deleted ones closed.

### TerminalServer

One Node process with one thread serves all terminals, so an action is the code
between two awaits or timers. A socket (`userId`) has a session object:
`listed` says whether it is in `userSessions`, `current`, `active`, `reason` and
`timer` are its `ptyProcess`, `isActive`, `endReason` and
`terminalSessionTimer`. A token starts at most one PTY, so a token also names
its PTY and its session at Coolify; `stage` is how far its handling is, `pty`
its ssh process and `report` the end that Coolify was told. `waits` are the
calls of `killPtyProcess` in progress with their number of tries, `ready` those
that an exit has resolved. `odd` is history: the PTYs that were started although
their socket had closed meanwhile, or while another token was about to start one
too.

| Action | Code |
|---|---|
| `Upgrade`, `IpsFetched`, `IpsFailed` | `createTerminalUpgradeHandler`, the connection handler and its fetch of the authorized hosts |
| `SendToken`, `RedeemDenied`, `RedeemedTooLate`, `RedeemedFirst`, `RedeemedNext` | `handleTerminalToken` and `handleCommand` up to its await |
| `Start` with `Spawn` or `Refuse` (in `RedeemedFirst`, `Continue`) | the rest of `handleCommand` |
| `KillSucceeds`, `KillAgain`, `KillGivesUp` | one turn of the loop of `killPtyProcess`, 500 ms after the previous one |
| `DetachAgain`, `DetachGivesUp` | the same of `detachPtyProcess`, for a docker attach |
| `Exit`, `Resume` | the `onExit` handlers of a PTY; the caller that waited for it |
| `Close`, `SocketError`, `ForceEnd` | `handleClose`, `handleError`, `checkActive` with `force` |
| `MaxDuration`, `Idle`, `CheckSent`, `CheckAnswer` | the timer of the maximum duration and `watchTerminalSession`, ending in `endTerminalSession` |
| `Revoke` | external: Coolify no longer allows the session |

Abstractions:

- Whether the command and the host of a token are accepted is a choice
  (`Start`): parsing the ssh command changes no state.
- A PTY obeys or ignores a kill command as it likes; it may exit at any time.
  Only a killed ssh client must exit.
- The answers of the session check are taken at the time of the request and
  arrive whenever they like.
- `Watched` bounds which PTYs reach a limit or are checked; a PTY reaches the
  maximum duration or idleness once, and is not checked again after the last
  failure that counts.
- Input, resize, pause and ping messages, the heartbeat's own timers and
  `pty.spawn` throwing are left out; what the heartbeat does to a dead socket is `Close`.

### TerminalClient

One page of `terminal.js` with the functions it takes from
`terminal-connection.js`. The variables carry the names of the code; `timers`
is the set of armed timers, `ws` the state of the socket, `redeeming` and
`running` what the other end has of this connection (the tokens it redeems, a PTY),
`tab` the visibility together with `wasConnectedBeforeHidden`. `creatable` says
whether the browser accepts the address of the page: `new WebSocket` throws always or
never. A page with `data-auto-start` begins with `starting` and an armed start
limit. `quiet`, `revived` and `told` are history: a clean close, after which the
code does not reconnect; a "connecting" display whose limit was lost; and the
tokens that waited when the page asked the user to try again.

| Action | Code |
|---|---|
| `FirstConnection`, `ReconnectTimer`, `ConnectTimeout` (with `Connecting`, `NotCreated`) | `init`, `scheduleReconnect`, `initializeWebSocket`, `handleConnectionError` |
| `SocketOpens` | `handleSocketOpen` |
| `ClosedRejected`, `ClosedNormally`, `ClosedUnexpectedly` | the three outcomes of `handleSocketClose`, with `handleSocketError` before it or not, and `resetTerminal` after the first attempt |
| `Pong`, `PingTimeout`, `ProbeTimeout` | `keepAlive`, `resetPingTimeout` |
| `Hidden`, `Visible` | `handleVisibilityChange` |
| `StartRequested`, `TokenIssued`, `TokenRefused`, `AutoStartCancelled`, `StartTimeout` | the events of Livewire and the functions `beginTerminalSessionStart`, `failTerminalSessionStart`, `cancelTerminalAutoStart`, `armTerminalSessionStartTimeout` |
| `PtyReady`, `Unprocessable`, `PtyExited`, `StartRejected` | `handleSocketMessage` |
| `Cleanup` | `cleanup` |

The delays of the timers are left out: an armed timer fires at any time. Rendering,
keyboard, touch, console and flow control are not modelled.

### EnvironmentCanvas

A position is the number of the move that chose it, so a larger one is a later
one and 0 is the place before the first move. `stored` are the positions in the
database, `shown` those on the canvas, `full` those of the loaded graph,
`deferred` a graph that waits for the end of a drag, `unsaved` the moves that
wait for the save timer and `settling` the moves that are saved but
not loaded back. `patches` and `get` are the requests in flight. `failed` and `reordered`
are history: the cards of which a save failed, or was stored after a newer one.

| Action | Code |
|---|---|
| `DragStarts`, `DragEnds`, `Click` | `startCardDrag` with `saveGroup` on a server canvas, `queueSave` on an environment canvas |
| `SaveTimer`, `PageHides`, `Leave` | `flushSave`, called by the timer, `onPageHide`, and when the component is destroyed |
| `PatchDone`, `PatchFailed` | the answer of a save: `settle`, `release`, `load` |
| `Refresh`, `LoadDelivered`, `LoadFails` | `load`, one at a time with one queued, `dropSettled`, `applyGraph` |
| `ContainersLoaded` | `loadContainers` of a server canvas |
| `PatchStored`, `PatchLost`, `LoadAnswered` | external: the two endpoints and the network |

Abstractions: one user; cards, zones and groups are all cards; polls, status
events, the refresh button and a tab that becomes visible are `Refresh`; two
updates of the same canvas may be stored in either order. Links, labels,
filters, layout and zoom are left out.

## Runs

| Run | Instance | Shows |
|---|---|---|
| `queue_servers` | 3 rows, 4 servers of which two are build servers of both applications, webhooks that supersede | per-application limit, queue limit, duplicates; slot limit of shared build servers |
| `queue_lifecycle` | 2 rows, the kinds of request, 3 servers for deployments and a build server that two of them use, 1 cancel, 1 force start, failed dispatches, fair workers | no leaked slot, exclusive changes, each job started once, refinement with exempt deployments; runs end, only overlooked rows wait for ever |
| `restart_faults` | 2 rows, 1 cancel, webhooks that supersede, 2 deaths or restarts, fair workers | a superseded build never changes containers, only a waiting job revives a row, runs end unless never dispatched |
| `queue_lost_wakeup` | 2 rows, fair workers | a queued row that nobody wakes (violation) |
| `restart_limit` | 2 rows, 1 restart | two running deployments of one application (violation) |
| `delivery_managers` | 1 occurrence of a task, 2 jobs of it, 2 fair managers, 1 fault of any kind, any losses | one run, one report, nothing reported runs, nothing opens again, every recorded occurrence is closed |
| `delivery_schedule` | 3 occurrences of a backup, one at a repeated local time, 1 manager, lost jobs, 1 kill | no overlapping runs, the repeated time runs once, backups given up only with a reason, no silent miss; refinement of the promise |
| `delivery_unreported` | 1 occurrence, 1 manager crash | a missed run that is not reported (violation) |
| `terminal_server` | 1 socket, 3 tokens, the first attaches, the second is watched | sessions keep their PTY, ends are reported once and truly, unwanted PTYs end |
| `terminal_stale_kill` | 1 socket, 3 tokens, the second attaches | a kill command typed into an attach PTY (violation) |
| `terminal_client` | 2 tokens, 1 start without one, 3 reconnects, 2 missed pongs | a late token survives one reconnect at most, rejections last, nobody is stranded without a reason, starting ends |
| `canvas_moves` | 2 cards, both kinds of canvas, 2 moves, 3 loads | no older answer puts a card back, an environment canvas agrees with the database once everything is saved, every move is saved |

Why the bounds are enough. In the queue every property is about at most two rows
of a target or a server and the third party that interferes. Two rows and a
third one on the same server give every pair of race partners, and a slot limit
of one makes the limits bind. A row that waits for a build slot needs only the
row that holds it. In the delivery, races are about one occurrence:
two managers and two jobs of it are every pair that can meet. Overlap needs two
occurrences, a newer occurrence and the repeated local time need a third;
`delivery_schedule` gives each occurrence one job at a time, since
`delivery_managers` has the second. The sessions of the terminal server share
nothing, so one socket is enough; three tokens give the PTY that is replaced, the
one that replaces it and a third that arrives during the exchange. Two kill
tries and one detach try make both the repetition and the end of each loop
happen, and one counted failure makes the failed checks bind. On the page, two
tokens are the one that waits and the one that overtakes it; three attempts are the
first, one between and the last one, two missed pongs the first and the last one. On the canvas, two moves are
the older and the newer value of one card or one move of each, and three loads
are the one in flight, the queued one and the one that a failed save asks for.
No symmetry is used: the instances either name their members or check liveness.

Deadlock is checked in the delivery, where a manager can always start again.
Everywhere else the system may stop: the bounds on rows, tokens, moves and
faults are used up, or the page has been left.

Fairness. An open transaction commits or is rolled back; Horizon delivers jobs;
a worker goes on; a deployment has finitely many commands (`SF` on
`JobLastCommand`: the loop of checks and commands is left some time). Users
and webhooks are not obliged to do anything. `RestartFairness` adds that Redis
delivers a reserved job again. In the delivery the scheduler starts a manager
every minute and it goes on, workers drain the queue, time passes and locks
expire (`WF` each). Nothing forces an occurrence to become due, a body to throw
or a job to be kept: the queue may lose every job, and the age limit of 24
hours still ends the retries. In the terminal server the 500 ms timers of the kill
loops fire (`WF` for each number of tries, so that one call cannot starve
another), a killed ssh client exits, checks are sent and answered or
time out, and a resolved promise continues. Browsers and shells need not do
anything. The page's three timers that limit a wait fire (`StartTimeout`,
`ReconnectTimer`, `ConnectTimeout`); the network, the server and the user need
not do anything. On the canvas the save timer fires and every request ends, stored
or lost.

## What the violations show

1. *Lost wake-up.* An ending job writes its row and takes the snapshot of its
   pass without the admission locks. An admission that still read it as running
   commits a queued row afterwards, and nothing starts that row until something
   else on the server ends. `OnlyOverlookedWaits` shows that a queued row is
   forgotten in the model only in this way or in the way of the first item below.
2. *Restart.* A job that waited in Redis revives the row that `app:init` failed.
3. *Silent miss.* A manager that is killed between the update to `failed` and
   `reportMissedOccurrence` leaves a row that no later manager looks at.
4. *Stale kill.* The loop of `killPtyProcess` looks 500 ms later whether the
   session is active and types into the PTY it has then. If the old shell has
   exited and another token has started an attach session meanwhile, the kill command
   goes to the main process of the container, which the comment on `isAttach`
   excludes.

The models contain further behaviour that a reader may not expect and that no
run states as a violation:

- A queue pass looks at the team's other servers only if the application has build
  servers for its primary server (`start_next_queued_deployments`). Let an
  application build on its primary server itself and use a build server for an
  additional server that is set to deployments only. A deployment of the additional
  server that ends early (its dispatch fails, or the job rejects a deployment of an
  additional server without a Docker image name) gives back the build server's
  slot, and the pass leaves out the row of another application, on a third server, that
  waits for it (`"builder"` in `overlooked`). The comment above the code says that a
  build frees a slot that deployments on other servers can wait for.
- The socket closes or the connection timer fires while a token waits: the page asks
  the user to try again, keeps the token, and the next connection sends it, although a comment in
  `armTerminalSessionStartTimeout` says that tokens must not be sent after the user
  was told to retry. `LateAtFirstReconnectOnly` bounds this: from the second
  reconnect on, `resetTerminal` has dropped the token. The "connecting" display of such
  a token has no limit (`revived`, left out of `StartEnds`), nor has that of a start
  whose timer fired over an earlier terminal.
- During a drag on a server canvas a load returns a saved move, which is
  therefore held back no more, and its graph waits for the end of the drag. The answer of
  the containers or of another save replaces the waiting graph by the older one on
  the canvas, so the card steps back until the next load. `NeverPutBack` leaves
  this drag out and holds everywhere else, although the comment on `settling`
  includes a drag.
- A cancel that arrives between the terminal check and the write of
  `transitionToStatus` is overwritten.
- If a backup waits an hour in a long queue it gets a second job. If both start
  together, the one that finds the overlap lock held skips the occurrence that
  the lock holder has not claimed yet.
- The replacement of a superseded build is started by
  `CancelSupersededDeploymentJob` or by any other queue pass before it.
- A lost backup can be published next to a newer occurrence that a second manager
  records between the check and the update of `recoverUnstartedOccurrence`;
  `BackupGivenUpWithReason` shows the direction that matters.
- A PTY can start after its socket has closed, when the token waited for the
  previous PTY; `odd` marks it. As long as its session is in `userSessions`, the limits of
  the session end it. Once the close has removed the session, nothing does: `killPtyProcess`
  looks it up there and returns at once, and the PTY runs until it exits by itself. `StaysControlled`,
  `NoPtyLeftBehind` and `UnwantedPtyEnds` therefore leave `odd` PTYs out.
- A missed pong does not arm the timer again, so a silent connection is closed
  only by the probe of a tab that becomes visible.
- Two saves of one card that the server stores in the other order leave the older
  place in the database (`reordered`); the canvas takes it over with the next load.

## Proofs

All theorems hold for every value of the constants that satisfies the
assumptions of the modules.

`DeploymentQueue_proofs` assumes finite servers, limits in `Nat`, requests of
the record type and an application that is never its own build server. It proves
`TypeOK` and, from the inductive invariant

    IndInv == TypeOK /\ JobRow /\ DeployMarked /\ SupersededRows /\ OneOccupant

the properties `OneRegularPerTarget`, `NoLeakedSlot`, `SupersededNeverDeploys`,
`ExclusiveChange` and `StartedOnce`. `OneRegularPerTarget` alone is not
inductive: an open admission that decided to start occupies its target before
its row is visible (`Occupies`), only the application lock keeps a second
decision away (`OneOccupant`), and a waiting job that claims its row must find
it already in progress (`JobRow`). `SupersededNeverDeploys` needs the mark
`deploy_started_at` (`DeployMarked`) and the row lock of the supersede update
(`SupersededRows`).

`DeploymentAdmission_proofs` proves `QueueWithinLimit` and
`DuplicateOnlyOnRequest` from

    AdmInv == RowsInOrder /\ LiveDuplicates /\ OpenAdmissions /\ QueueWithinLimit

What an admission counted or looked for before it created its row is true until
it commits (`OpenAdmissions`): rows only leave the queue meanwhile, because
every admission that could add one waits for the same locks. `RowsInOrder` and
`LiveDuplicates` relate a pair of rows to the order they were created in.

`DeploymentPromise_proofs` proves `SlotsWithinLimit` and the refinement
`ImplementsPromise`, from `IndInv` and

    SlotInv == OpenReplaces /\ LocksDisjoint /\ KeepsBuilder /\ KeptStart
               /\ SlotsWithinLimit

The limit is not inductive: an admission counts the builds of a server in one
step and its row joins them in a later one. It stays true because the count can
only fall meanwhile (`KeptStart`): whoever could add a build of that server
waits for its lock (`LocksDisjoint`), and a regular deployment in progress does
not move to it, because it keeps the server it was placed on (`KeepsBuilder`;
`selectBuildServer` takes no lock). The counts are compared with the library's
facts about cardinalities. For the refinement, every action is shown to be a step
of the promise on the mapped rows (`View`) or to change none of them:
`AdmitCommit` submits, replacing what `OpenReplaces` says, `PassStep` and
`ForceStart` start, the ends of jobs and cancels end, `selectBuildServer`
relocates.

`DeploymentRestart_proofs` proves `RestartTypeOK`, `RevivedOnlyFromQueue` and
`SupersededNeverDeploys` of the queue with deaths and restarts.
A restart breaks `OneRegularPerTarget`; what it keeps is that the job of a row that
finished or failed is never dispatched again, and waits in Redis only when a restart
failed the row (`EndedJobs`). `SupersededNeverDeploys` survives, but not by the
invariant above: after a crash a row in progress may have no job and an ended row
may run again. It follows from

    CrashInv == TypeOK /\ JobsAfterCrash /\ DeployMarked /\ SupersededEnds

A superseded row stays cancelled unless its own job, past the terminal check or
delivered again, stores the end; such a job is never claimed again
(`SupersededEnds`), so the revival that breaks the limits cannot reach it. A
restart rolls open admissions back together with what they superseded.
`OneRegularPerTarget`, `SlotsWithinLimit`, `NoLeakedSlot`, `ExclusiveChange` and
`DuplicateOnlyOnRequest` do not survive a restart.

`ScheduledDelivery_proofs` proves `TypeOK`, `BodyRunsAtMostOnce`,
`MissedNeverRuns`, `MissedReportedOnce`, `ClosedForever`, `OneRunAtATime`,
`TwinRunsOnce`, `MissedIsReported`, `BackupGivenUpWithReason` and the refinement
`ImplementsDeliveryPromise`. The main inductive invariant is

    IndInv == TypeOK /\ RecordedInv /\ UnstartedInv /\ TokenInv /\ ReporterInv
              /\ BodyRunsAtMostOnce /\ MissedNeverRuns /\ MissedReportedOnce

`BodyRunsAtMostOnce` needs that an open row was never run (`UnstartedInv`),
which the conditional updates of `claim`, `publish` and
`recoverUnstartedOccurrence` keep, and that a job which has not claimed does not
hold the token (`TokenInv`), so that the second branch of `claim` admits nobody.
`MissedReportedOnce` needs that two managers never both moved one row
(`ReporterInv`), `ClosedForever` that the state row remembers a deleted
occurrence (`RecordedInv`). Four properties have invariants of their own:
`OneRunAtATime` has `LockInv` (a job between lock and release holds the lock),
`TwinRunsOnce` has `TwinInv` (of the two occurrences of a local time at most one
has a row), `MissedIsReported` has `ReportedInv` (a claimed row has run, the
resource exists, and an idle manager has nothing left to report). `MissedIsReported` is proved
for managers that do not crash and resources that are not deleted
(`"crash"`, `"delete"` not in `FaultKinds`); with a crash it is violated.

`BackupGivenUpWithReason` has `ReasonInv`: a manager that read "give up" and has
not updated the row yet still has a reason, because `last` only grows and rows
only get older (`ReasonKept`), so that what was read before the update is not
stale in this direction; and a token is stored only by a claim, so nothing but
`recoverUnstartedOccurrence` fails an open row (`OnlyRecoveryFails`). A newer
row counts as well as the state row, which it implies (`NewerIsRecorded`).

The refinement of `DeliveryPromise` needs `IndInv` and `LockInv` together:
`ClaimView` shows that `claim` starts an open occurrence that never ran while
`busy` is empty, `RecordView` that a due occurrence is the next one without a row
(`DueIsNext`), `ReportView` that the reported one is closed and never ran,
`StopView` that the body that ends was the only one, and `RowsCloseView` that
every other write of a status, including those that do not look at it, closes rows
or changes nothing that is seen.

`TerminalServer_proofs` proves `TypeOK`, `StaysControlled`, `NoPtyLeftBehind` and
`ReportIsTrue` from

    IInv == TypeOK /\ Homes /\ Stages /\ Sessions /\ Listing /\ Checks /\ Callers
            /\ Targets /\ Resumed /\ Provenance
            /\ StaysControlled /\ NoPtyLeftBehind /\ ReportIsTrue

The three properties depend on each other. A handler that waits for a kill must
be the one of its token (`Callers`) and wait for the PTY that it names
(`Targets`); when an exit resolves it, its session runs at most a PTY that is marked
in `odd` (`Resumed`), so that the new PTY takes the session from no other one. Truth of a report needs that an end reason
that is still set belongs to the PTY the session has now (`Provenance`) and that a
check in flight says what Coolify said (`Checks`).

`TerminalClient_proofs` proves `TypeOK`, `LateAtFirstReconnectOnly`,
`ReconnectOnlyWhenClosed`, `StrandedForAReason` and `RejectedStaysOut` from

    IInv == TypeOK /\ Tries /\ Tokens /\ NoSocket /\ LateToken
            /\ ReconnectOnlyWhenClosed /\ StrandedForAReason

where `Tries` says that a timer is armed only while its counter leaves another try
and `Tokens` that a token is issued before it waits or is sent and never kept after it
was sent. `LateToken` says that a token kept past an error has at most one attempt behind
it: an open socket resets the attempts, a close after the first attempt drops the token,
and a page that cannot create a socket (`NoSocket`) never sends it.

`EnvironmentCanvas_proofs` proves `TypeOK`, `NeverPutBack` and `CanvasAgrees` from

    IInv == TypeOK /\ Agreed /\ \A c \in Undisturbed : CardInv(c)
    CardInv(c) == InOrder(c) /\ Requests(c) /\ Answers(c) /\ Display(c)

for the cards whose saves succeed and are stored in their order (`failed` and
`reordered` are the others). The newest sent move of a card is either held
(`settling`) or in the database (`Flushed`); its request is in flight until it is
settled (`Requests`), so an answer of a load that started later has it
(`Answers`), and this is what `dropSettled` relies on. The proof covers any
number of moves and loads; a run with two moves cannot show what three requests
of one card in flight do when the server stores them in another order, which is
why `Undisturbed` leaves reordered cards out.

Only model-checked:

- liveness, which is out of the prover's reach: `EveryRunEnds`,
  `OnlyOverlookedWaits`, `EndsUnlessNeverDispatched`, `EveryOccurrenceCloses`,
  `UnwantedPtyEnds`, `StartEnds`, `EveryMoveSaved`;
- the properties of the violation runs, which do not hold.

## Not modelled

- *Multi-server notification, database operation reservation, resource start
  activity, volume backup and recovery.* They coordinate through cache flags,
  locks and rows, and come next in the plan.
- *GitHub deployment sync, GitHub runners, managed DNS records, delivery
  failures.* They follow remote services whose order and answers the repository
  does not fix, or count on their own.
- *SSH multiplexing, key rotation, server connection checks.* Their state is in
  sockets and files of the host, and the last result counts.
- *Deploy canvas, canvas layout, runtime logs.* One user edits or looks at one
  page; the layout is geometry on floating-point numbers and has unit tests.
- *Build packs, proxy configuration, Docker commands, UI, API, authentication,
  image scanning, billing, server transfer.* Text, input and data conversion
  without coordination.
- *Inside the modelled parts*: what the commands of a deployment and the bodies
  of scheduled jobs do, notifications, the batch limit of the delivery, links
  and filters of the canvas, rendering and input of the terminal, and a
  `pty.spawn` that throws.

About 52,000 of the repository's 64,000 lines of JavaScript are the vendored
Monaco editor. The hand-written rest that keeps state across events is the terminal
server, the terminal page and the canvas. The larger part of the
program is PHP.

## Plan

1. `MultiServerNotification`, composed with the queue's terminal states.
2. `DatabaseReservation` with the start activities; an abstract "one operation
   per database".
3. `VolumeBackup` with its recovery job.
4. `GithubDeploymentSync`, `DeliveryFailures`.
5. Abstract specifications of the terminal's sessions and of the canvas, with
   the refinements proved.
6. Proofs: `QueueWithinLimit` under restarts, where TLC finds that it holds.
