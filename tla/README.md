# BlockOps in TLA+

BlockOps is a dashboard for one Minecraft server: a Go process that serves an
API and a web UI, keeps accounts, sessions, grants, backups and audit events in
SQLite, talks to the game server over RCON, and starts and stops its container
through a small guard in front of the Docker socket; and a React application in
the browser whose pages, dialogs and forms ask for all this. This directory
models the parts of it whose correctness depends on the order of steps: what
happens when requests overlap, when one step of several fails, when an answer is
late or lost, when the process dies and when a page is left before its answer
comes. Every definition is translated from the source; the map in
`PROJECT.json` names the lines.

## 1. Inventory

The server (paths below `src/backend/internal`):

| Component | Source | State | Operations | Talks to |
|---|---|---|---|---|
| World replacement | `operations/worlds.go`, `archives.go` | directories `world`, `world_nether`, `world_the_end`; staging and rollback directories | RestoreBackup, ReplaceWorldZip, installStagedWorlds, rollbackWorlds | Docker client, game server's directory |
| World archives | `operations/archives.go`, `service.go`, `tar.go` | `operationMu` | CreateBackup, PrepareWorldDownload, withConsistentWorld | RCON (`save-off`, `save-all flush`, `save-on`), Docker inspect |
| Backup catalogue | `operations/archives.go`, `store/backups.go`, `httpapi/world_handlers.go` | `BackupDir/<id>.tar.gz`, table `backups` | create, delete, restore, download | world archives, world replacement |
| Accounts | `store/users.go`, `sessions.go`, `servers.go`, `httpapi/auth_handlers.go`, `admin_handlers.go`, `middleware.go`, `auth/*` | tables `users`, `sessions`, `server_grants` | setup, login, logout, reauthenticate, create, disable, promote, demote, revoke, grant | every route |
| Login limiter | `httpapi/ratelimit.go` | attempt windows per key, at most 10 000 | Allow, Reset | login, reauthenticate |
| Console hub and stream | `console/hub.go`, `httpapi/game_handlers.go` | file offset, ring of 2 000 lines, sequence, subscribers of 128 lines | poll, publish, subscribe, History | log file, accounts (recheck), browser |
| RCON credentials | `minecraft/integration.go` | credentials in memory and encrypted row | Update, NewIntegration | world archives, console commands |
| Audit log | `store/audit.go`, `httpapi/audit.go` | append-only table | record, page, export | every mutation |
| Migrations | `store/migrate.go`, `store.go` | schema version | migrate, adopt, check | start-up |
| Extraction | `operations/zip.go`, `tar.go` | running totals | extractWorldZip, extractBackup | world replacement |
| RCON client | `minecraft/rcon.go` | none | one exchange | RCON credentials |
| Docker guard and client | `cmd/docker-guard/main.go`, `dockerapi/client.go` | none | inspect, stats, start, stop, restart | container |
| Overview, players | `operations/overview.go`, `players.go` | none | readings, fixed commands | RCON, Docker |
| Start-up and shutdown | `cmd/blockops/main.go`, `config/config.go` | none | wiring, bounded shutdown | all |

The browser (paths below `src/frontend/src`):

| Component | Source | State | Operations | Talks to |
|---|---|---|---|---|
| Pages, dialogs, forms | `features/{overview,backups,players,worlds,settings}`, `app/shell` | the open dialog, what forms hold, one mutation hook for each kind of request | open, close, confirm, edit, submit, hear an answer | API, permissions |
| Permissions and routing | `features/auth/permissions.ts`, `app/routing` | none | who may open a page, press a button | session |
| Signing in and out | `features/auth`, `lib/api/api.ts`, `app/bootstrap.tsx` | two cached queries, the CSRF token, the shared cookie | setup, login, logout, what is shown | accounts |
| Cached views | the `*-query.ts` files and hooks, `app/providers/query-provider.tsx` | a cache of queries | read, poll, invalidate | API |
| Audit trail | `features/audit` | pages loaded of each filter | filter, load more, read again | audit log |
| Console client | `features/console` | socket, redial timer, merged lines, command field and its recall | connect, redial, stop, type, submit, recall | console hub |
| Shared UI package | `packages/ui/src` | whether a modal is open | the ways to close it | pages |

How they interact. Every request runs in its own goroutine. It reads its session
once (`authenticated`), decides once (`require`, `Authorize`), and then the
handler works. World operations share one mutex, `operationMu`, held across
Docker, RCON and disk; the lifecycle buttons (`ContainerAction`) and the download
of a stored backup do not take it. SQLite has one connection, so a transaction
is atomic, but a handler makes several. The game server is a process of its
own: it saves its world when it likes, creates directories it misses when it
boots, and is started and stopped by Docker, by the operators and by BlockOps.
A browser tab has one thread, but everything it asks is answered later, when the
page, the dialog, the form, the account or the cookie may be another; its tabs
share the cookie and nothing else. What a page offers is decided by the
browser's table of permissions and what is served by the server's.

What is hard, and what makes each part correct:

- *World replacement.* Up to eight steps that each may fail, after the server
  was stopped. No world may be lost, no mix of two sets served, a failure must
  put the old set back, and the server must come up again.
- *World archives.* The save mode is state inside another process, changed by
  calls whose answers may be lost. An archive must be one moment of the world;
  a server must not be left in `save-off`; the mutex must come free.
- *Backup catalogue.* A file and a row, written one after the other, with
  readers under and outside the mutex. They must agree, or differ only for the
  backup a failure was about; a backup must exist whole, once, until deleted.
- *Accounts.* Four steps from cookie to commit, with the account changing
  between any two. There must always be an active owner, and a disabled account
  must stay out whatever was in flight.
- *Console.* Rotation of the log between polls, lines dropped by a full
  buffer, sequence numbers that restart, streams that outlive their grant, a
  socket that is replaced while its events are still to come.
- *Login limiter.* Bounds at the edge of a window and of a full table, with
  callers that waited for the lock.
- *RCON credentials, migrations.* A row and a copy in memory that two updates
  write in turns; a crash between a commit and its check.
- *Extraction.* Archives that lie about their sizes, and sums that wrap.
- *Audit log.* Pages read at different times of a log that grows, with times
  taken before the insertion and identities in no order.
- *Pages, dialogs, forms.* Answers that come after the surface they belong to
  was closed, opened again for something else, edited, or left.
- *Signing in and out.* Reads of the session in flight across a login or a
  logout, another tab's cookie under this tab's token, failed background reads.
- *Cached views.* A read under way as a mutation succeeds, answered with the
  state before it.

The hazards, each at its line and with the properties that would catch it, are
listed in `PROJECT.json`.

## 2. Modules

| Module | What it is |
|---|---|
| `WorldReplacement` | abstract: the set of worlds changes in one step, to a whole archive, or not at all |
| `WorldSwap` | the replacement, one rename a step, with rollback, failures, crash, lifecycle requests |
| `WorldOperations` | `operationMu`, archives with their RCON exchanges, replacements in coarse steps, the game server |
| `BackupStore` | abstract: a backup is unborn, stored, gone |
| `BackupCatalog` | files and rows, one write a step |
| `Accounts` | accounts, ownership, grants, sessions and the requests on them |
| `ConsoleHub` | the log, the hub that reads and numbers it, the streams, the lines the browser merges |
| `StreamClient` | the browser's sockets and redial timer |
| `CommandForm` | the command field, its outcome and its recall |
| `LoginLimiter` | the table of attempt windows |
| `RconCredentials` | row and copy under concurrent updates |
| `Migrations` | schema versions across starts of different builds |
| `Extraction` | an uploaded archive's entries under the size limit |
| `AuditLog` | insertion, cursor pages, export |
| `AuditTrail` | extends it: the browser's infinite query |
| `Permissions` | both tables of permissions, as operators |
| `Surface` | what pages share: one dialog, forms, mutation hooks and the requests they observe |
| `OverviewPage`, `BackupsPage`, `PlayersPage`, `WorldsPage`, `SettingsPage` | one page each, extending `Surface` |
| `Surfaces` | composes the pages: navigation, roles, late answers |
| `SignIn` | one tab, the server's sessions, the cookie and other tabs |
| `Views` | the query cache, its reads and invalidations |
| `WorldSwapMC`, `WorldOperationsMC`, `BackupCatalogMC`, `AccountsMC` | fault sets and symmetry for TLC |
| `ConsoleMC`, `BrowserMC`, `PagesMC`, `StorageMC` | run several modules, one at a time (section 3) |
| `WorldSwapProofs`, `WorldOperationsProofs`, `BackupCatalogProofs`, `AccountsProofs`, `ConsoleHubProofs`, `ClientProofs`, `PagesProofs`, `StorageProofs` | theorems |

Definitions marked *variant* beside an action are the mistakes a change could
introduce there (a lock not released, a check dropped); each property is shown
to fail under at least one of them. They belong to no specification.

### WorldSwap

`live`, `aside` and `staging` are, per world name, the directory of that name in
the data directory, in the rollback directory and in the staging directory;
`attic` is what abandoned rollback directories hold. A directory is only its
identity: contents, permissions and archive formats are not told apart.
`pc = "idle"` is the free mutex, since a second replacement waits for it.
`idx` is where the current loop over `worldNames()` is; `NextDir` is its loop
head. `Stage` is everything before downtime, `StopServer`, `MoveAside`,
`Install`, `StartServer` the good path, `UndoRemove`, `UndoRename`, `UndoStart`
`rollbackWorlds` and the start after it. `Return` includes the deferred
`RemoveAll` of the staging directory. Failures are enabled by the
constant `Faults`; a *lost* stop or start took effect although the caller got
an error (the request's context is passed on to Docker, and the client has a
time-out). `Crash` runs no deferred call. `OperatorAction` is `ContainerAction`.
`CreateMissing` is the game server, which creates a world directory it does not
find. `prior` and `archive` remember what was live and what was to be installed.

### WorldOperations

Each request is an archive (`CreateBackup`, `PrepareWorldDownload`) or a
replacement. `Inspect` to `SaveOn` are `withConsistentWorld`: note that
`SaveOff` returns without reaching the deferred save-on when it fails, and that
only an answer "not running" selects the direct path. `dirty` says that the
server holds changes not on disk and `whole` that the archive of a request is
one state of the world so far: it becomes false when anything is written to the
world while it is read. `Play` and `AutoSave` are the game server; starting it
turns auto-save on, stopping it writes everything. A replacement is `Stop`,
`Replace`, `Start` and, after a failing rename or an unanswered start, `RollBack`
with its second start. A stop or start may fail without effect or take effect
while its answer is lost. One that takes effect only after the operation has
returned is, to the operation after it, a lifecycle request.

### BackupCatalog

One action per write: the archive, the rename to its final name, the insert,
and for a delete the lookup, the unlink, the row. `Open` and `Serve` are a
download, which never takes the mutex. `used` are identifiers ever drawn
(16 random bytes, taken as never repeating). `torn` is a history variable: the
backups on which a failure the code cannot undo, or a crash, has struck.

### Accounts

A request is at `authorize` with the session it has read, at `check` with the
decision made, at `write` with its target looked at; `issue` is a login or a
setup whose account is verified and whose session is not yet inserted. Each
write is one action, guarded by what its transaction reads again:
`DisableUser` and `SetFleetOwner` count the active owners, `SetFleetOwner` also
reads `disabled`, `SetServerGrant` checks nothing but the foreign key. `Refuse`
covers every error answer. Roles other than administrator are alike here: none
of them may do what these routes do.

### ConsoleHub

The log is counted in writes, two to a line, through all its files: `first` is
where the current file begins. `Position` is where the next poll seeks to
(`Resume`: near the end of an old log at first, back to the beginning of a file
shorter than `offset`). A poll is a sequence of `ReadLine` and ends with
`ReadPartial` (the unfinished line is taken back) or `ReadFails` (what was read
of the line is not). `Publish` numbers a line, appends it to the ring and offers
it to every stream; a full channel misses it. A line is its number, where in
which file it is in the log, and the process (`epoch`) that published it; the
text is left out. `Connect`, `Subscribe`, `Deliver`, `Recheck` are
`consoleWebSocket`, whose loop takes lines and recheck ticks in any order;
`session` and `granted` are what `consoleStillAllowed` reads. `live` is the
browser's state of the open page, lost when it is left (`Remount`), `history`
the cached answer of the history route, and `Merge` what the page shows of both.
A missing log file and the reconnection delay are the hub's and the browser's
doing nothing.

### StreamClient and CommandForm

`StreamClient` is `connectConsoleStream` with the hook around it. `socket` is the
closure's variable, `sockets` what the browser knows: a socket whose handlers
were taken off still closes, and `Attached` is the test at the head of every
handler. `timer` is the scheduled redial, `attempt` what the delay is computed
from (`ReconnectDelay`); counting stops at `MaxAttempt`, after which the delay no
longer grows. In `CommandForm`, `action` counts edits and submissions as
`actionRef` does, and decides whether an answer still belongs to the field;
`execution` is the mutation the hook observes. A valid command is its identity,
everything else is `NoCommand`. Pausing and filtering the output are left out.

### LoginLimiter, RconCredentials, Migrations, Extraction

`LoginLimiter`: `Allow` takes the time its caller read *before* the lock, up to
`MaxLate` ticks ago, purges windows that are over by that time, refuses a new key
when the table is full, and begins or counts a window. `passed` remembers of each
key how long ago its last `2 * Limit + 1` attempts were let through, which the
properties are about; longer ago than a window and the callers' lateness is not
told apart.
`RconCredentials`: an update is `BeginUpdate`, `SetServerSecret` (the row, outside
the lock) and `ReplaceCopy`; `crossed` says that a row was written between
another update's two writes. `Migrations`: `OpenStore` refuses a newer schema,
`ApplyMigration` is one transaction, `CheckReferences` the check after the last;
a process may end anywhere. `times` counts how often a version took effect.
`Extraction`: sizes are unsigned numbers of `Width` bits (`Wrap`), and `Exceeds` is
the comparison of the code, by subtraction; a file is read one byte past what it
declares, a number that is converted to a signed one (`Signed`), as is the size
that what was written is compared with. All refusals for paths and links are one,
`RefuseEntry`.

### AuditLog and AuditTrail

An event's time is taken up to `MaxLag` before it is inserted, and identities are
random, so insertions happen anywhere near the newest end. `ListAudit` is one
statement: the newest rows older than the cursor. An export is a sequence of
them, `known` what was there when it began. `AuditTrail` keeps for each filter
the pages of its infinite query; `reading` is the fetch under way, which for a
reread begins each page where the page before it, as *just read*, ends. `LogSpec`
has the export and the page read one log while it is written.

### Permissions, Surface, the pages, Surfaces

`Permissions` has the browser's table and the server's side by side and no state:
`PageNeeds` and `RouteNeeds` are the permissions of the routes that a page reads
and of those that what it offers leads to. What it offers is in `Surfaces`:
`Buttons` (the actions of its dialogs and forms) and `Links` (the downloads of a
backup and of the world, the export of the audit log, the console's command form).
In `Surface`, a page has one dialog (modal, with the number of its opening),
drafts, and requests sent through hooks; `observed` is the request a hook still
hears of, 0 after `reset()`. An answer that nobody observes changes nothing
(`RequestUnheard`), as the callbacks passed to `mutate` are then not called.
Each page module has its buttons, its dialog's ways out (Cancel is disabled while
busy, Escape and the X are not), confirm, and what a success does. `Fresh` mounts
a page anew: it is what navigation does, what a role change does when the page
may be opened before or after but not both, and what a failed read does to the
settings, whose cards unmount. Roles change because the session is read again
after another tab signed in.

### SignIn

`Screen` is `AuthenticationBoundary`, branch by branch. A request carries the
cookie of when it is sent (`Asking`), is served later (`Serve...`) and heard
later still (`...Heard`), when its answer sets or clears the cookie. A session
number stands for cookie, CSRF token and what the session endpoint returns.
`lookedUp = FALSE` is a lookup that failed: `authenticated` answers it like an
unknown session. `OtherTabSignsIn` changes the cookie under this tab. One sign-in
or sign-out of the tab is under way at a time, since its screens offer one.

### Views

`version` counts changes of the server's state; a cached answer holds the version
of when it was given. `GoTo` mounts a page, `Invalidate` is `invalidateQueries`,
`Succeeds` the `onSuccess` of the mutation hooks, `RefreshOverview` the later
refresh after a lifecycle action, which Docker accepts before the state changes.
`blind` marks a read that an invalidation did not reach, which is the library's
rule: the first read of a query, or that of a page left since, goes on. The rules
of TanStack Query v5 are external; which queries there are, when they are stale,
polled and invalidated is the code's.

## 3. Runs

| Run | Question | Result |
|---|---|---|
| `swap_kept` | Can an unsuccessful replacement lose a world, whatever fails, crashes or is started and stopped beside it? | no, provided moving aside does not fail (`PriorKept`) |
| `swap_whole` | With truthful failures and operators who stop the server: does the swap look atomic (`AtomicReplacement`), is one whole set served (`ServesWholeSet`), does an error restore the old set (`ErrorRestoresPrior`)? | yes |
| `swap_downtime` | Once worlds are being moved, does the server come up again (`DowntimeEnds`), whatever step or rename fails? | yes, provided the last start succeeds and the process lives |
| `swap_aside_fails` | The same as `swap_kept` when moving aside fails | a world is deleted |
| `operations_whole` | World operations from the button to the archive and the log (`PagesMC`) | yes, see below |
| | *operations*: all faults and crashes, no lifecycle request: is every archive reported as made one state of the world (`WholeArchives`)? | |
| | *surfaces*: does every outcome stay with the dialog or form it belongs to (`SurfacesKeepApart`, `AnswersStayHome`), and is every page, button, form and download that is offered also served (`OfferedIsServed`)? | yes, but for what belongs to the fleet |
| | *signIn*: does the server act only for the account shown (`ActsAsShown`), is a session signed out of never shown again (`SignedOutStaysOut`), does a dashboard that is shown survive failed reads (`DashboardStays`)? | yes, but for the setup status |
| | *export*, *trail*: is the log read in order, once, and whole (`LogReadWhole`)? | yes, an export up to its limit |
| `operations_saves` | What has to go on (`BrowserMC`) | yes |
| | *operations*: operators start, stop and restart at will: is auto-save on again after every operation (`SavesResumed`) and every waiting request answered (`Answered`)? | |
| | *views*: does fresh data show every confirmed change (`ConfirmedIsShown`), does polled data catch up, also after errors and after the page was left and shown again (`ViewsCatchUp`)? | yes, but for reads an invalidation does not reach |
| `operations_stranded` | `SavesResumed` when a save-off takes effect and its answer is lost | the server stays in save-off |
| `operations_operator_start` | `WholeArchives` when an operator starts the stopped server | a torn archive is reported as made |
| `catalog_faults` | What is kept in two places or written in several steps (`StorageMC`) | yes |
| | *catalog*: every fault and crash: do files and rows implement `BackupStore` (`StoredOnce`), do readers keep their file (`ReadsStoredArchive`), does only a delete delete (`StoredUntilDeleted`), do file and row agree but for torn backups (`CatalogMatchesDisk`)? | |
| | *credentials*: would a restart load what commands are sent with (`CredentialsAgree`)? | yes, unless two updates cross |
| | *schema*: is the schema served the build's, every version applied once (`SchemaServed`)? | yes, references checked by who migrated |
| | *extraction*: can an archive fill the disk, or hold other than it says (`ExtractionHonest`)? | no |
| | *limiter*: are attempts bounded and refusals justified (`AttemptsLimited`)? | yes, up to the lateness of callers |
| `catalog_undeletable` | Is a delete refused as not found only for a backup that is not listed? | no: after a failed row deletion the backup stays listed for good |
| `accounts_owners` | Is there always an active owner (`ActiveOwnerExists`), does a disabled account stay out (`DisabledLockedOut`), do only owners change accounts (`AccountsChangedByOwners`), is no disabled account promoted (`NoPromotionOfDisabled`)? | yes |
| `console_streams` | The console (`ConsoleMC`) | yes |
| | *hub*: a log that grows and rotates, failing reads, overflowing ring and stream, reconnections, a restart: do numbers follow the log (`NumbersFollowLog`, `NoLineSkipped`, `RingHoldsNewest`), does a stream bring lines in order and once (`StreamAscends`), does the page show the newest lines it has (`ViewIsNewest`), are lines published (`LinesArePublished`), does a stream end with the access (`RevokedStreamEnds`)? | yes, within one process for the view, and before a rotation for `LinesArePublished` |
| | *stream*: is the page wired to one socket, and shows so (`StreamWired`), does it dial until it is left, after half a second at first and then after twice the wait before (`DialsAgain`)? | yes |
| | *form*: do field, outcome and recall survive late answers (`FieldKept`, `RecallInRange`)? | yes |

**Several modules in one run.** `ConsoleMC`, `BrowserMC`, `PagesMC` and
`StorageMC` extend modules that have no variable in common, and a variable
`focus`, chosen in the initial state, says which of them takes steps; the others
rest in an initial state (in `Views`, in one that is reachable). Since none reads
another's variables, each part does under its focus exactly what its own
specification does, and the states of the run are the sum of the parts' states
instead of their product; a property of one part is judged on all of its
behaviours and, besides, on the resting ones, where it holds. Fairness is stated
per part, under its focus.

**Type invariants.** Each module has one. Those of the modules with a proof
module are theorems (section 5) and not checked again by the runs; the others
are conjuncts of a property that runs and is a theorem: `SurfacesTypeOK`,
`AuditTypeOK` and `TrailTypeOK`, `ViewsTypeOK`, `FormTypeOK`, `LimiterTypeOK`.

**Bounds.** *World names*: the code uses three, and `swap_whole` has three; two
are enough for a loop to stop half way (`swap_kept`, which has every fault but one).
*Saves*: two identities tell an old set from a new one and from a mix.
*Requests*: two interleave and a third is overtaken; more only wait for the
mutex. For accounts, two requests are two owners acting on each other, and the
two sessions are one for each, or one spent and one new. *Backup
identifiers*: two, so that one backup is made while the other is read or
deleted; it bounds the backups ever made. *Accounts*: two,
the least for a last owner to differ from an ordinary one. *Roles* of `Accounts`:
one, since none but administrators may do what these routes do; the pages have
all three. *Console*: three lines in six writes (`MaxWrites`) overflow a ring
and a page of two lines and a channel of one, are more than a starting hub reads
(`TailSize`), and make up to three files; `MaxRestarts` 1 renumbers; one browser,
since browsers share nothing but the ring (the proofs are for any number).
*Sockets*: two `Slots`, an old one still closing and its successor; `MaxAttempt` 7
is past the attempt at which the delay reaches its ceiling. *Command field*:
three commands are more than the `RecallLimit` of two keeps, and eight actions
(`MaxActions`) send three and recall them. *Sign-in*: two sessions (`MaxIssued`)
are one to leave and one to enter, or this tab's and another's. *Pages*: two
dialogs and two requests while a page is mounted (`MaxOpened`, `MaxRequests`) are
one closed and one opened before its answer; two texts tell a form's value from
the one that was sent; navigation starts afresh, so nothing adds up. *Audit*:
three events at two times (`MaxTime`), inserted up to one tick late, read one to
a page: the export's limit of two is reached and the page (`MaxPages` 3) ends.
*Views*: the overview, which is polled and read on every page, and the players
page, which is polled while it is shown, left, and shown again; a page that is not
polled behaves as this one does between polls. One change of the server
(`MaxVersion`) tells an old answer from a new one. *Credentials*: two updates of two values cross. *Builds*: 3 and 4, one older
than the database the other leaves. *Extraction*: sizes of four bits and a limit
of six, the largest for which one byte more is still a signed number, so that
sums wrap and sizes turn negative beyond it; entries that hold less, as much, more,
and more than a size can say; four entries. *Limiter*: two keys and a table of
one (`MaxKeys`) make a full table; a window of three ticks, callers one tick
late, six ticks for two windows. No other quantity is unbounded. Symmetry is used
for requests, identifiers, accounts and tokens, which the specifications never
distinguish, and not in the runs that check liveness. Deadlock is checked
everywhere.

**Fairness.** `swap_downtime` assumes weak fairness of the replacement as a whole:
a handler that runs goes on, because each Docker call ends within the client's
45 seconds and the file system answers. `operations_saves` assumes weak
fairness of each request's work for the same reason (RCON exchanges and the
recovery context have time-outs) and strong fairness of `Lock`: Go's
`sync.Mutex` hands itself to a waiter that has lost for a millisecond
(starvation mode), so a waiter is not overtaken for ever. For the views it
assumes weak fairness of `Poll`, which is an interval timer that goes on after
errors, and strong fairness of `AnswerRead` and `HearRead`: a read that is given
up for another one is not given up for ever, and the server does not answer with
errors for ever; it does not promise that any single read succeeds.
`console_streams` assumes weak fairness of `ReadLine` (the poll ticker),
`Subscribe` (a handler goes on) and `Recheck`: its tick waits in the ticker's
channel, Go's `select` picks among what is ready at random, and a write that
blocks ends after 10 seconds, with the stream. In the browser it assumes weak
fairness of `Redial` (a timer fires) and of the close event of a socket that is
closing; nothing says that a dialled socket opens. Nothing is assumed of players,
operators, users, the game server or the failures.

**Where the assumptions on failures matter.** `swap_whole` leaves out four
failures on purpose. A failing move-aside loses worlds (`swap_aside_fails`). A
start that takes effect while its answer is lost makes the rollback work under
a running server, which may recreate a directory between `RemoveAll` and the
rename back; the old world then stays in the rollback directory, not lost but
not restored: `PriorKept` holds, and neither `ErrorRestoresPrior` nor
`ServesWholeSet` says anything of it. A failing rollback restores nothing, and a crash leaves the worlds
where they were at that moment. Likewise operators who *start* the server in the middle
of a replacement get it to serve a half-moved set. `swap_kept` has all of these
but the first, and shows that the worlds survive them. An archive is checked
without lifecycle requests; `operations_operator_start` shows what one of them
does to it. `operations_saves` leaves
out the failures that change the save mode behind the caller's back
(`saveOffLost`, `saveOn`) and the crash, after which nothing sends save-on. Credentials that
change between the save-off and the save-on of one archive are in no run, since
the models have one RCON endpoint. The other runs have every failure their
modules know.

## 4. Disagreements with what is documented

1. *A failing move-aside deletes worlds* (`swap_aside_fails`). `rollbackWorlds`
   removes the live directory of every name and renames back those that were
   moved; when it runs from the move-aside loop, the names not yet moved have
   nothing to rename back. README and ARCHITECTURE promise rollback.
2. *A lost save-off answer strands the server* (`operations_stranded`). The
   save-on is deferred only after save-off returned without error.
3. *A start during the archive of a stopped world* (`operations_operator_start`).
   The container is inspected once and lifecycle requests take no lock.
4. *A half-deleted backup cannot be deleted* (`catalog_undeletable`). The file
   goes first; then `BackupPath` fails on every repetition, and the
   `os.ErrNotExist` case that seems meant for this is never reached.

The following were met while modelling. No run of their own shows them; each is
an exception written into a property, where the property's comment names it, or
follows from what an action does.

*Server*

- A grant is written for an account that is disabled after `setServerGrant` has
  looked, although it answers "A disabled user cannot receive a grant" otherwise
  (the grant gives no access).
- A log that is rotated and has grown to the old offset before the next poll
  loses its beginning (`hub.go:117`), hence the restriction of
  `LinesArePublished`.
- Two credential updates whose writes cross leave the row and the copy different
  until a restart (`crossed` in `CredentialsAgree`).
- A start that finds dangling references gives up, and so does one that dies
  before it looks; the next has nothing to migrate and serves without looking,
  though `migrate.go` promises that a failure leaves the prior schema usable
  (`migrated` in `ServesItsSchema`).
- The limiter's `now` is read before its lock. With a full table and a late
  caller, a span of exactly one window can let through more than two windows'
  worth, hence `Window - MaxLate` in `SpanLimited`. While the table is full of
  live windows every new key is refused.
- `authenticated` answers a failing store like an unknown session and clears the
  cookie (`middleware.go:24-28`); a late refusal of an old cookie clears a newer
  one.
- An export that breaks midway, or reaches its row limit, looks complete
  (`audit.go:93-119`).

*Browser*

- An administrator who is not a fleet owner is shown Settings, Audit and its
  export, whose fleet routes refuse them (`permissions.ts:34` against `scope.go:93`; exception
  in `OfferedIsServed`).
- A failed background read of the setup status replaces the dashboard, though
  the comment beside it promises survival (`authentication-boundary.tsx:22`
  against 30-35; exception in `DashboardStays`).
- A sign-in is undone in the tab by a read of the session sent before it; a
  cached "setup required" stays after another tab has set up; signing out clears
  and reloads even when the request failed.
- A late success of the world, user or credentials form discards what was typed
  since; a dialog can be closed while busy, and its request goes on; a dialog
  hidden by a failed poll reappears with the page; the settings' typed forms are
  lost when a read fails.
- A command that succeeded is missing from the recall if the field was edited
  meanwhile.
- A read under way as a change is confirmed, if it is the query's first or its
  page was left, keeps the older answer (`blind` in `ConfirmedIsShown`). A failed
  mutation invalidates nothing, whatever the server did.
- A page that stays open over a restart of the dashboard merges two numberings,
  so that new lines sort before old ones (`console-lines.ts:9`), hence the
  restriction of `ViewIsNewest`.

## 5. Proofs

TLAPS proves the following for every value of the constants that meets the named
assumptions of the module (distinctness of the placeholder values, fault and
lifecycle sets within their kinds, limits that are numbers).

| Theorem | Further assumption | Inductive invariant |
|---|---|---|
| `WorldSwapProofs!TypeCorrect` | | `TypeOK` itself |
| `WorldSwapProofs!PriorNeverLost` | `"aside" \notin Faults` | `PriorInv`: in each phase, where the directories below and above `idx` are. `PriorKept` alone does not say that a directory about to be removed is not the only copy |
| `WorldSwapProofs!SwapIsAtomic` | `Reported`: no `aside`, `startLost`, `undo`, `crash` in `Faults`, and operators only stop the container | `Progress`: what each phase has done to the names before `idx` and has yet to do to the others, and the server is down while there is more than one set. With it every step but the committing start and a directory created by the server leaves `Effective` alone |
| `WorldSwapProofs!OneSetServed`, `ErrorsUndone` | `Reported` | `OneSet`: up to what the server creates, `Effective` is the old set until the commit and the archive after it |
| `WorldOperationsProofs!TypeCorrect` | | `TypeOK` itself, which says that a mutex that is held is held by a request at work |
| `WorldOperationsProofs!HeldWhileInside` | | `MutexInv`: a request that is inside holds the mutex; with `TypeOK` the converse |
| `WorldOperationsProofs!ArchivesAreWhole` | no lifecycle requests | `MutexInv`: a request that is inside holds the mutex; `ArchiveInv`: while an archive is read under save-off auto-save is off, the server is up, and nobody else is inside; while it is read of a stopped world the server is down |
| `WorldOperationsProofs!NoSaveOffStranded` | `saveOffLost`, `saveOn` and `crash` not in `Faults` | `SavesInv`: auto-save is off in a running server only while a request is between its save-off and its save-on |
| `BackupCatalogProofs!TypeCorrect`, `HeldWhileAtWork`, `ReadersKeepArchive` | | `CatalogInv`: the mutex holder, and what it may rely on at each step about its target |
| `BackupCatalogProofs!FailuresStayConfined` | | `AgreeElsewhere`: file and row agree, but for torn backups and the one whose file is written and row is not |
| `BackupCatalogProofs!DeletedOnPurpose` | | from `CatalogInv` |
| `BackupCatalogProofs!ImplementsStore` | | from `CatalogInv`; the status of a backup is read off files, rows and the requests creating it, each step changes it for at most one backup in the order unborn, stored, gone, and a crash abandons all creations at once |
| `AccountsProofs!TypeCorrect`, `OwnerRemains`, `DisabledNotPromoted`, `OwnersChangeAccounts`, `DisabledStaysOut` | | `OwnerInv` (with no account no request is past its session, otherwise an active owner exists) and `OwnerDecided` (a request past its decision on a fleet route is an owner's) |
| `ConsoleHubProofs!TypeCorrect`, `RingIsComplete` | | `TypeOK`; `RingHoldsNewest` itself |
| `ConsoleHubProofs!NumbersIdentify`, `EveryLineRead`, `StreamsInOrder` | | `Counted`: all the present process has published lies before the hub's place in the log, and of the current file the last of it just before that place. Without it nothing says that the next line is a new one |
| `ConsoleHubProofs!PageShowsNewest` | | `Identified`: a number of one process names one line, from `Counted`. Then no line is lost to another of its number, and ranking by number (`RanksBiject`, `TopCount`: distinct numbers rank a finite set without a gap) gives how many are shown |
| `ClientProofs!StreamTypeCorrect`, `NeitherDoubledNorSilent` | | `StreamInv`: a socket has handlers exactly if it is the closure's, and without one the timer is set or the stream is stopped |
| `ClientProofs!RedialsArePaced` | | `StreamInv`, and that until the stream is stopped the count of attempts is zero exactly while the page shows "connecting" or "connected", that is until a dial has failed |
| `ClientProofs!FieldIsKept` | | `FormInv`: the request that is observed was sent by a submission no later than the last action; if by the last, the field holds its command |
| `ClientProofs!RecallStaysInRange` | | `RecallInv`: the property itself, with what a request that is observed may hold. The rest is about `Remember`: taking a value out of a sequence without repetitions leaves one without repetitions, shorter if the value was there, by induction on the length. What the provers lack for this induction, its base on numbers, is the library's well-foundedness of `<`, used for the least length at which a claim fails (`UpTo`) |
| `ClientProofs!SuccessIsShown` | | `ViewsInv`: for each query, an answer on its way, unless an invalidation passed it by (`blind`), and data that is not stale are no older than `confirmed`, and a query of the page that is shown is read, has data or has failed |
| `PagesProofs!SignTypeCorrect`, `ActionsAsShown`, `SignedOutIsOut` | | `SignInv`: what the tab holds or may still hear is no session it has signed out of, since the page is reloaded and a session that ended is not valid again |
| `PagesProofs!DashboardIsKept` | | `WatchInv`: an unknown setup status is being read or failed, sessions are issued to an installation, and an answered read names a session or its refusal |
| `PagesProofs!EachSurfaceItsOwn`, `AnswersTouchTheirOwn` | | `SurfaceInv`: what is observed by a hook was sent by it and is, on the pages that reset their hooks, a request of the dialog that is open; what is pending and belongs to the page or to its open dialog is observed by its hook; and the dialog asks for an action of the page, of the allowlist's draft if it came from there. `OnePendingPerSurface` alone does not say that a busy button is the button of the pending request |
| `PagesProofs!OffersAreServed` | | the types in `SurfaceInv`; the rest compares, page by page, what the browser's table offers (`Buttons`, `Links`, readings) with what the server's serves |
| `StorageProofs!RconTypeCorrect`, `RowAndCopyAgree` | | `RconInv`: unless updates crossed, at most one is between its two writes, and the row is its |
| `StorageProofs!SchemaTypeCorrect`, `ServesWhatItKnows` | | `SchemaInv`: a process that migrates has not passed its own version |
| `StorageProofs!ExtractionTypeCorrect`, `LiesAreNoticed` | | `ExtractionInv`: the sum never exceeds the limit, so that neither it nor what is left of it wraps and every size that passes is the same number when signed, and no more than one byte beyond what was declared is on disk |
| `StorageProofs!LogIsReadWhole` | | `ReadSoFar`, of the export (`ExportOK`) and of the pages of each filter, those held and those just read again (`TrailOK`): the chunks are in the log's order, the cursor is the oldest row of them all, and of what was known at first only rows older than that are missing. It survives any insertion (`ReadStays`) and the next page (`ReadGoesOn`), since a page is the newest of the rows after the cursor (`TopIsNewest`, from a rank by age) |
| `StorageProofs!LimiterLimits` | | `LimiterInv`: the first attempt of a window came no earlier than the window began and at most `MaxLate` later, and but for the attempts in the window of a key and `Limit` - 1 before them its attempts are longer ago than `Window - MaxLate`, or but for `Limit` - 1 if it has no window. A window is dropped only when it is over by somebody's clock (`OverLongAgo`), so that the second part holds of whoever is forgotten |

`Extraction` assumes `2^(Width - 1) \in Nat \ {0}`, which is true of every width and
stated only because the provers have no rule for powers; TLC evaluates it. It
also assumes that the limit, one byte added, is a signed number:
`MaxUploadBytes` is at most 20 GiB (`config.go`), and the limit four times that.

Every invariant and every action property that a passing run checks is the
statement of one of these theorems. Only model-checked is liveness
(`DowntimeEnds`, `Answered`, `ViewsCatchUp`, `RevokedStreamEnds`,
`LinesArePublished`, and `KeepsDialling` in `DialsAgain`), which like ENABLED is
out of the prover's reach. The theorems are about each module's own
specification; that the parts run beside each other in `ConsoleMC`, `BrowserMC`,
`PagesMC` and `StorageMC` adds nothing, as section 3 says, and is not proved.

## 6. Not modelled

- *Docker guard and client*: a stateless filter; what it may answer is the
  faults of `WorldSwap` and `WorldOperations`.
- *RCON client*: one exchange over one connection; its outcomes are faults.
- *Overview and players on the server*: independent readings and checked command
  shapes.
- *Start-up, configuration, shutdown*: wiring; a stop in the middle of a
  handler is the models' crash.
- *Build files, embedded assets*: no program logic.
- *Server routes other than accounts and grants, server states other than
  active*: the decision table is in `Permissions` as an operator; its composition
  with `Accounts` is planned.
- *Console*: the text of a line (colour codes, truncation), `RecentWarnings`;
  two history requests answered out of order; pausing and filtering the output.
- *Extraction*: which paths are unsafe, one refusal here; a backup's tar archive.
- *Browser*: what data looks like, the table's search, theme and menus, the
  rules by which a whole form is valid, focus and accessibility. TanStack Query
  and the browser's sockets and cookies are modelled by what the code relies on.
- *Cryptography, origins*: a token is an identity; a failing check is a refusal.

## 7. Plan

Done, in this order: `WorldReplacement` and `WorldSwap`; `WorldOperations`;
`BackupStore` and `BackupCatalog`; `Accounts`; `ConsoleHub`; then the browser
(`Permissions`, `Surface` and the pages, `Surfaces`, `SignIn`, `Views`,
`StreamClient`, `CommandForm`, `AuditTrail`) and the rest of what the server
keeps (`AuditLog`, `LoginLimiter`, `RconCredentials`, `Migrations`,
`Extraction`); proofs of every safety property they check.

To prove next: what the runs leave out on purpose, as theorems with weaker
conclusions (what a replacement keeps when moving aside fails, what is stranded
when a save-off answer is lost), and the safety halves of the other liveness
properties, as `HeldWhileInside` is of `Answered` and `RedialsArePaced` of `DialsAgain`.

To model next: the decision table composed with `Accounts`, for streams and
archives that outlive a grant; credentials that rotate between the save-off and
the save-on of one archive (`RconCredentials` with `WorldOperations`).
