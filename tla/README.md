# A verification of openpreflight

openpreflight is a self-hosted CI runner: GitHub sends a webhook, a row is put
in a queue, a worker clones the commit, runs its pipeline in a process or a
container and reports a Check Run. One Go process holds everything: the HTTP
server, the queue, the builds and an SQLite database with a single connection.

This directory models its control in TLA+, checks the models with TLC and
proves what matters most of the data plane with TLAPS. Paths below are relative
to the repository (`internal/...`, `cmd/...`).

    tlc -workers 2 -config RunnerSettingsAll.cfg RunnerSettingsMC.tla    # a run
    tlapm JobRunnerProofs.tla                                           # a proof module

`PROJECT.json` lists the components, the runs with the properties of each, for
every property a mutation of the model that breaks it, the source lines of
every definition, the hazards the properties are aimed at, the disagreements
between code and documentation, and the theorems.

## 1. Inventory

| component | state | operations | modules |
|---|---|---|---|
| process (`cmd/server/main.go`) | the process context, the HTTP server | boot, signal, orderly end, giving up after 30 s, crash | JobRunner |
| queue runner (`queue/runner.go`) | `running`, the one-slot `notify` channel, a WaitGroup, a context per job | `Start`, `drain`, `startJob`, `Notify`, `CancelJob`, the deferred end | JobRunner, JobPool |
| jobs table (`store/jobs.go`) | a row per job, `deliveries` | enqueue, claim, record the Check Run, finish, requeue, prune, three lookups | JobRunner, JobTable, Webhook, JobLog |
| `runJob` (`queue/runner.go`, `workspace`, `executor`) | the two contexts, the workspace, the plan, the results | path filter, token, clone, plan, steps, final switch, `complete` | JobRun |
| pipeline (`pipeline`, `executor/image.go`) | none | resolve the steps, the runtime and the timeout | Pipeline |
| dry run (`api/resolve.go`) | none | answer what the worker would do | DryRun |
| webhook and job buttons (`api/webhook.go`, `api/jobs.go`) | the request | deliver, supersede, re-run, cancel | Webhook |
| job log (`logs`, `api/logs_stream.go`) | the file, the writer's counter, the stream's offset, net/http's buffer | write, stream, reconnect | JobLog |
| retention (`queue/runner.go`) | none | prune rows, logs, sessions | JobLog, Accounts |
| accounts (`store/users.go`, `api/auth.go`) | `users`, `sessions`, the limiter, the setup token | setup, sign in and out, authenticate, change the password | Accounts |
| settings (`store/settings.go`, `api/settings.go`) | one row | read, patch | Settings |
| bindings (`store/bindings.go`, `api/bindings.go`) | `repo_bindings` | edit, toggle, delete, the picker, the allow-list lookup | Bindings |
| GitHub client (`githubapp`) | a token per installation | Check Runs, tokens, changed files | JobRunner, JobRun (from the caller's side) |
| secrets (`secret`, `store/rotate.go`) | sealed columns, the two keys of a boot | seal, open, rotate row by row | Vault |
| GitHub Apps (`store/githubapps.go`, `api/githubapps.go`, `api/manifest.go`), Coolify (`store/coolify.go`, `api/coolify.go`) | a row each, sealed; the team a test found | create, save, test, delete; the manifest's round trip; install the worker | Vault (statement by statement), Handlers (their forms) |
| client cache (`queue/clients.go`) | a client and a version per App | `For`, `Drop` | Vault |
| console (`api/server.go`, `api/pages.go`, `web/pages`, `web/layouts`, `web/components`) | the browser's page, session and CSRF token | the routes, the guard, redirects, every page and form | Forms, Views, Handlers, Pages |
| status, configuration, migrations | - | reads, boot | not modelled |

**How they interact.** A handler inserts a row and calls `Notify`; `drain`
claims the oldest row and starts a goroutine, which calls GitHub, git and the
engine and writes the row's end; handlers reach a running job only through
`CancelJob`, that is through the map `running` and the job's context. Settings
and bindings are read at several moments of a job's life, each time by another
statement. The log is a file that the job writes and the stream polls. The
console is HTML without a client of its own: what a page drew is what its form
sends, however old the page is, and each form names fields of rows that other
forms, webhooks and the worker change too.

**What is hard.** The handlers, the loop and the goroutines interleave at every
statement and critical section. A crash may come between any two, and the next
boot requeues what it finds. Calls to GitHub fail, or succeed and lose their
answer. A job has two timeouts, a cancel and a shutdown, which race with each
other and with its last call. Nothing is a transaction: every handler of the
console reads, decides and writes in separate statements.

**What makes each part correct.**

- Runner: never more builds than slots; no job twice in the process; no lost
  wake-up; a queued job ends; a requeued job returns to its Check Run; a
  shutdown ends.
- `runJob`: every return path writes the row, completes the Check Run with the
  same conclusion and removes the workspace; no build outlives its deadline; a
  timeout is told from a cancel; the dry run predicts it.
- Webhook: a delivery id and a commit have one live run when GitHub asks again;
  what is superseded is stopped; every event taken leads to a finished run.
- Log: the cap holds; a page sees a prefix, and all of it in the end.
- Accounts: sessions end, stay ended, and end with the password; guesses are
  limited.
- Settings and bindings: no interleaving saves what the checks refuse or loses
  what a form did not name; a job is judged and run by its own rows.
- Secrets: what was saved opens, under a rotation that fails or crashes; a job
  and a test use one row's credentials.
- Console: what a page offers, the server takes; everything is in reach; a form
  changes what its user changed, and nothing else; a stale address lands on a
  page.

## 2. Modules

A step is one SQL statement (the store has one connection,
`store/store.go:43`), one critical section, one channel operation or one call
to GitHub, git or the engine.

| module | models | extends / instantiates |
|---|---|---|
| JobData | statuses, conclusions, what `runJob` may write in each state of its context | |
| JobRunner | the data plane: rows, goroutines, loop, process, `CancelJob`, Check Runs | JobData; refines JobPool, JobTable |
| JobPool | what the queue promises: a job waits, runs in one of the slots, is over; an interrupted one waits again | |
| JobTable | the view request handlers have of the data plane: rows, who owns them, whether they were signalled | |
| Webhook | the handlers that create and cancel jobs, composed with the data plane as JobTable shows it | JobTable |
| Pipeline | how steps, runtime and timeout are resolved (pure) | |
| DryRun | the decision of the dry run (pure) | Pipeline |
| JobRun | one execution of `runJob` with its clock, contexts, steps and report | JobData, DryRun |
| JobLog | writer, stream, response buffer, page, retention | |
| Accounts | users, sessions, limiter, setup | |
| Settings, Bindings | two of the console's tables with the deliveries and jobs that read them | |
| Vault | the Apps' and instances' rows, their seals, the rotation, the client cache | |
| Forms | the fields of every form: what a control draws and what it may send, and how the server reads it (pure) | |
| Views | every page, as its links, forms and searches (pure) | Forms |
| Handlers | every form's handler, as the set of its answers: database, redirect, notice (pure) | Views |
| Pages | the browser, the routes and the guard, over the database that others change | Handlers |
| RunnerSettingsMC | JobRunner beside Settings, for one run | JobRunner, Settings |
| RunnerLogMC | JobRunner beside JobLog, for one run | JobRunner, JobLog |
| RunPagesMC | JobRun beside Pages, for one run | JobRun, Pages |
| ConsoleMC | Bindings beside Vault, for one run | Bindings, Vault |
| JobRunnerProofs, WebhookProofs, JobRunProofs, JobLogProofs, AccountsProofs, SettingsProofs, ConsoleProofs, PagesProofs | theorems | each extends the module it is named after; ConsoleProofs Bindings and Vault |
| the other `*MC` | constants and symmetry for TLC | each extends the module it is named after |

**Correspondence.** Actions carry the names of the functions they model
(`Claim` is `ClaimNextJob`, `StartJob`, `EnqueueJob`, `Requeue`,
`CancelSuperseded`, `SuiteCheck`, ...); variables those of the fields and
columns. A function with several statements is a sequence of actions over a
program counter (`pc`, `loop`, `call`, `hpc`). An action `XFails` is the error
return of `X`.

- *JobRunner* takes the body of `runJob` between the opening of the Check Run
  and the final row as one step, `Decide`, which writes any outcome JobData
  allows for the state of the context. JobRun models that body, and its property
  `RowIsAnOutcome` is exactly what `Decide` assumes. Time is the order of
  events; `created_at` is a second, because the RFC 3339 text the column is
  ordered by drops trailing zeros (`store/store.go:72-79`) and so does not order
  two times within a second.
- *Webhook* is composed with JobTable, not with JobRunner. JobTable is an
  abstraction of JobRunner: `ImplementsTable` is checked and proved. A job of
  JobTable may end with any outcome at any time once registered; that is all the
  handlers can see. The lookups filter on one App and one repository, so the
  module has one of each. The signature, the parser, the allow-list and the
  branch list come before anything modelled there. An event may have no branch
  (`ref = ""`), and then supersedes nothing.
- *JobRun* has a clock that stands still while a timer is due or a process is
  being killed; the up to five seconds `killGroup` waits are not counted. Its
  inputs are classes: which commands a file has, whether the path filter
  matches, and so on.
- *JobLog*: a text is the number of its bytes, since a log only grows. One
  process. A write to the file may fail, or write less than it was given. The page
  is the script of `web/pages/run.templ` with the browser's EventSource, which
  reconnects on its own until it is closed or answered 404.
- *Accounts*: a password is the number of the change that set it. The clock is
  read with the statement that follows. `Authenticate` and `loginLimiter.clear`
  are one step; only other sign-ins could see between them.
- *Settings*: every numeric field is represented by `max_concurrent_jobs` and
  its lower bound; of the text fields there is `default_runtime`, as set or not
  set, which is what the checks and the executor ask.
- *Bindings*: the columns a form saves are one value, the number of the write
  that saved them. Spellings and repositories are apart because the unique key
  distinguishes case and the lookup does not.
- *Vault*: a plaintext is the number of the save it came with, a ciphertext the
  pair of a key and a plaintext, and everything else a call is made with (URL,
  App id) is one value, `host`. `updated_at` is a number of milliseconds that
  may stand still between two writes.
- *Forms, Views*: a control is what it shows and the set of what a browser lets
  its user send; a page is the sum of its parts, each with the operator named
  after the template. Text, layout and scripts are gone. What remains is
  translated from the generated `_templ.go` files, whose conditions and fields
  are the templates'.
- *Handlers* are functions from a database and a form to the set of possible
  answers: here a handler is one step, since the interleaving of its statements
  is what Settings, Bindings, Vault and Webhook are about. A call to GitHub or
  Coolify is a choice between its outcomes.
- *Pages*: the database is one record, whose shape `Whole` states table by table, which a page remembers as it was when it
  was drawn. A request is two steps, the navigation and the answer, and others
  act in between. The guard, the CSRF check and the redirect to the Referer are
  those of `server.go`.

## 3. Runs

| run | question | bounds |
|---|---|---|
| runner_and_settings | slots, ownership, wake-ups, Check Run reuse, both refinements; or PATCHes, fork policy and claim | 2 jobs, 1 slot, 1 request, 2 boots, 3 Check Runs; 2 requests, 2 jobs, 2 forms, 2 writes |
| runner_and_log | liveness of the queue under faults, a restart and a shutdown; or writer, page, retention | 1 job, all endings, 2 boots, 1 API fault, 1 failed statement; caps 1 and 2, 3 bytes printed, buffer 1, chunk 2, one change of the cap, one failed read or write |
| run_and_pages | one execution of `runJob`, every ending; or every page, every form | 196 inputs, job timeout 2, file timeouts 1 and 3, clock to 3, faults at each call; 4 databases, 1 form, 1 change by others, 5 bookmarks, page limits 1 and 2 |
| deliveries | redelivery, supersede, re-run and cancel | 3 jobs, 4 events of 2 commits, each on a branch and on none, two requests that cross, or one at a time with both buttons and 1 failed statement |
| accounts | sessions, passwords, limiter | 1 user name, 2 requests, 2 sessions, idle 2, ceiling 4, window 2, clock to 3 |
| console | toggles, picker, edits and jobs; or Apps, instances, rotation and cache | 3 spellings of 2 repositories, 2 requests, 1 job, 3 writes; 1 App and 1 instance, both of them or one that is saved twice (4 saves, of which a create counts for two), 2 keys, 3 boots, 2 requests or jobs at a time, 1 field per form |
| job_runner_cancel_check | *violated*: a cancelled job settles its Check Run | 1 job |
| deliveries_two_live | *violated*: a commit never has two live runs | 2 jobs, 1 request at a time |
| job_run_raise | *violated*: a pipeline file may raise the timeout | the 196 inputs, job timeout 2, file timeout 3 |
| settings_rerun | *violated*: fork code runs in Docker | 2 jobs, 1 request at a time, 1 write |
| job_log_flush | *violated*: what is sent is shown | 2 bytes |
| pages_stale | *violated*: a stale address lands on a page | the pages of run_and_pages, 4 redirects |

Four runs put two models that share no variable under one start of the checker: a
variable `part` says at the start which of the two moves, and the other is left
still, where it has a choice of initial states in one of them. Their reachable
states are those of the one beside those of the other, so that a property of
either holds in the run exactly if it holds of its own specification; fairness is
stated per part.

**Why the bounds are enough to meet the interesting cases.** Two jobs over one
slot are the least that can overtake each other, and a crash with a second boot
the least that requeues. Two requests are enough for every race between a read
and a write of one table, since a handler's decision rests on one earlier read.
The clock of Accounts passes the idle deadline and half of it, and reaches the
ceiling through `expires_at`; that of JobRun passes both timeouts. In JobLog the
cap lies below, at and above what is printed, and a chunk and the buffer are
each smaller than the log. In Vault there are an App and an instance at once, so
that a rotation goes over two rows, stops between them and leaves them under
different keys for the next boot; three boots give the old key, the rotation that
is cut short and the boot after it; and a row that was created can be saved by two
requests that overlap. Every property is broken by a plausible change of the model
under the same bounds; these changes are the operators marked `\* Mutant:`, or
named for what they get wrong.

*Pages.* The browser starts at a console before setup, one after it, and two in
use (forks skipped or not) with an App, an instance, two bindings, one of them
with overrides, and three runs, of which one is in flight and one shareable. A
form is filled with everything its controls allow for one field at a time (two
texts, one of which the validators refuse, and the numbers at each limit). One
form and one change by others, before or after the page was drawn, is what a
property about a stale page needs; two changes by others were checked once (2.7
million states) and are too slow to repeat. After its form the browser opens
bookmarks only. Ids stay below the greatest of the numbers
(`Counted`), which the run never meets. The page sizes 1 and 2, against 8, 12, 20 and 100 in the code,
make the three runs more than a page of each kind and exactly fill one.

Deadlock is checked in runner_and_settings, runner_and_log and run_and_pages, where
only an execution of `runJob` that is over stops (`RunOver`). The other passing
runs stop at their bounds (a clock at its end, job ids, boots or writes that are
used up) and say `CHECK_DEADLOCK FALSE`.

The type invariants of JobRunner, JobRun, JobLog, Accounts and Vault hold by the
theorems `TypeCorrect`, those of Settings and Bindings as a part of the invariant
their theorems rest on; the runs spend their time on the properties below.

### The properties

*JobRunner.* `BoundedConcurrency`: the limit holds although it is compared and
the job registered in different critical sections. `OwnedJobsAreNotQueued`: a job
a goroutine or `drain` holds is not in the queue. `ClaimedRowsAreOwned`: while
no statement failed, a row in progress has an owner. `NoWakeUpIsLost`: while no statement failed, a
loop asleep beside a free slot and a job in line has a wake-up in the channel, or
a caller about to send one; the channel alone does it, without the 5 s poll.
`RecordedCheckIsReused`: a job with a Check Run on record creates another
only after a failed call. `ImplementsPool`, `ImplementsTable`: the two
refinements. `QueuedJobsEnd`, `ShutdownEnds`: liveness.

*JobRun.* `EveryRunReports` (each of the early returns ends with a row, and a
Check Run of the same conclusion), `TimeoutsAreToldFromCancels`,
`StoppedBuildsTakeNoTime` (once somebody cancelled the job, or the timeout it was
given is over, the step dies before the clock moves, although it listens to another
context), `RowIsAnOutcome`, `DryRunPredictsRun`, `RunEnds`. `RaisedTimeoutIsInForce`,
that a file may raise the timeout, is violated.

*Webhook.* `DeliveryIsHeldOnce`, `OneLiveRunPerCommit` (unless one job was
enqueued while the other's request was handled). `SupersededRunsAreStopped`: before
the job of a new commit is enqueued, each older run of its branch was told to stop,
or its row is finished and nothing builds it; the exception, which the property names
and no wider one, is a job `CancelJob` looked for in `running` before `startJob` had
put it there. `NeverTwoLiveRuns`, which has no such exception, is violated.
`TakenEventsHaveARow`: no request is answered before a row of its commit is there;
that the row ends is `QueuedJobsEnd`.

*JobLog.* `CapHolds` (the file is within the cap; while no write failed it is all
of the output up to it), `FinishedStreamIsComplete`, `PageShowsAPrefix`,
`PageGetsTheLog`.

*Accounts.* `SessionsEnd`, `UsedSessionsLive`, `EndedSessionsStayEnded`,
`OldPasswordsSignNobodyIn`, `GuessesAreLimited`.

*Settings, Bindings.* `PatchesAreKept`, `ForkRunsAsDecided`; `OverridesAreKept`,
`JobsKeepTheirBinding`.

*Vault.* `SecretsOpen`: while the process serves, every column opens with its
key, if its boot was given every key a row may be under. `TrustedBootsServe`:
such a boot is not refused. `SecretsAreKept`: a column holds the last text that
was saved for it, unless overlapping saves wrote an older one back.
`ClientsAreOfTheRow`: a job's client has the credentials its row had when the job
read it, unless two changes fell within one millisecond. `TeamsAreOfTheToken`: a
team label was read with the token and the host the row has, unless they changed
while the test ran.

*Pages.* `EditsKeepTheRest`: a posted form changes the rows and columns its user
changed in it, and no others, for every table; what a page did not know, because
it was older, is the only exception. `OfferedControlsWork`: a page drawn a moment
ago offers no link that leads elsewhere and no form that, as drawn or with one field
changed, the server refuses, except for what only the server can know (a text its validators judge,
a slug that is taken, the fork policy without Docker, a re-run of a repository
that was unbound, a picker's address that has gone stale). `EveryRowIsInReach`:
links alone lead from the overview to the editor of every row and to every run,
whatever GitHub and Coolify answer. The property names the way: for a run, the
pages of the index up to the one it is on.

## 4. Fairness

- *JobRunner.* The process is weakly fair because the container is restarted
  (`compose.yaml:59`, `restart: unless-stopped`); the loop, because its select has
  a ticker and nothing in `drain` waits; a goroutine, because every call it makes
  ends with its context, and its context expires. A crash, a request, and a
  shutdown are never fair.
- *Webhook* has safety properties only: what it hands over is a row, and rows end
  by JobRunner's `QueuedJobsEnd`.
- *JobRun.* Local steps, the clock, and calls to the outside once the job's
  context is dead. A call on a live context may hang, and a build need not end.
  The assumption is that a call returns when its context is dead. For HTTP it
  holds; git runs without a `WaitDelay` (`workspace/workspace.go:226`), so a child
  that holds its output open after git was killed would break it.
- *JobLog.* The handler runs, its ticker ticks and the browser reconnects. The
  job need not end nor print anything, and the retention need not run.
- *Accounts, Settings, Bindings, Vault, Pages* have safety properties only: a
  user need not come back.

## 5. Proofs

All for every value of the constants: any number of jobs, callers, slots,
boots, faults.

**JobRunnerProofs** proves TypeOK and then an inductive invariant `Inv`, the
conjunction of

- `TypeOK`;
- `Ownership`: `running`, the goroutines, the claimed job and the loop's place
  agree, and a job that is owned has a row in flight or finished, never queued;
- `SlotsBound`: owned jobs number at most the limit, and strictly fewer at the
  places of `drain` between the comparison and the registration. The bound on
  goroutines alone is not inductive: it does not say that the claimed job, which
  is in no map yet, has its slot;
- `EndingsAreWritten`, `ClaimedRowsAreOwned`: past the final write a row has
  ended, unless a statement failed;
- `UnusedChecks`, `ChecksBelongToTheirJob`, `CheckIds`: a Check Run's owner is
  the job whose row or goroutine names it;
- `TargetsExist`: a handler inside `CancelJob` holds a job with a row.

From it follow `SlotsAreBounded`, `HeldJobsAreNotQueued`, `ClaimedRowsAreHeld`,
`ChecksAreNotMixedUp`, `FinishedForGood`, `CheckIdIsKept` and `CheckIsReused`.
Three of these state properties that no run checks, since the proof covers them.
`WakeUpsAreKept` goes through each step that puts a job in line, frees a slot or
takes the wake-up, and shows that one is left behind for it.

Its second half maps every step of JobRunner to a step of JobPool under `Phase`,
and to one of JobTable under its mapping of owners, from `Inv`. The latter is
what allows Webhook to be checked, and proved, over JobTable.

**WebhookProofs** proves the handlers over any table JobTable allows, from `IInv`.
Beside the table (`Table`: nobody holds a queued job, and one that was told to stop
is registered) it says of each handler what its lookups have taught it about the
jobs that were there when it read its event and are still in flight (`Seen`):

- past the lookup of the delivery id, none of them has the id (`IdIsFree`);
- past the lookup of the commit, none is of the commit (`CommitIsFree`);
- in `cancelSuperseded`, each that is of another commit of the branch is on the
  list still to be stopped or was told to stop (`SupersededAreListed`), if the event
  has a branch.

`Missing` says which jobs are built with a row that is no longer in progress: only
those `CancelJob` did not find running.

A step of another handler adds to the jobs in flight only what it adds to `late`,
so these survive it; one delivery id is of one commit, which the first lookup needs.

The three theorems about commits, delivery ids and superseded runs follow where a
row is added. `HandlersKeepToTheTable` says that a handler writes only
what JobTable lets it write, which closes the circle with `ImplementsTable`.

**JobRunProofs** proves TypeOK, that the row is an outcome JobRunner allows,
that row and Check Run agree and no path forgets either, that timeouts are told
from cancels, that no time passes for a build after a cancel or the timeout its
job was given, and that the dry run's decision is what happens. The
steps of a run are sorted into a few shapes (it touches no report; it returns
through `FinishJob`; it completes the Check Run; it cleans up; it is outside:
clock, cancel) and the invariants `ReportsInv` and `TimesInv` are shown for each
shape. `DryInv` follows one plan through the run: as long as nothing outside has
failed and nobody has stopped the job, what the worker resolves is what the dry
run resolves, and each ending is the one its decision names.

**JobLogProofs** proves every safety property of the log from `IInv`: beside
`CapHolds`, that `atEnd` is within the file (`WriterInv`); that retention passes
only over rows that have ended and at its last place has deleted the row
(`PruneInv`); and that in an open stream what the page shows and what is held
back add up to what was sent, which is the offset and within the cap
(`StreamInv`). A connection that has delivered nothing yet is the case apart:
the page still shows the previous one, and all that was sent is held back.
Completeness follows at the event "finished", because the handler got there by
finding no unread byte after a read of the row that said so.

**AccountsProofs** proves TypeOK and, from `SessionInv`, when sessions end. What
makes it inductive is `Judges`: a request that has read a row and not decided yet
either finds the row still there, created at the same time and with a deadline
that has only moved on, or the token is among the ended ones, which no later
session takes. That deadlines only move on is what the half window needs: a
decision on an older row never takes back what another request won. `UserInv`
(sessions are of users there are) carries `OldPasswordsNeverSignIn` over the
setup wizard, which sets a password where there was none. `LimiterInv` bounds the
attempts of an address by two windows: those of the window that is open, which
the counter counts, and those of the one before, which are older than its start.

**SettingsProofs**: the row always is one the checks accept (`SettingsStayValid`,
which no run repeats); a handler about to save holds a valid row which differs from
the one it read in the named fields only (`HoldsPatch`); a queued job was judged
by the policy it carries (`Judged`).

**ConsoleProofs**, its first half, over Bindings: no id that was taken names a row of another repository, now
or later (`Names`). This holds of the binding a delivery found, of the one a job
names, and of every row below `nextId`, and it is what AUTOINCREMENT gives.

Its second half, over Vault, proves TypeOK, which holds that nothing is at work unless the
process serves, and then four invariants, each inductive beside it.
- `KeysInv`: a sealed text, in a row or in what a request has read of one, is under
  a key in `mayHold`; a trusted boot has all of these; and a rotation leaves the
  rows that are no longer in `todo` under the new key. That requests are empty while
  a rotation runs is needed too: a save that could still write back what it had read
  before would undo it. `ServedSecretsOpen` and `KnownKeysServe` follow.
- `SecretsAreKept` is inductive as it stands, because `lost` names exactly the
  columns a save takes from its second read after the row had moved on.
- `TeamsInv`: what a save has read of a team agrees with the token and host it read
  with it, so keeping all three is right and keeping the team alone is not.
- `ClientsInv`: the jobs, the cache and the row agree about an App wherever they
  agree about its `updated_at`, and none is ahead of the row. An App that changed
  twice within a millisecond is outside, and it has to be: the cache cannot tell.

**PagesProofs** has four results about the console, for any rows, texts,
numbers, page sizes and bookmarks and any number of forms and changes by others.

- `TypeCorrect`: the database stays `Whole`. Every row passes the checks of its
  table, slugs and bound repositories stay unique, a binding names an App and an
  instance that exist, and keys are below `next`, so that none is taken twice. For
  each handler `Sound` says that whatever it answers leaves a whole database, and
  for each change by others a lemma of its own does; deleting an App with its
  bindings and an instance whose bindings are set to none are where the tables
  depend on each other.
- `OfferedControlsAlwaysWork`. `Offered` lists, for a page drawn from any database
  at any address, the forms that may be on it, with the fields each must have; `Goes`
  its links and searches. Each page's template is shown to draw no others, part by
  part. A filling of a form's fields is then one its handler takes: a
  hidden id names a row that is there, a number is within the limits, a required
  text is not blank.
- `RowsAlwaysInReach`: by the way itself (`Leads`). For a job the way is as long
  as its place in the index asks; that each page of the index but the last has a link to the
  next, and that page k draws the jobs from (k-1) times the page size on, is
  arithmetic over `Slice`.
- `EditsAlwaysKeepTheRest`, of every step that posts a form. `Left` says it of the
  database a handler leaves, table by table: a table the handler does not write is
  the same (`Written`), and in the one it writes a column the user did not touch is
  posted as the page drew it (`Still`, `AsDrawn`), which the handler reads back as the
  value it had, through the defaults, numerals and blanks of each field. A page may be
  older than the database: by `Since` its Apps, instances and the keys of its bindings
  are nevertheless the ones the database has, so the form names the row it was
  drawn for, and the settings and the other columns of a binding are what the
  property excepts.

`OfferedControlsAlwaysWork` is about a page drawn a moment ago and
`EditsAlwaysKeepTheRest` about one drawn any time before, which the invariant must
identify: `IInv` is `TypeOK` with `TabFrom` (the page on the screen was drawn from
the whole database it remembers, at an address that database answers), `LoadTo` (what
is on its way is an address of the console, with a Referer that is one),
`Since` (while no request is on its way, an App or an instance that the page
remembers and the database still has is unchanged, and a binding names the same App
and repository: others only add and remove these) and that the record of a posted
form is there only while its answer is on its way. TLC evaluated it on every state
of the pages' bounds above before it was proved.

The assumptions are those the modules declare on their constants, which the runs
evaluate on theirs: sizes and bounds are natural numbers, a cap is positive, the
idle window is positive and at most the ceiling, "none" values are not members,
and GitHub gives a delivery id to the events of one commit only.

**Only model-checked.** All liveness (`QueuedJobsEnd`, `ShutdownEnds`, `RunEnds`,
`PageGetsTheLog`): the prover has neither ENABLED nor fairness.

## 6. What the code does otherwise

Six runs end in a violation, of a sentence of the repository:

- *A cancelled job leaves its Check Run in progress* (`queue/runner.go:299`): the
  last PATCH uses the job's own context, which the cancel has just ended.
- *A commit can have two live runs* (`queue/runner.go:189`, against
  `api/webhook.go:166-168`): a rerequest, or a newer commit, that comes while `drain`
  holds the old run between the claim and the registration only rewrites its row;
  the goroutine builds on beside the fresh run.
- *A pipeline file cannot raise the timeout* (`queue/runner.go:539`, against 166-167
  and 533-534): the job's own context ends the run at the shorter one.
- *The log stream is not flushed* (`api/server.go:251`): `statusRecorder` hides
  the Flusher, so a short log reaches the page when the handler returns, or not
  before the server's WriteTimeout.
- *A re-run of a fork's commit builds outside Docker* (`api/jobs.go:159`): the new
  row has no `is_fork`, by which the worker chooses the executor.
- *A stale address does not land on a page* (`api/pages.go:220`): `?inspect=` of an
  App or an instance that is gone redirects to the Referer, which the Refresh
  button makes that same address, until the browser gives up.

Facts seen with the models that no run of this project records:

- A crash between `CreateCheckRun` and `SetJobCheckRun` makes the requeued job
  create a second Check Run (`queue/runner.go:284`, against the comment at 245).
- Two deliveries of one commit handled at once both enqueue
  (`api/webhook.go:159`, against 149).
- When the commit cannot be fetched, the pull request's current head is built
  and reported on it (`workspace/workspace.go:199`, against `README.md:25`).
- Output that is lost because an earlier write ended exactly at the cap leaves no
  truncation note (`logs/logs.go:52`); the stream's cap is the file's, so the note
  itself is not streamed.
- `PruneJobs` returns the ids of rows whose DELETE failed (`store/jobs.go:411`):
  their logs go. A crash between the two leaves the log.
- Near its ceiling an active session may end up to half the idle window early. A
  sign-in that read the old password before a change survives it; if the change's
  second statement fails, all old sessions do. Two setups at once, with two names,
  make two admins.
- Overlapping PATCHes lose an update; a job claimed with settings older than those
  its delivery was judged by may run a fork's commit outside Docker if they
  changed in between. Overlapping toggles and selections lose an edit, and bring
  a binding back that was deleted.
- Overlapping saves of an App or an instance can write an old key back; a test
  that overlaps a save records the team of the old token; a saved App keeps its
  old test result. A key GitHub issued through the manifest is lost when the row
  cannot be written (a slug that is taken). When the read after an App's UPDATE
  fails, its client is not dropped, which the version in the cache makes harmless.
- A picker's Save enables every checked binding that was disabled, and points it
  at the chosen Coolify instance; a picker older than a binding unbinds it; a
  toggle on an older page turns the other way; the editor of a binding deleted
  meanwhile makes it again, and with another App makes a second one; the form for
  a new binding resets the overrides of a repository that is already bound.
- With fork pull requests on and Docker down no settings section can be saved.
- More than 32 slots, saved through the API, block the Runner form in the browser.
- An operator at a run that was pruned gets the error page for guests.
- A repository bound under two spellings has two enabled rows; disabling one does
  not stop its builds (`store/bindings.go:72`).

## 7. What is not modelled

The Docker engine's side of a step (what happens to a container whose client was
killed before it wrote its id); the token cache of the GitHub client; the calls
to Coolify and what GitHub puts into a manifest's answer (choices); the text,
layout, styles and scripts of the pages, but for the script that follows a log;
the status page, which has no controls; the JSON answers of the API, which share
the handlers; the ANSI filter, SSE framing and the tail in the Check Run's text;
path and branch patterns (pure functions of one row and one list, choices in the
models); migrations; configuration. The CSRF token is good or not. More than one
process on one database is not a supported deployment.

## 8. Plan

Done in order of weight: the data plane and its proofs (JobRunner, JobPool,
JobTable), the handlers over it (Webhook), one run (Pipeline, DryRun, JobRun),
the log (JobLog), the console's tables (Accounts, Settings, Bindings) and the
safety proofs of these; the secrets, Apps, instances and the client cache
(Vault); the console as its users see it (Forms, Views, Handlers, Pages).

Next:

1. *Engine*: `Docker.Run` and `removeContainer` against an engine that creates,
   starts and removes containers: no container outlives its job.
2. The token cache and its five minutes of slack, in JobRun's clock.
