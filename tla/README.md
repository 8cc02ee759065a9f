# zvcs: verification project

zvcs is a git-compatible front end (`src/src/extensions`) over a vendored gitoxide
(`src/src/ported`), with a layer of its own that keeps many agents, hooks and background
threads from treading on each other in the same repositories. The git verbs are algorithms
that a differential test suite compares with git. The layer of its own is a concurrent
system: clients, a daemon with a worker thread, connection threads, a pool of job threads,
child processes, a lock file, a database, and any of them may be killed. That layer is what
this project models, checks with TLC and proves things about with TLAPS.

Contents: [the system](#1-the-system) ·
[modules](#2-modules) ·
[components](#3-the-modelled-components) ·
[runs](#4-runs-and-bounds) · [fairness](#5-fairness) · [findings](#6-findings) ·
[proofs](#7-proofs) · [limits](#8-what-is-only-checked-and-what-is-not-modelled) ·
[plan](#9-plan) · [how to run](#10-how-to-run)

Paths below are relative to `src/src/extensions/src/` unless they start with `src/`.

## 1. The system

### Components

`PROJECT.json` lists every component with its files. The ones that matter, grouped by
what they share:

| component | state | operations | what makes it correct |
|---|---|---|---|
| **repository lane** (`superset/zdaemon.rs` worker_loop, handle_conn, conn_loop; `lock.rs`) | per repository a holder and a FIFO of waiters, in the worker thread's HashMap; per connection the list `held` | ACQUIRE, TRYACQUIRE, RELEASE, EOF, HOLDER, STATUS | one granted writer per repository; a dead client never wedges its lane; first come, first served; repositories independent |
| **write exclusion** (`lock.rs`, `superset/zppid.rs`) | the daemon's lane or the lane file (flock + pid in it), a guard that may hold nothing | acquire, try_acquire, drop; probe of the holder; deadline per holder | at most one writer per repository whichever mechanism is used; a child of the holder neither waits for it nor is refused |
| **job pool** (`jobpool.rs`, `jobrun.rs`) | serial lane per repository, channel, worker threads, registry of cancel handles, children, `jobs` rows | SUBMIT, RESTART, JOBSTOP, run_job, finalize | one job of a repository at a time, in order; lane always advances; a row says what happened and reaches an end |
| **dispatch gate** (`dispatch.rs`, `main.rs`) | none of its own | run now, wait, or turn the command into a job; wait for a foreign `index.lock` | no command is lost or done twice |
| **queue client** (`superset/queue.rs`, `superset/ledger.rs`) | a row | submit, or run inline when no daemon answers | as above |
| **ledger** (`db.rs`) | SQLite tables: repos, status, claims, messages, events, jobs, snapshots, pins, subscriptions | one statement or transaction each | claims exclusive, hand-offs to the right party, events seen |
| **daemon lifecycle** (`superset/zdaemon.rs`, `autostart.rs`, `unix_socket.rs`) | socket, pid file, disabled marker, watchdog | start, stop, restart, autostart | one daemon; a stop lasts; a start is not undone by a late stop |
| **watcher and reactions** (`superset/watch.rs`, `trigger.rs`, `hooks.rs`, `reconcile.rs`, `attach.rs`, `zbump.rs`, `zsync.rs`) | pending events, throttles, HEAD, references, gitlinks | coalesce, rescan, attach, fast-forward, fan out, bump, run hooks | reacts to every change, never to its own, never loses a user's commit or edit |
| **derived-answer cache** (`rcache.rs`) | mapped base image, journal, compaction | lookup, append, compact | never a wrong answer, whatever was torn |
| **status maintainer, barriers** (`superset/statusd.rs`, `status.rs`, `coord.rs`, `zwaitfor.rs`) | status rows, mtimes | scan, write, wait for | a barrier that returns has seen what it waited for |
| **coordination verbs** (`superset/claim.rs`, `zbroadcast.rs`, `zpin.rs`, `zon.rs`, `zsched.rs`) | ledger rows, cursors, registry files | claim, hand off, read, pin, subscribe | exclusivity, delivery |
| **tree-wide verbs** (`superset/snapshot.rs`, `zstash.rs`, `zrewind.rs`, `zrollback.rs`, `oplog.rs`) | rows beside repository state | snapshot, stash, rewind, undo across repositories | a failing step leaves nothing half recorded |
| **index layer** (`held_index.rs`, `index_racy.rs`, `odb_write.rs`) | index in memory and on disk | refresh, add, check out, smudge, write | a changed file never reads as unchanged |
| sequencer, plugins, packages, porcelain verbs, gitoxide, parity corpus, UI verbs | — | — | not protocols; see section 8 |

### How they interact

```
 git command ──dispatch gate── RepoLock::acquire ──unix socket──► connection thread ─┐
      │  (run, wait, or queue)        │  no daemon                       (held list)   │ mpsc
      │                               └──► lane file (flock + pid)                     ▼
      │                                                                         worker thread: lanes
      └─ SUBMIT ──unix socket──► connection thread ─► jobpool lane ─► pool thread ─► child `git …`
                                        │                                │              │
                                        └──────── jobs row ◄─────────────┘   (takes the lane itself)
 watcher thread ─► attach / reconcile / bump (take lanes inside the daemon process) ─► hooks
```

Four facts shape everything else:

* The worker thread owns all lanes and speaks to the connection threads through one
  channel; no lock is shared, so the order of the channel is the order of events.
* A client may die between any two steps. What it leaves behind is cleaned by the kernel
  (the socket closes, the flock drops) and then by the connection thread that notices.
* The lock is taken in one of two places, the daemon or the lane file, and which one
  depends on whether a daemon answered at that moment.
* A git process runs hooks and children that lock the same repository. They get a guard
  that holds nothing, on the strength of an ancestor holding the lane.

### What is hard about it

The hazards are in `PROJECT.json`, each at its line, with the properties that would catch
it going wrong; those without a property say why. The ones that decided the shape of the
modules:

* a release, a death and a new grant crossing on three queues (`zdaemon.rs:644`, `:683`);
* a stop racing registration, claim, spawn, the child's last effect, and finalize
  (`jobpool.rs:125`, `jobrun.rs:107`);
* a ledger error at any point of a job's life (`jobpool.rs:138`, `:170`, `:213`);
* a daemon that comes or goes under running writers, or a connection that fails although
  it stays (`lock.rs:145`);
* an ancestor's hold that was checked once and is trusted for a whole section
  (`lock.rs:163`);
* a command that is tried by up to three processes: typed, job, inline (`queue.rs:334`);
* two starters, a stopper and a dying daemon over four files (`zdaemon.rs:456`, `:952`);
* a write cut short, and a reader that takes no lock (`rcache.rs:221`, `:685`);
* files that a compaction or a reader cannot open or read (`rcache.rs:699`, `:769`);
* references read without a lane and moved whatever they hold by then (`attach.rs:135`),
  and a reference that moves before anybody watches it (`superset/watch.rs:103`);
* a clock of whole seconds (`index_racy.rs:137`).

## 2. Modules

| module | what it is |
|---|---|
| `LaneSpec` | abstract: a line of acquisitions per repository, its head inside |
| `Lines` | the one operation on waiting lines the code has beside push and pop: `retain` |
| `RepoLane` | the lane protocol in detail: clients, sockets, connection threads, channel, worker; implements `LaneSpec` |
| `JobPool` | submission, serial lanes, pool threads, children, cancellation, rows |
| `WriterExclusion` | every road of `RepoLock::acquire`: daemon, lane file, ancestors, daemon coming and going |
| `JobDelivery` | what becomes of a typed command: run, wait, job, inline run; the daemon may die |
| `DaemonLifecycle` | start, stop, restart, autostart, watchdog over socket, pid file, marker, flock |
| `CacheSpec` | abstract: a cache that may be late but never forgets and never lies |
| `RCache` | journal, image, lock, compaction, with torn writes and kills; implements `CacheSpec` |
| `Autonomy` | attach, reconcile and bump of a submodule, beside its user |
| `RacyIndex` | the index against files and a clock of whole seconds |
| `MCRepoLane`, `MCJobPool`, `MCWriterExclusion`, `MCWriterFamily`, `MCRCache`, `MCJobDelivery`, `MCDaemonLifecycle` | instances for TLC (`Autonomy` and `RacyIndex` need none) |
| `RepoLaneProofs`, `JobPoolProofs`, `WriterExclusionProofs`, `JobDeliveryProofs`, `DaemonLifecycleProofs`, `RCacheProofs`, `AutonomyProofs`, `RacyIndexProofs` | theorems and proofs |

How they stand on each other:

* `WriterExclusion` stands on `RepoLane`: where it says `line[r]` (holder, then queue),
  `RepoLane` has the worker's `holder` and `queue` and all the sockets in between, and
  `LaneSpec` is the contract. The protocol is proved to keep it (`Refinement`);
  `WriterExclusion` uses the same line, joined at the tail and entered at the head. That
  is what lets it put a daemon that restarts, a lane file and a process tree on top.
* `JobDelivery` puts clients and crashes on both: the line of `LaneSpec`, the lane file of
  `WriterExclusion` with its refusal, and the serial lane of `JobPool`, each as one step
  where the module below has many.
* `DaemonLifecycle` says which daemons there are; `WriterExclusion`, `RepoLane` and
  `JobDelivery` take its answer (one daemon at a time, coming and going) as given.
* `Autonomy` and `RacyIndex` take the lane as a lock that its holder gives back, which is
  what `LaneSpec` and `WaitEnds` promise.

Some operators near a definition carry a deliberate mistake (`ConnEofForgets`,
`ClaimableAlways`, `NothingMoved`, …). No specification uses them. `PROJECT.json` pairs
each with a property under "mutants": substituted for the definition they stand before,
they must make that property fail, which shows the property is about the code.

## 3. The modelled components

### 3.1 RepoLane: the daemon's lanes

One element of `Client` is one acquisition, because the code gives each its own id
`<pid>-<seq>` and its own connection. Three kinds of thread meet with queues between them.

| model | code |
|---|---|
| `phase` | where the client is in `RepoLock::acquire` / `try_acquire` / `Drop` |
| `wire[c]`, `inbox[c]` | the two directions of the connection: written, not read yet |
| `conn[c]`, `held` | the connection thread, and its `held` list |
| `chan` | the mpsc channel to `worker_loop` |
| `holder[r]`, `queue[r]` | `Lane.holder`, `Lane.queue`; free and empty is "no HashMap entry" |
| `pending` | `jobpool::repo_has_pending`, moved by `JobsChange` at will |
| `daemon` | the process |

| action | code |
|---|---|
| `Acquire`, `TryAcquire`, `ConnectFails` | connect and send, or no socket |
| `ReadGranted`, `ReadBusy`, `ReadEof` | the three ways the blocked read returns |
| `DropGuard`, `Kill` | `Drop for RepoLock`; death at any point |
| `ConnRequest`, `ConnRelease`, `ConnEof` | conn_loop's branches; handle_conn's releases at EOF |
| `WorkerAcquire`, `WorkerTryAcquire`, `WorkerRelease` | the branches of worker_loop |
| `DaemonExit` | STOP, the watchdog, a signal: all threads and lanes at once |

A line is one message, since both ends read whole lines; a reply to a dead client goes
nowhere. Properties:

* `ExclusiveGrant` – two live acquisitions of a repository never both have it, counting a
  GRANTED that lies unread in a socket.
* `NoWedge` – whoever occupies a lane, as holder or in the queue, dead or alive, is somebody
  whose release the daemon will still see. This is the reason behind "a crashed holder can
  never wedge its repo".
* `LaneMatchesClients` – granted means holder as long as the daemon lives; nobody queues
  behind a free lane. Proved, and in no run.
* `ImplementsLaneSpec` – refinement: line = holder and queue (`LaneLine`), inside = the
  granted (`Inside`), open = daemon up. Joins at the tail, nobody overtaken.
* `WaitEnds` – liveness.

### 3.2 JobPool: asynchronous jobs

| model | code |
|---|---|
| `request[j]`, `stopper[j]` | the connection thread of the SUBMIT (or RESTART), of the JOBSTOP |
| `id`, `lastId`, `row`, `sha` | the `jobs` row: number, state, sha_after |
| `running`, `queue` | `RepoLane.running`, `RepoLane.queue` of `jobpool.rs` |
| `chan`, `stage` | the pool's channel; where a job is in `run_job` |
| `registry`, `cancelled`, `slot` | `REG`, `Cancel.flag`, `Cancel.child` |
| `child`, `step`, `landed` | the current child; commands that were over; commands whose effect is in the repository |
| `verdict`, `tries` | the state decided on; attempts at `job_finished` |

Actions follow the code in its order: `Insert`, `Submit`; `StopLookup`, `StopKill`,
`StopQueued`; `Start` (take and register), `Claim` / `ClaimFails`, then per command
`CheckFlag`, `Spawn` / `SpawnFails`, `SetChild`, `Reap`, `ClearChild`, `Judge`; then
`Settle`, `Unregister`, `Finalize` / `FinalizeFails`, `Advance`. A child lands its effect
and exits in two steps of its own, so a stop can come before, between or after. `stop()`
keeps the registry's mutex while it kills, which is `RegistryFree`. A ledger error can
strike the insert, the claim, the stop and each attempt at finalizing.

Properties: `OneAtATime` and `LaneMoves` (the lane is serial and never wedges),
`SessionOrder` (who waited for the number of one job before submitting the next sees them
run in that order), `RowTellsTruth` (a row `stopped` in the queue ran nothing; `done` has
landed everything; a commit named was made), `RowLifecycle` (ends are final),
`StopEndsScript` (after a stop was answered OK the script goes no further), `JobEnds`
(every queued job reaches a terminal row, except one whose claim met a ledger error: that
row stays `queued`). `LandedIsDone` is stated beside them and not kept: see section 6.

### 3.3 WriterExclusion: every road to the lock

An actor is one thread of one process taking one lane once. `Chain` gives the pids above
it; `Hooks` are the actors a writer starts inside its section and waits for (`parked`);
an actor with a spawner that is no hook is started after the spawner's section.

| model | code |
|---|---|
| `pc`, `guard` | where acquire is; what the `RepoLock` holds: daemon, file, nothing (`noop`) |
| `line` | the daemon's lane, in `LaneSpec`'s terms |
| `flock`, `label` | the lane file's flock, and the pid written in it |
| `seen` | take_lane: the holder the running deadline is for |
| `daemon`, `dead`, `changes` | the daemon up or down, killed processes, the bound's counter |

`Connect`, `Probe` (HOLDER, and whether it is an ancestor), `Acquire`, `Granted`,
`Fallback` are acquire with a daemon; `TakeLane`, `WouldBlock`, `ReadLabel`, `Truncate`,
`Publish` are the lane file, with the truncation and the write of the pid as two steps;
`Spawn`, `Resume`, `Finish`, `Kill` are the life around it; `DaemonDown` kills the daemon's
own threads, cuts every connection, and lets those at a head find GRANTED in their socket
or not; `DaemonUp` starts one with another pid. `LoseConnection` is acquire's other way to
the lane file (`lock.rs:146`, `:152`, `:171`, `:184`): the connect, the `try_clone` or a
write of one of the `Unlucky` fails, or its read ends, while the daemon lives on and
serves everybody else. `IsAncestor` walks the chain of parents
and stops at a dead one, whose children have been given a new parent.

Properties: `AtMostOneWriter`, `NoOpIsCovered` (a guard that holds nothing exists only
inside a waiting ancestor's hold), `NeverRefusedByAncestor`, `EveryoneEnds`.

`OneMechanism` states the conditions under which the code does exclude: the daemon stays
as it was and no connection to it fails (`Unlucky = {}`), a process locks once, whoever is below another writer is a hook that is waited
for, and no process with hooks is killed. Outside them it does not; section 6 says what
happens there.

### 3.4 JobDelivery: what becomes of a command

A command may run in up to three processes, its workers: the typed one, the pool's child,
the inline run's child. A pool child outlives the daemon.

| model | code |
|---|---|
| `pc`, `status` | the typed process in dispatch and queue.rs; its exit status (a queued command exits 0) |
| `st[w]` | a worker on its way through `RepoLock::acquire` |
| `line`, `file` | the daemon's lane, the lane file |
| `up`, `backlog`, `running` | the daemon, the repository's jobs in its pool |
| `row[w]` | the ledger row of a job or an inline run |
| `landed`, `unanswered`, `contended` | history: effects in order; jobs whose answer was lost; commands that met a foreign lock |
| `unrecorded` | history: jobs whose claim or end the ledger did not take |

`GateGranted`, `GateBusy`, `GateNoDaemon` are the gate (a child another git process waits
for blocks instead of being queued); `Submit`, `Take`, `Answer`, `NoAnswer`, `RunInline`,
`InlineEnds` are queue.rs and handle_submit; `Ask` to `FileDenied` are acquire; `Contend`
and `Requeue` the second queueing after a foreign `index.lock`; `StartJob`, `EndJob`,
`Crash`, `Restart` the daemon. For a command of `RowFails` the ledger may refuse the claim
of its job (`ClaimFails`: the job is dropped and its row stays `queued`, `jobpool.rs:170`)
or its end, five times (`FinalizeFails`: the row stays `running`, `jobpool.rs:213`), and
an inline run may leave its row as it was (`InlineRows`); the daemon lives on. A command of
`CutOff` may fail to connect to a daemon that lives (`Unreached`), wherever it tries.

Properties: `LandsOnce` (a command's work lands once, twice only where a daemon took the
job and went without an answer), `SuccessIsKept` (an exit status of 0 is kept: the work
has landed, or a daemon has it, or its row says how it ended), `ShellOrder` (the commands
of a shell land in its order, whichever became jobs), `EveryCommandEnds` (each command
exits, and the row of each job reaches an end).

`SuccessIsKept` has the exceptions of `LeftBehind`: a daemon that went, or a ledger that did
not take the claim or the end of this very job. Even then the row does not lie: `queued`
means that nothing has landed. `EveryCommandEnds` excuses the same rows and no other; the
command itself exits, and the jobs behind it go on.

`ShellOrder` has three exceptions, and all of them happen: a command whose own job the
ledger refuses (`Refused`) runs inline, one that another git process waits for (`Child`)
blocks for the lane, and one that cannot connect (`CutOff`) takes the lane file, so each may
pass a job that an earlier command of its shell left with the daemon. `Queueable` is every
other command.

### 3.5 DaemonLifecycle: one daemon

An actor is one `start`, `stop`, `restart` or an autostart; a daemon bears the name of the
actor that spawned it. `srv` is how far a daemon process is (`spawned`, `gated` with the
singleton flock, `marked`, `clear`, `bound`, `up`, `leaving`), `at` how far a command is,
`sock`, `pidfile`, `disabled`, `flocked` the four files. A slow daemon may answer later
than a ping or a STOP waits, never later than its watchdog.

| action | code |
|---|---|
| `AutoMarker`, `AutoConnect` | `autostart::ensure_if_configured` |
| `StartCmd`, `TakeFlock`, `LosesFlock`, `EnableAutostart`, `UnlinkStale`, `Bind`, `WritePid` | `start_detached`, `start`, `acquire_singleton_lock` |
| `StopMark`, `SendStop`, `StopUnlink`, `StopUnlinkPid` | `stop` |
| `RestartUnmark`, `RestartCheck`, `RestartUnlink`, `RestartSpawn` | `restart` |
| `ObeyStop`, `Exit`, `Watchdog`, `Kill` | `Cmd::Stop`, the watchdog thread, kill -9 |

Properties: `OneDaemon` (whoever may unlink or bind the socket is alone), `HeadlessEnds`
(a daemon whose socket was taken away ends), `BroughtUp` (a start after the last stop
leaves a daemon that stays, whatever races it), `StopSticks` (no autostart that looks
after a stop undoes it). The exceptions are in the comments.

### 3.6 RCache: derived answers

A record is four fields of size 1; a write reaches the file in any pieces, a read takes it
in any pieces, and a process may be killed, or a call may fail, anywhere. `journal`,
`image`, `lock` are the files; `look`, `bytes`, `recent`, `table`, `todo` the main thread's
two OnceLocks; `rows`, `phase`, `buf`, `tmp` the writer thread. `OpenJournal`, `ReadSome`,
`ReadEnd`, `MapBase`, `Get` read without a lock; `TakeBatch`, `Lock`, `Write`, `Written`,
`BuildImage`, `Rename`, `Truncate` write under it; `Import` is the one-time import.

A failing call of a writer ends its batch or its compaction (`Fails`). A failing read does
not: compact takes an image it cannot open, map or validate for none (`rcache.rs:699-703`)
and a journal it cannot read for an empty one (`:311-317`), writes the image of what is
left, renames it over the old one and empties the journal (`:769`). That is `Reading` in
`BuildImage`, and `forgotten` is what is lost by it. To a reader a failing read is a miss
(`JournalFails`, `ImageFails`).

Properties: `ImplementsCacheSpec` (until an append goes behind a torn record, or a read
goes on in an emptied journal: nothing recorded is lost but what is `forgotten`; a command
finds all the rest that was recorded before it began, unless a read of its own failed; and
everything it finds, whatever failed, is right), `FlushEnds` (cache_flush never
waits for ever). `NeverLies` is the promise without that condition: section 6. `Stage` and
`View` are the refinement mapping: how far a command is with looking, and what it found.

### 3.7 Autonomy: a submodule and its parent

`past` is the history, `branch`, `head`, `origin`, `files`, `edited` the submodule,
`recorded`, `staged`, `others` its gitlink in the parent and what else is staged there;
`pc`, `saw` the two processes (the watcher, a `git zsync`) and what they have read;
`registered` whether the submodule is watched yet, `event` an unread event. Two variables
are history: `missed` (since the last reaction began a step of it failed, or somebody moved
a reference that was not watched) and `leftover` (a bump that failed has left its commit
staged). `run` reacts once and only then builds its targets and registers them
(`superset/watch.rs:103`, `:109`, `:132`), so `Init` begins in that first reaction, and what
moves before `Register` makes no event. Reads and edits of references are separate steps, since the code edits
with `PreviousValue::Any`.

| action | code |
|---|---|
| `Register`, `React`, `BumpOver` | watch.rs: registration after the first reaction; then one event, one reaction |
| `AttachReadHead`, `AttachReadBranch`, `UpdateBranch`, `AttachSymbolic` | `ensure_attached`, without a lane |
| `TakeLane` … `GuardBranch`, `UpdateWorktree`, `ForwardBranch`, `Reattach`, `Release` | `reconcile_repo`, `fast_forward_to` |
| `Bump`, `BumpRead`, `Stage`, `Record` | `zbump_run`, in the parent's lane |
| `AttachFails`, `ReconcileFails`, `BumpFails` | each early return |
| `Edit`, `UserCommit`, `Detach`, `UserFetch`, `StageOther`, `ParentCommit`, `Repair` | the user |

Properties: `BranchForward` (the mainline never drops a commit) and `HeadFollowsFiles`
(HEAD moves forward only, to a commit whose files are there), both except for a process
that acts on a HEAD or branch that moved since it looked; `PointerForward` (the parent's
pointer never goes back, also after a bump that failed half way); `SweepsOnlyLeftovers` (the
bump stages in the index the user commits from: his commit of other paths moves the
submodule's pointer only after a bump that failed between its index and its commit, and
that none has made good); `Settles` (once references rest, HEAD is attached and the pointer
recorded, or attach and bump have refused). `Settles` has two exceptions, both in `missed`,
both real until the next event: nothing retries a step of the watcher that failed, and a
reference that moved before it was watched is not noticed. A `git zsync` beside it,
failing or not, is no exception.

### 3.8 RacyIndex: the smudge

An index entry has the content (`id`), modification second and size of a file; the index
has the second of its own write (`stamp`). A reader believes second and size, unless the
entry is racy (`IsRacy`: its second is not before the stamp), and then compares. Every
write of an index resets the stamp, so it must first zero the size of a racy entry whose
file has moved.

| model | code |
|---|---|
| `file`, `now`, `edits` | the work tree, the clock, the user |
| `disk` | `.git/index` |
| `lane`, `indexLock` | who has the RepoLock; who has `<index>.lock` from before its write |
| `mem`, `marked`, `todo`, `dirty` | the index in memory, its UPTODATE flags, what a refresh has left to do |
| `seen[c]` | what an add has read of the index: the entry (with, as history, the stamp of the index it is from), and later the age `racy_paths` asks for |
| `look[c]` | an add's `Staged`: stat from the walk, id from index_staged_blobs |
| `touched`, `lost` | history: edited since the lane's holder last looked; last changed before a write that did not see it |

| action | code |
|---|---|
| `RefreshOpen`, `Refresh`, `RefreshOver` | update-index --refresh, `refresh_index` |
| `StatusHold`, `StatusOpen` | status: `<index>.lock` first, then the lane |
| `AddRead`, `AddAge`, `AddPass`, `AddLook`, `AddHash`, `AddOpen` | add: the index, its age, the walk's gate with its lstat, the hash, the lane and the fresh index |
| `Checkout` | zsync's `update_clean_worktree` |
| `Smudge`, `Write`, `WriteFails` | `smudge_racily_clean`, then the write or the refusal |
| `Tick`, `Edit` | the clock, the user |

Properties: `NeverHidden` (no step makes a change invisible to every later reader, except
the write of a command that had compared the file before the user's edit of the same
second, and of an add that looked too early), `AddSees` (however the index
and the file move between an add's three reads, it passes over a file that differs from the
entry it read in three cases only: an overtaken write has hidden that very change, the index
was written in a later second between the reading of it and of its age, or the file of a
smudged entry was emptied; TLC finds each of them when its exception is taken away),
`CommandsEnd` (status waits for the lane with `<index>.lock` in its hand, and the
lane's holder wants that lock; it gives up at once, so nobody waits for ever).


## 4. Runs and bounds

| run | instance | shows | distinct states |
|---|---|---|---|
| `lane_one_repo` | 3 acquisitions, 1 repository | exclusion, no wedge, the line of `LaneSpec`, every wait ends | 88 794 |
| `pool_safety` | 3 jobs of 1 repository (one is `git add` and `git commit`), 2 threads, stops of two, one ledger error of any call | the job lane is serial, moves on, keeps a session's order; rows and stops tell the truth; every job ends | 280 667 |
| `writer_daemon` | daemon throughout; a command, its hook, the hook's hook, another command, a job's child | one writer; a guard that holds nothing is covered; everyone ends | 1 805 |
| `writer_file` | no daemon; two commands with hooks that want each other's repository | the lane file excludes; the budget breaks the circle | 1 482 |
| `writer_restart` | the daemon changes three times; four connections may fail beside it; the parent may be killed | nobody is stranded; no hook is refused what its parent holds | 10 070 |
| `writer_starts` | a daemon comes up beside two commands | **violation** of `AtMostOneWriter` (section 6) | – |
| `cache_promise` | 2 keys, 3 processes (one imports, one may die, or fail to write or to read), compaction at the second record | `CacheSpec` is kept; every flush ends | 249 709 |
| `cache_lies` | the same without the import | **violation** of `NeverLies` (section 6) | – |
| `lifecycle` | every choice of 3 commands, an old daemon that is up, gone, or has left its files, and may be slow | one daemon; stops and starts last; headless daemons end | 178 542 |
| `delivery` | a shell's two commands, a third under another git process that may meet a foreign lock and a refusing ledger; one command that may not connect, one whose row may not be written; one crash | work lands once, success is kept, shell order, everyone ends | 276 828 |
| `autonomy` | 3 commits, 1 detaching, 2 faults; begins with the reaction before anything is watched | nothing goes back, only what a failed bump left is swept up, the tree converges | 915 138 |
| `racy_index` | 2 files, 3 contents, 3 commands, 2 seconds, 2 edits | no write hides a change, bar two races; add passes over none, bar three; no wait in a circle | 746 012 |

Why the bounds are enough:

* Three acquisitions give a lane a holder, a head of the queue and one behind it, which is
  what order, overtaking and "grant to a dead waiter, then to a live one" need. Three jobs
  do the same for the serial lane, and two threads leave one free while the other waits.
* The tree of `MCWriterExclusion` has a hook of a hook, so that an ancestor further up has
  to be found, and an unrelated command and a job's child as rivals. Three changes of the
  daemon are down, up, down: a reader of a stale holder meets the next daemon too.
* A record of the cache has four fields and any prefix may be written or read, so every
  torn record there is occurs. Compaction at the second record happens while a reader is
  in the journal.
* The three commands of `DaemonLifecycle` are every combination of four kinds, so all
  pairs race with a third one in between.
* Two seconds are "the same" and "a later" one, all a comparison of whole seconds can tell.
  Three commands are one that reads before an edit, one that writes between, one that
  reads after.
* Three commits are one recorded, one of the user and one of the remote, in a line or
  diverged. Two faults are one
  that leaves a commit staged and one in the bump that could have made it good.

The named bounds: `MaxDbErrors`, `Workers`, `Stoppable` (JobPool); `MaxChanges`,
`Killable`, `Unlucky` (WriterExclusion); `Crashes`, `Refused`, `RowFails`, `CutOff`, `Unlucky` (JobDelivery); `Faulty`,
`Importer`, `CompactAt` (RCache); `Commits`, `Detaches`, `Faults` (Autonomy); `MaxTime`,
`MaxEdits`, `Editable` (RacyIndex: the files the user edits and adds; the other entries are
refreshed and smudged with them). `FinalizeAttempts` is the code's number; with one ledger error the
attempts never run out, so a row that is never finalized is outside `pool_safety`.
`Endless` (critical sections that never end) is empty in `lane_one_repo`; jobs without a
repository are in `JobPool` and its proofs and in no run.

No symmetry is used: most runs check liveness, for which it is not sound. Every
configuration has `CHECK_DEADLOCK FALSE`, because each acquisition, job or command occurs
once and the model stops when all are over; that nobody is left waiting is what the
liveness properties say instead. `MCWriterFamily` makes TLC evaluate `OneMechanism` for the
two instances the theorems of `WriterExclusionProofs` speak about. The `TypeOK` of
`RepoLane`, `JobPool`, `WriterExclusion` and `RacyIndex` is proved and in no run.

## 5. Fairness

| module | fair | why |
|---|---|---|
| `RepoLane` | the worker, each connection thread, a client reading its answer, the end of a critical section outside `Endless` | threads that are ready are scheduled; a critical section is a git verb |
| `JobPool` | a submission and a stop under way, the thread of a job, a child's exit | as above; `wait_with_output` waits for the child as long as it takes |
| `WriterExclusion` | each step of acquire and of the section; strong fairness for the lane file's deadline | `take_lane` starts its budget again only when the holder changes, so the deadline of one holder is not put off for ever |
| `JobDelivery` | the steps of dispatch, of the daemon's pool and of `RepoLock::acquire` | |
| `DaemonLifecycle` | each command, each daemon's loop, its watchdog | the watchdog has a thread of its own |
| `RCache` | each process's reading and its writer thread | the flock is given back by a process that ends, however it ends |
| `Autonomy` | the watcher, its registration after the first reaction included; each reconcile under way | `run` is one loop on its own thread |
| `RacyIndex` | each command that has begun | |

A user, an edit, the clock, a kill, a failing call, a stop and a crash are never fair: the
properties hold with and without them.

## 6. Findings

Two runs refute what a comment or document of the repository says.

1. `writer_starts` – `src/DESIGN.md:169` says "Invariant: ≤1 in-flight index writer per
   repo". A command that found no daemon holds the lane file; a daemon that comes up then
   has an empty lane and grants it to the next command. Two writers are inside.
2. `cache_lies` – `rcache.rs:682-684` says that a partial write is a torn tail the reader
   stops at, `:61` that every race degrades
   to a miss, "never a wrong answer". The appender writes behind a torn record (`rcache.rs:685`), so the torn record's length takes in the bytes of the next one: a lookup answers with bytes of
   another record. It takes a write cut short (kill, full disk) and one later append before
   the journal is folded in; `cache_promise` shows nothing else does it.

These were met while modelling. Each is an exception written into a property, an instance
outside the runs, or a reading of the code; none is claimed by a run.

*Locking*
* A thread of the daemon and a child of its pool have the same ancestor, the daemon. The
  child takes a guard that holds nothing although the holder does not wait for it
  (`superset/zppid.rs:421-424`); actor `d` of `MCWriterExclusion` shows it.
* A daemon that goes away with a holder inside lets the next command take the lane file.
* So does a command whose own connection fails under a daemon that lives (`lock.rs:146`,
  `:152`, `:171`, `:184`): two writers, with one daemon throughout.
* A hook that outlives its killed parent writes beside the next holder.
* The lane file names the previous holder between the flock and the write of the pid
  (`lock.rs:446`, `:351`), so a hook may take a stranger for its ancestor or the reverse.
* Two commands whose hooks want each other's lanes wait for each other in the daemon, which
  has no budget.
* `add --refresh` reads the index and takes the lane only to write it
  (`porcelain/add.rs:1430-1434`): an update in between is lost.

*Jobs and delivery*
* A stop that comes when the commit has landed makes the row `stopped`: `LandedIsDone`
  (`jobpool.rs:198-202`, `jobrun.rs:107`).
* A stop is refused for a job that is between the queue and the registry (`jobpool.rs:126`).
* A ledger error at the claim drops the job and leaves its row `queued` for good
  (`jobpool.rs:170-181`), and five at the end leave it `running` (`:213-224`), while the
  daemon lives on.
* A command that cannot connect to a living daemon passes the jobs that wait there.
* Numbers of two sessions need not be the order their jobs run in (`jobpool.rs:27`).
* Rows of a dead daemon's jobs stay `queued` or `running`.
* A SUBMIT whose answer is lost is done again inline: the work may land twice.
* The queueing after a foreign lock (`dispatch.rs:2519`) does not ask
  `queueing_would_swallow_work`, which the gate does ask (`dispatch.rs:1156-1161`).

*Daemon*
* An autostart that has read the marker before a stop writes it undoes the stop
  (`superset/zdaemon.rs:448`).
* A start within the watchdog's two seconds after a stop that took a newer daemon's socket
  says "already running", and that daemon then ends.

*Cache*
* A compaction that cannot open, map or validate the image replaces it by what the journal
  has (`rcache.rs:699-703`); one that cannot read the journal empties it all the same
  (`:311-317`, `:769`). What was recorded there is computed again; no answer is wrong.

*References and index*
* A reference that moves between the watcher's first reaction and its registration
  (`superset/watch.rs:103-132`) makes no event; a step of a reaction that fails is not
  tried again. Both stay as they are until the next event.
* A bump whose commit fails leaves the gitlink staged, and the user's next commit in the
  parent takes it along (`superset/zbump.rs:191`).
* add reads the index and later asks the index then on disk for its age
  (`add_support.rs:506`): if it was written in between, in a later second, a racy entry
  does not look racy, and a changed file is passed over (`porcelain/add.rs:1041-1042` says
  it is not).
* attach and reconcile edit with `PreviousValue::Any`; a commit made since they looked is
  dropped from the branch (`superset/attach.rs:9-14` says it never is).
* An edit between `is_dirty` and the checkout may be overwritten (`superset/zsync.rs:64`).
* zsync's re-attachment of HEAD makes no event, so nothing reacts to it.
* An add hashes the file before it opens the index that it writes
  (`porcelain/add.rs:1694`), so a change between them is in neither (`index_racy.rs:1-2`).
* add's gate believes a size of 0 in an entry the smudge has zeroed when the file is empty
  now (`porcelain/add.rs:1052`; `index_racy.rs:34` calls it a size no file can match).

## 7. Proofs

All proofs are checked to the last leaf; nothing is assumed but the named assumption on the
constants of each module, which the runs evaluate.

| module | theorem | for every |
|---|---|---|
| `RepoLaneProofs` | `TypeCorrect`, `Exclusion` (`ExclusiveGrant`), `BooksAgree` (`LaneMatchesClients`), `NeverWedged` (`NoWedge`), `Refinement` (`ImplementsLaneSpec`) | set of acquisitions and repositories, with kills and the end of the daemon |
| `JobPoolProofs` | `TypeCorrect`, `Serial` (`OneAtATime`), `NeverWedged` (`LaneMoves`), `Lifecycle` (`RowLifecycle`), `Truthful` (`RowTellsTruth`), `Sessions` (`SessionOrder`), `StopIsFinal` (`StopEndsScript`) | set of jobs, repositories and scripts, number of threads, failures |
| `WriterExclusionProofs` | `TypeCorrect`, `AncestorsLetIn` (`NeverRefusedByAncestor`), `FileExcludes` (`OneInLaneFile`); under `OneMechanism` `Exclusion` (`AtMostOneWriter`) and `NoOpsCovered` (`NoOpIsCovered`) | tree of processes, coming and going of the daemon |
| `JobDeliveryProofs` | `TypeCorrect`, `Once` (`LandsOnce`), `Success` (`SuccessIsKept`), `InShellOrder` (`ShellOrder`) | set of commands, order of their shells, number of crashes, failures of the ledger and of connections |
| `DaemonLifecycleProofs` | `TypeCorrect`, `One` (`OneDaemon`), `Sticks` (`StopSticks`) | set of actors, commands and slow daemons |
| `RCacheProofs` | `TypeCorrect`, `KeepsPromise` (`ImplementsCacheSpec`), `TruthUntilSpoiled` | set of keys and commands, finite import, size of compaction, kills and failing calls |
| `AutonomyProofs` | `TypeCorrect`, `PointerOnlyForward`, `BranchOnlyForward`, `HeadFollows`, `SweepsLeftovers` (`SweepsOnlyLeftovers`) | history, number of detachings and failures |
| `RacyIndexProofs` | `TypeCorrect`, `NothingHidden` (`NeverHidden`), `AddSeesChanges` (`AddSees`) | set of files, contents and commands, clock, number of edits |

**RepoLane.** Exclusion is not inductive: a client is granted because a GRANTED lies in its
inbox, which is there because the worker made it holder, which stays true only because no
RELEASE of it is still under way. The invariant says so piece by piece. `GrantedHolds`: who
is granted, or will read GRANTED, is the holder. `ReleaseMeansClosed`: a RELEASE in the
channel comes from a connection that has forgotten the lane or a client that is over.
`IdleIsSilent`: nothing is under way for a client that has not asked. `QueuedAtHome`:
whoever is in the books of a repository asked for that one. The lemmas
`ReleaseStaysClosed`, `StaysAtHome`, `OnlyWorkerGrants`, `WorkerKeepsGrantedHolds`,
`ClosedForGood`, `IdleStaysSilent` each take one conjunct through all actions, and
`ExclusionInductive` puts them together. `BooksAgree` adds that a free lane has no queue
(`FreeStaysEmpty`).

`NoWedge` needs `WedgeInv`. `LanesInOrder`: nobody is in the books of a repository twice.
`AskedOnce`: an id has one request, in the socket, in the channel or in the books.
`ReleaseFollows`: whoever is in the books, or has a request in the channel, has a release
behind it there or is in its connection's `held`, and so is released at EOF. `Refinement`
takes the daemon's steps to `Join`, `Depart` and `Collapse` of `LaneSpec` and the clients'
to `Leave` or a stutter; `RetainCons` and its neighbours say that removing a client from
holder and queue is removing it from the line.

**JobPool.** `LaneOnly` carries `OneAtATime` and `LaneMoves` through the steps: a job not
submitted yet is nowhere (`Unsubmitted`), and a lane's backlog has each of its jobs once,
waiting, and of that repository (`Backlog`). `StepInv` bounds the step of the script,
`RowInv` ties a row to the stages it can be in; `Lifecycle` follows from it, since a row is
written only from the stage its state belongs to. `WorkInv` relates what has landed to the
script's step and the child: the child that is over has landed its command, and no other
is ahead. `TruthInv` adds what row and verdict say of the step, which gives
`RowTellsTruth`. `StopInv`: an accepted stop has raised the flag or stopped the row, and
the thread reads the flag before a command counts. `SessionInv` follows two jobs of a
session through the socket into the queue: the earlier is over, in flight, or ahead.

**WriterExclusion.** `FamilyInv`: whoever is above an active actor is parked
(`ParentsWait`), and two active actors below one ancestor are on one branch (`OneBranch`).
`LockInv`: there is one road (`OneRoad`), guards are had inside only (`GuardedInside`), a
daemon's guard is at the head of the line (`DaemonHolds`), a file's guard has the flock
(`FileHolds`), what line and label say of their actors is true (`LineIsHonest`,
`LabelIsHonest`), and only who may be killed is dead (`DeadWereKillable`). `Covered`: a
guard that holds nothing has an ancestor whose guard holds that repository's lane. Two
writers would then be two holders, or two branches of one family. `OneRoad` is what a
failing connection breaks, so `OneMechanism` excludes it.

Two theorems need no condition at all. `HolderIsNamed`: while somebody who has the flock
waits for a hook, the lane file names that process; so the hook that reads it finds its
ancestor. `FileGuardIsHeld`: a guard of the lane file has the flock, and its owner is
inside. Where `AtMostOneWriter` fails, then, one of the two has a daemon's lane or leans
on an ancestor.

**JobDelivery.** A command may be tried by three workers, and the invariant says which of
them may have got how far. `WayInv`: the typed process gives up before a job is taken, an
inline run starts only without one or after a lost answer. `LandInv`: a worker has landed
exactly if the history has it, once. Together they bound the landings of a command.
`KeptInv` says where a job is that was taken: in the backlog, running, landed, or over, but
for a crash or a ledger that did not take its claim or its end. `AfterInv` is for the order: a command begins when those before it in its
shell have exited; one that became a job is ahead in the backlog, and when a worker of a
`Queueable` command starts, is over - the pool takes the backlog in order, and a granted
TRYACQUIRE has seen it empty. `LaneInv` (nobody twice in the line) is what makes leaving
the line predictable.

**DaemonLifecycle.** `TypeOK` contains that the flock is with exactly the process that is
inside, from which `One` follows. `SpawnsLast` (a command spawns at most one daemon, as its
last step) and `OwnSteps` (only a restart goes through restart's steps) make that
inductive; `Sticks` is proved step by step from them.

**RCache.** Once the store is spoiled every step is `Spoil`, so only steps that leave it
unspoiled matter, and for these `Kept` is inductive. `StoreInv`: the journal is `Regular`,
records one after the other with perhaps a torn last one, and the image is `Sound`.
`BatchKept`: a batch is whole records, or completes the record it began; so an append that
starts behind a torn record is the only one that breaks `Regular`, and that one spoils.
`FoldKept`: a new image that waits for its rename has what is recorded but for what this
compaction could not read, which is in `forgotten` from that step on, and once it is in
place it has all the rest of the journal; so emptying the journal loses nothing more,
whenever the compaction is killed or fails. `BytesKept`: what a reader has read starts the journal,
or starts one that was emptied under it, and then the image has all of it. `FindKept`: a
command that has read the journal finds what was recorded before it there or in the image,
which it maps afterwards - the order that makes the lookup safe without a lock.
`ReadFailsImplements` takes a reader's failing calls to `Blind`: it is owed nothing, and
what it has found stays right. The lemmas
under it are about records: what `Intact` and `ReadJournal` make of a regular sequence
(`IntactRegular`, `ReadRegular`), of a part of one (`StartsRegular`), of two in a row
(`ConcatWhole`), and of a batch that is written in pieces (`Moves`).

**Autonomy.** `TypeOK` is `PastOK`, `ValuesOK` and `ControlOK`, the last of which ties the
lanes to the program counters. `Ordered` makes descent an order; commits stay what they
are, so what was an ancestor remains one. `Sight(p)` says what a process has established of
the references it read and still relies on, `Pointer` that what is staged descends from
what is recorded, also after a bump that failed, and `Explained` that the two differ only
within a bump, which has the parent's lane, or after one that failed: so a commit of the
user, who needs that lane, sweeps up only a leftover. An edit of a reference is then a step
forward from what was read, which is what the reference holds unless it moved since: the
exception in the property.

**RacyIndex.** `Hashed`, `Busy`, `Aged`: an add that has hashed knows a content, who has
the lane is at work on an index, and the index in memory is as old as the one on disk and
not younger than the clock. `AtWork`, of the command in the lane: what a refresh has not
come to is as on disk and unmarked (`Ahead`); an entry is as on disk, or an add's, or
marked (`Origin`); a mark is right unless the user came after it (`Marked`); and once the
index is ready to be written, an entry that misses a change has an excuse (`Misses` implies
`Excused`). An edit cannot hide itself, for its second is at or after the stamp, so a
reader compares; only a write can, by moving the stamp, and the smudge before it leaves no
entry without an excuse. `AddSees` takes that to the commands: `HiddenIsLost` (a hidden
change was overtaken), and `SeenOK`, which follows the entry an add has read through every
step of the others: had no later second come between entry and age, an add that is about to
pass over the file would find there what a reader of that index found (`HiddenFrom`).

Every invariant named here was checked by TLC on the configuration of its run before it
was proved. The modules whose queues are lines begin with the lemmas on `Append`, `Tail`
and `Retain` they need.

## 8. What is only checked, and what is not modelled

Only model-checked:

* all liveness: `WaitEnds`, `JobEnds`, `EveryoneEnds`, `EveryCommandEnds`, `HeadlessEnds`,
  `BroughtUp`, `FlushEnds`, `Settles`, `CommandsEnd`. Liveness under fairness and ENABLED
  are beyond the prover, as are induction over data and RECURSIVE operators (no module here
  declares one);
* `AtMostOneWriter` and `NoOpIsCovered` without `OneMechanism`: the run `writer_starts`
  refutes the first, and section 6 lists the situations.

Every other invariant, action property and refinement that a passing run checks is also a
theorem.

Left out of modelled components:

| module | left out |
|---|---|
| `RepoLane` | STATUS and malformed lines, which change nothing; HOLDER (in `WriterExclusion`); a second life of the daemon |
| `JobPool` | parsing of a job's specification, columns that hold output |
| `WriterExclusion` | file systems without flock, daemons older than HOLDER, reuse of pids |
| `JobDelivery` | which verbs queue; commands outside a repository; work half done before a lock error |
| `DaemonLifecycle` | the lock around start, the idle exit of sandboxed daemons, long socket paths, a daemon slower than its own watchdog |
| `RCache` | search and hash in the image, encoding of keys, the marker of the import |
| `Autonomy` | pins, the top repository's own mainline, status rows, hooks and triggers, throttles, rescans, duplicate fan-out, the check for untracked files, events of the parent, a second registration |
| `RacyIndex` | the held index, gitlinks, symlinks, modes, missing files, split and sparse indexes, an index that does not exist yet, object writes. lstat and compare are one step, and so are checkout's write and fstat |

Not modelled at all:

* the porcelain verbs and gitoxide. They are some 800 000 lines of algorithms on data, whose
  reference is git and whose test is the differential corpus; a specification of them would
  be a second implementation. The protocol modelled here is a small share of the
  repository's lines for that reason;
* the parity corpus and its runner, which are tests;
* the sequencer (rebase, cherry-pick, bisect), guards and intercepts, plugins, packages, UI
  verbs, worktree provisioning, indexer: no shared state with the protocol beyond the lanes;
* the parts of the plan below.

## 9. Plan

In this order:

| module | about | hazards |
|---|---|---|
| `StagedCommit` | a commit job's two children with the lane free between them | `jobrun.rs:157`, `:206` |
| `Coordination` | claims, hand-offs, messages and cursors in the ledger | `db.rs:410`, `:1098`, `:1233`, `superset/zon.rs:104`, `guard.rs:125` |
| `StatusCache` | the status maintainer and the barriers on it | `superset/statusd.rs:97`, `:109`, `:231`, `superset/coord.rs:44`, `superset/zwaitfor.rs:62` |
| `TreeWide` | snapshot, stash, rewind over many repositories, with a step that fails | `superset/zstash.rs:65`, `:93`, `superset/snapshot.rs:88`, `superset/zrewind.rs:52` |
| more of `Autonomy` | hooks, triggers, duplicate fan-out | |
| more of `RacyIndex` | the held index | `held_index.rs:21` |

Theorems left: those of the modules above, as they are written; for `Autonomy` and
`RacyIndex`, what becomes of their properties when the exceptions are taken away one at a
time, as `OneMechanism` and `spoiled` do for the lane and the cache.

## 10. How to run

Everything is in this directory; the community modules and TLAPS's library must be on the
path of the tools.

```
tlc -config RepoLane_one.cfg MCRepoLane          # a run: cfg and module from PROJECT.json
tlapm RepoLaneProofs.tla                         # the proofs of a module
```

The largest runs (`delivery`, `racy_index`, `cache_promise`) take about three minutes each on two cores, the others less; the
proofs take from seconds (`RacyIndexProofs`) to a few minutes (`WriterExclusionProofs`).
