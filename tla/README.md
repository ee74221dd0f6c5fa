# LiteChecker in TLA+

LiteChecker measures from one or more devices whether a VLESS/REALITY
subscription works, and delivers what it finds to a Telegram chat. This
directory holds TLA+ models of the parts of it in which the order of things
decides whether a report arrives, their TLC configurations, and proofs checked
by TLAPS. Paths below are relative to `src/src/litechecker/` unless they start
with `src/`.

## 1. The system

LiteChecker comes in three shapes that share code:

* *central*: several **agents** measure and post reports over HTTP to a
  **collector**, which stores them in SQLite and feeds an **outbox** of
  Telegram messages;
* *standalone* (Docker on Linux): one process measures, stores into the same
  SQLite store and drains the same outbox (`standalone.py`);
* *DIRECT* (macOS, Windows): one process measures and feeds a small JSON
  outbox of its own (`direct_service.py`, `direct_outbox.py`), and a signed
  updater replaces the program underneath it.

| component | state | operations | interacts with | what is hard |
|---|---|---|---|---|
| collector store, `collector/db.py` | SQLite tables agents, events, notifications and chunks | accept a report, offline transitions, claim / acknowledge / fail / release a notification, reset leases, requeue and rearm dead letters, sync the registry | called by handlers, watchdog, dispatchers, operators, each call one `BEGIN IMMEDIATE` transaction | retention, caps, requeues and alerts all share rows; any caller may come between two calls of another |
| outbox dispatcher, `collector/telegram.py` | a file lock, leases in the store | drain: reset leases, claim, send with tries and a deadline, acknowledge or record the failure | store, Telegram | lost answers, leases that run out, crashes between send and acknowledgement, several processes |
| collector service, `collector/app.py` | two asyncio events, two tasks | report handler, watchdog tick, outbox loop, restart | store, dispatcher | commits happen in a thread, signals in the event loop; full caps make the wakers fail |
| agent delivery, `agent.py`, `state.py`, `protocol.py` | files for the sequence, the pending report and the last acknowledgement, two file locks | draw a number, save, retry the previous report, replace, send, clear, record | collector | several processes on one directory, lost answers, late requests, crashes |
| DIRECT service, `direct_service.py`, `direct_outbox.py` | JSON outbox, status file, delivery flag | cycle, enqueue (drops the oldest), drain, acknowledge | Telegram | bounded queue, partial sends, restart |
| update transaction, `updater.py`, `update_store.py`, `runtime_lease.py`, `maintenance.py` | journal, version directories, leases, maintenance lock | prepare, activate, health check, commit or roll back, recover, clean up | platform service managers, running processes | killed between any two steps; versions in use must stay |
| measurement, `measurement.py`, `recheck.py`, `subscription.py`, `probe.py` | subscription snapshot, probe tasks, Xray processes and their loopback ports | control check, refresh, probe all, second look, report | network, Xray processes, other programs on the device | the deadline in any phase, ports that are free only for a moment, processes that die |
| DIRECT measurement, `direct_check.py`, `direct_guard.py`, `direct_relay.py`, `*_network.py` | the discovered connection, the relay, `last-observation.json` | discover, guard, look up the exit, measure, one second attempt | measurement, the device's network | the network changes unnoticed, attempts cut off by guard, budget or caller |
| Windows supervisor, `windows_*.py` | the wish, process records, a stop file, three locks | start, resume, adopt, stop, update; the supervisor's loop; the worker's gate | operating system, updater | supervisors that come up late, records of dead processes, one stop file for all |
| installation, `device_setup.py`, `native_install.py`, `install_handoff.py` | four settings files, `update.lock`, the folder of the archive, the launcher | ask and commit with rollback, default settings, handoff with removal of the archive | user, other terminals, updater | failures and interrupts within a commit and its rollback, edits meanwhile, kills |
| hosts, packaging | files, service registrations | installers, manifest checks | operating system | mostly input and output |

What makes each component correct:

* **store**: nothing an undelivered message needs is deleted; an event is
  accepted once; the outbox is bounded; every pending message
  has a chunk to send; requeueing repeats and loses nothing; alerts alternate;
  the rate limit limits.
* **dispatcher**: a chunk is marked delivered only if Telegram showed it; it is
  repeated only after a fault; the chat shows things in order; the outbox
  drains.
* **service**: a committed notification always has a wakeup; `outbox_idle`
  tells the truth; the cap on pending notifications is not a trap.
* **agent**: the newest report survives until the collector has it; the
  collector never refuses the report an agent is sending; nobody is left
  holding the delivery lock.
* **DIRECT**: nothing queued disappears unless it is counted as dropped; the chat
  is in order; a backlog drains; status and exit status tell the truth.
* **updater**: what is installed, registered or in use stays on disk; a failed or
  interrupted update ends in the old release; a broken release is tried once; a
  user's stop is respected; no cycle is cut short.
* **measurement**: a verdict rests on the target's own Xray; a server is called
  DOWN only on confirmed evidence, never for what is wrong at home.
* **DIRECT measurement**: a change of network that lasts leaves no verdict; the
  file of the last observation says what was said; nothing of a cut-off attempt is left running.
* **Windows supervisor**: one worker; "stopped" is so, stays so, and is reached.
* **installation**: settings of two terminals are not mixed up, the user is told
  the truth, the archive's files go only when nothing needs them and nobody
  edited them.

The full lists, with the code line of each hazard, are in `PROJECT.json`.

## 2. Modules

| module | models | uses |
|---|---|---|
| `ReportAdmission` | what a collector promises an agent (abstract) | |
| `OrderedOutbox` | what an outbox promises the reader of the chat (abstract) | |
| `CollectorDB` | `collector/db.py`, one action per public method | implements `ReportAdmission` |
| `OutboxDispatch` | `collector/telegram.py` over the store | extends `CollectorDB`, implements `OrderedOutbox` |
| `CollectorService` | the tasks and events of `collector/app.py` | |
| `AgentDelivery` | `agent.py`, `protocol.py` and the stores of `state.py` | relies on `ReportAdmission` |
| `DirectService` | `direct_service.py` and `direct_outbox.py` | implements `OrderedOutbox` |
| `Updater` | `updater.py`, `update_store.py`, `runtime_lease.py`, the POSIX adapters' activation, the user's commands | |
| `ProbeBatch` | one batch of `probe.py`: tasks, semaphore, Xray processes, ports | |
| `Measurement` | a cycle of `measurement.py` with the second look of `recheck.py` | extends `ProbeBatch` |
| `DirectCheck` | `run_trial` of `direct_check.py` under `direct_guard.py`; also the ordinary cycle | extends `Measurement` |
| `WindowsSupervisor` | `windows_control.py`, `windows_worker.py`, `windows_autostart.py`, the adapter of `windows_update.py` | |
| `DeviceSetup` | `device_setup.py` in several terminals | |
| `InstallHandoff` | `native_install.py`, `install_handoff.py` and the user around them | extends `DeviceSetup` |
| `CollectorDBProofs`, `CollectorServiceProofs`, `AgentDeliveryProofs`, `DirectServiceProofs`, `DirectCheckProofs`, `UpdaterProofs`, `WindowsSupervisorProofs`, `InstallHandoffProofs` | theorems | the module they are named after (`CollectorDBProofs`: also `OutboxDispatch`), TLAPS |
| `MC*` | constants and symmetry for TLC | |

`ReportAdmission` is the seam between the two halves of the central system. Its
one variable is the set of (agent, sequence) pairs taken so far, and a report is
taken only if its sequence is above all of the agent's earlier ones. The store
is shown to implement it (`AdmitsInOrder`, `ImplementsAdmission`, with the
accepted events mapped to the log); the agent's model uses the same operator to
decide what the collector answers.

`OrderedOutbox` is what both senders to Telegram have in common: messages get
growing numbers when they are taken in, their chunks are shown oldest message
first and each after the ones before it, and a message leaves when it was shown
whole or is set aside. Only a message that was once set aside may come late.
Sending a chunk again is a stuttering step, so the abstract outbox says what
reaches the reader, and in which order, but not how often. `DeliversInOrder` maps

* in `OutboxDispatch` the numbers to `1 .. lastId`, the waiting messages to the
  pending rows, `aside` to the rows that were ever dead letters, `shown` to the
  history of the chat. A requeue takes its clone in as a new message, `Return`
  is the retry command, and leases, tries and retention are not seen: retention
  may delete what has left, nothing else;
* in `DirectService` the numbers to the cycles whose message was queued, the
  waiting messages to the queue, and `aside` to the messages that neither wait
  nor were shown whole, the dropped ones. A chunk counts as shown when it was
  shown in one piece or in all parts of a late chunk. Nothing returns here, and a
  message is set aside only while another is taken in.

### CollectorDB

Variables are the tables (`agents`, `events`, `notes`, `lastId`), the clock
`now` and three history variables used by properties only. A public method of
`CollectorDB` runs in one transaction that commits or rolls back as a whole, so
it is one action, retention (`_prune_history`) and capacity checks included. A
call that raises or finds nothing to do leaves the tables alone and is a
stuttering step.

Points where the model had to choose, and where it follows the code against
intuition:

* A message is its number of chunks. Measurement columns, `agent_boots`
  (written, never read), error codes and migrations are left out.
* `completed`, `dead_letter` and `requeued` are one field with four values, the
  only combinations the UPDATE statements produce.
* Events received in the same microsecond are ordered by their id as text in
  the code and by sequence in the model.
* The clock does not run backwards. A report carries the time at which its
  handler took it (`app.py:186`); its transaction comes up to `ReportDelay` later,
  after others perhaps, so its time may lie before the stored window
  (`Overtaken`), which then begins anew. The wait has no limit in the code. A
  dispatcher's and the watchdog's `now` is taken to be the time of the
  transaction. The watchdog is one task that sleeps between its checks, so no two
  checks are of one instant (`checked`). A registry change does not change an
  agent's interval.
* `record_notification_failure` does not look at the lease's expiry;
  `acknowledge_chunk` does.
* `offline_transitions` is all or nothing: one overdue agent without room
  blocks the alerts of all.
* `retry_dead_letters` (called once when a standalone process starts,
  `standalone.py:186`) checks no cap. A requeued notification is never pruned:
  it is not `completed`.
* `release_notification` is called by tests only and `requeue_dead_letter` by a
  documented operator command; both are actions all the same.

### OutboxDispatch

Each owner is a dispatcher in a process of its own, with a program counter
(`locked`, `claiming`, `sending`, `acking`, `failing`) and the claim it holds.
Between two transactions of one dispatcher every other caller of the store may
act (`Elsewhere`). Telegram is external: a send may show the chunk and confirm
it, show it and lose the answer, show it and answer 200 with a body the sender
cannot use, which it records as a permanent failure (`AnswerUnusable`), show
nothing, or refuse for good; the send deadline may cut it either way. `posted` is
the chat. `repeats` counts the chunks the chat reads again: a requeued message is
the same text under another number (`Text`). A *fault* is an event after which a
repetition is unavoidable: a lost or unusable answer, a deadline, a lease that ran
out before the acknowledgement, a crash. A dead letter that was shown in this way
repeats that chunk when it is requeued or rearmed.

### CollectorService

The commit of a handler (in a worker thread) and its `_signal_outbox` (in the
event loop) are separate actions; `toSignal` holds the tasks between the two.
The outbox loop is modelled at its await points. The store is reduced to what
decides who is woken: a queue of notifications of one chunk whose claim, send
and acknowledgement are one step, dead letters, the offline flags. Time appears
by its effects only: an agent becomes overdue, a retry becomes due, a sleep ends.

### AgentDelivery

`next`, `pending`, `highWater` and `ack` are the state files, `lock` the
delivery lock, `run` the program counter and local variables of each process.
Each store operation is atomic (a short file lock, a temporary file renamed),
and between two of them the other processes act; this is what the three
revalidations in `_deliver_current` are for. `digest` is what the collector
stored under each sequence, `delayed` the requests whose client stopped
waiting: they may still be handled, in any order.

* A report is its sequence and whether it announces a dropped report: nothing
  else of it changes after the measurement, so it is what the digest can
  differ in.
* The boot id is left out: the counter never gives a number twice.
* `Crash` stands for a store failure, a cancellation and the death of the
  process alike; an open request survives it as a preceding `NoAnswer`.
* Left out: malformed files, the pending file's older format, the snapshot
  store, retention of events at the collector.

### DirectService

`service.lock` admits one service and the service is one task, so apart from
Telegram only failures and restarts come between its steps; the steps are those
at which the queue's file, the status or the chat changes. A chunk of an
earlier cycle is split again to make room for its label, so it takes `LateParts`
sends and one acknowledgement. `Enqueue` drops the least number of messages
from the front that makes the queue fit, as the loop does; `Excess` says so
without a loop. Time is reduced to what decides whether the queue is tried
between two cycles: the number of waits that end in a drain. A measurement
stopped by its deadline (540 s by default) leaves such a wait only if the cycle
had no drain of its own. `Overruns` allows cycles that outlast the interval,
which a large `LC_RUN_DEADLINE_SECONDS` makes possible; it is FALSE in `queue`,
see `BacklogDrains` below. A write that fails has not been done
(`_atomic_write_json` ignores a failed synchronisation of the directory), but
`outbox.status()` may fail after a message was queued. Left out: `once`,
`max_cycles` and `send=False`, and the content of a message.

### Updater

The updater and the user's command are two workers with a program counter each,
which meet in three locks and in `desired`, the file that says whether the user
wants the service to run. `install` is the file `install.json` and `state` the
updater's copy. A failed write of it may have replaced the file
(`_atomic_json` reports a failed synchronisation of the directory), and the
handlers of such failures write the copy again. `activate` is split where
`desired` is read and the platform is called: unload and register, load if
desired, look again. `healthy` observes the service first and reads `desired`
afterwards, as both adapters do. The order of unloading and registering is that
of the macOS adapter. Menus hold leases; selecting and registering one is
atomic under `dispatch.lock`, and so are removals.

A release is a pair of sequence number and version: two archives of one version
compete for one directory. `Broken` are the releases that do not run on this
device. A check that finds the window taken for its 60 s gives up (`WindowBusy`)
and may do so any number of times: cycles and checks have timers of their own.
Left out: the channel's switch and the hourly due date (a check may
start at any time), `was_running` (used only before the first start), deferred
deletion and the adapter of Windows, temporary directories, Docker images.

### ProbeBatch and Measurement

A task of a batch waits for the semaphore, resolves, dials one address after
the other and, for a VPN target, starts an Xray process with a loopback port
that was free a moment before. `Bind`, `XrayDies`, `ForeignBinds` and
`ForeignLeaves` are what the operating system may do between any two awaits of
the task; every answer of a peer is a parameter of the step that waits for it
(`PlainOutcomes`, and `ScopedOutcomes` where a transport can tell a local failure
from a remote one). `EnsureHealthy` is the look of `_XrayLease.ensure_healthy`:
the process lives, accepts its own password and refuses another, and is the
owner of the one socket. A canary is asked after one look and its answer counts
after the next. `Cut` is the end of the wait in `probe_all`: tasks that are done
keep their result, the others end with DEADLINE once their Xray is stopped.

`Measurement` adds the phases of `measure_cycle`, one per await. The deadline is
a clock of three values: more than the delay before the second look, less, and
none. `RunProbes` and `RunControl` return at once without time left. `Judge` to
`LastControl` follow `confirm_failures` step by step: a control, the second
batch of failed targets only, another control. `Incomplete` is the reason that
`_reconcile_run_status` derives from the stages. A snapshot is the set of
targets of the cycle and holds a VPN target at least, or the parser refuses it.

Left out: the stage details and fault codes, the file of attempts, `changed`
targets and durations, a recheck refused as invalid.

### DirectCheck

`host` says who measures: the ordinary route (central agent and Docker), macOS
under `guard_network`, or Windows with a look after the cycle. `wire` is the
physical connection, one of `Networks` and changing to and fro as often as it
likes, `net` the one the attempt discovered; they are compared where the code
compares them, and sockets bound to the old connection may still bring an answer
from the new one until then. `astray` says that an attempt's last change has
not been followed by a return. `at` is the await of `run_trial`.
`Abort` cancels the measurement, `Joined` continues only when every owned task
has ended, and while tasks are joined the budget or the caller's cancellation
takes the place of the interruption (`CutOff`). The ordinary cycles of this
module are those of `Measurement` unchanged, so one run checks both.

Left out: the relay's own connections, failing writes of the observation and
`last-probe-attempts.json`.

### WindowsSupervisor

A supervisor is an instance number; in the code it is a nonce next to a pid and
a start time, so a record never matches another process. A console's command
is split at its awaits and locks: the wish is recorded, a supervisor is reserved
under its own lock, spawned, and polled; a stop records the wish, looks, writes
the stop file and waits. A spawned supervisor may take any time to run (`Wake`).
Its worker belongs to a job object, waits at a gate until the record names its
supervisor, and looks there for a stop and for the wish. The update task
replaces the worker, after a look at whether one runs (`LookAtWorker`), which
decides whether it starts one again and what it takes for healthy; `LockHeld` is
`_worker_lock`, which a stop has to wait for.
The logon shortcut's start (`resume`) and the adoption of an installation
without autostart are kinds of start.

Left out: a worker tree that cannot be killed, consoles killed within a
command, and the release's files and the recovery of an interrupted update
(the subject of `Updater`), `was_running` of its journal included.

### DeviceSetup and InstallHandoff

`setup` holds, for each terminal, what `configure_device` is doing and what its
user reads last. `Write` is one atomic replacement; `WriteFails` may have
replaced the file or not, and stands for an interrupt too; the rollback looks at
each file and goes on after a failure. `base` records the files at the start of
the last commit. A value stands for the bytes of a file; input the prompts
refuse changes nothing, and files that cannot be read or parsed refuse the setup
(`Unreadable`).

`InstallHandoff` is the shell script's sequence: default settings, setup,
handoff. Without a terminal the script leaves the setup out
(`install-macos.sh:183`, `Skip`), and what follows depends on the settings that
are there. The archive's files are pristine, edited, gone, or `late`: edited
between their last comparison and their removal, the one window that is left.
A kill may come at every step (`InstallerDies`, `SetupDies`), and the installer
may be run again if the folder is still pristine; a launcher left there refuses
another handoff.

Left out: private data copied from the folder, the runtime's preparation,
service registration, a second interrupt between two files of the rollback.

## 3. Runs

All runs disable the deadlock check: bounds on time, ids, sequences and faults
stop each model in the end, and a quiet system has nothing to do.

| run | shows | instance |
|---|---|---|
| `store` | `UnresolvedKeepsEvent`, `DedupeKeysUnique`, `BacklogBound`, `AdmitsInOrder`, `AlertsAlternate` | 2 agents, the second with one report; 2 boots, 1 reactivation, caps and limits of 1 or 2, retention 0, 3 ids, 4 ticks, the last for the watchdog alone |
| `order` | `ChatInOrder`, `RepeatsNeedFaults`, `RateBound`, `DeliversInOrder`, `OutboxDrains` (liveness) | 2 dispatchers; 2 reports of 1 or 2 chunks, lease of 1 tick, 1 completed row kept, 1 fault besides leases that run out; or 7 reports in bursts of 2, windows of 2 ticks, waits of up to 1 tick, 1 return to the registry |
| `wakeup` | `NoLostWakeup`, `RoomWhileTicking` (liveness) | 2 agents, caps 2 and 3, 2 faults |
| `blocked` | **violated**: `AdmissionResumes` | 1 agent at its cap, 1 outage |
| `shared` | `NewestIsSafe`, `CurrentNeverRefused`, `DeliversOnceCalm` (liveness) | 2 processes, 4 reports, 3 faults |
| `queue` | `NothingVanishes`, `ChatInOrder`, `StatusIsTrue`, `BacklogDrains` (liveness) | queue of 2 messages and 3 chunks, drains of 2, 2 to 4 cycles, 2 faults |
| `update` | `StopIsFinal`, `UnhealthyNotRetried`, `RunsWhatIsInstalled`, `InUseStaysOnDisk`, `CyclesAreNotCutShort`, `RecoveryEnds` (liveness) | 3 releases, 2 of one version, the first broken; 1 menu, 3 commands, 2 faults |
| `stop` | **violated**: `StopDoesNotCondemn` | 1 command, no fault |
| `cycles` | `EvidenceIsOwn`, `DownIsConfirmed`, `BlameIsLocal`, `LastingChangeIsSeen`, `ObservationIsTrue`, `NothingLeftBehind` | 2 VPN targets and a domain, 1 port, 2 addresses, cycles without end; trials of 1 VPN target and the domain, any number of changes between 2 networks |
| `stops` | `OneWorker`, `StoppedMeansStopped`, `StopIsKept`, `StopTakesEffect` (liveness) | 2 consoles, 3 launches, 1 update, 1 process that dies |
| `install` | `NoLostUpdate`, `OutcomeIsTrue`, `NeverStranded`, `EditsSurvive` | 2 terminals, 2 faults, the configuration in two values and the rest in one, 1 file and the manifest, 2 edits |
| `cancel` | **violated**: `CancelledSavesNothing` | 2 terminals, 1 fault (the Ctrl-C) |

The type invariants of the proved modules are not spent on a run: TLAPS proves
them for every instance. The same goes for `AcknowledgedWasShown`, of which
`DeliversInOrder` checks what a reader of the chat would notice, and for
`DeliversInOrder` of `DirectService`.

Why the bounds are enough for the cases to happen. Retention of zero and caps
of one row make every transaction prune; three ids allow a report, its requeue
and a further report. Thresholds, windows and leases of one to three ticks put
every boundary of the time comparisons inside `MaxTime`. Two dispatchers are
what a stolen lease needs; a lease that runs out under a lost answer or a crash is
what they can disagree about. The run `order` has two parts (`Parts` of
`MCOutboxDispatch`): the chat with two notifications, and a series of seven
reports that nobody drains, which are two bursts, and a third after a window was
opened anew or the agent returned to the registry. In `order` no agent
skips a number, in `store` only the first one; larger numbers would be accepted for
the same reasons. Reports wait for their transaction in `order`, not in `store`;
a silent agent is alerted at the third tick of `store`, and the fourth is there for
one more check. Two agents
are what the all-or-nothing watchdog and the shared caps need. Two processes allow one to be superseded while the other holds the lock; four
reports give each of them two turns, and three faults a report that waits, whose
retry fails, while the next one is taken without an answer. A queue of two
messages overflows in the third cycle, with a half-sent head or without. Three
releases give an update that fails, one that supersedes it and one that finds
its version's directory taken; two faults allow a commit or rollback that cannot
be written and a crash of the recovery that follows. In `store` the second agent
sends one report: it goes silent and takes room with its alert, which is
what the shared cap and the all-or-nothing watchdog need of it. One port for two
VPN targets makes every pair of processes meet on it; one canary per tunnel is
enough because each is preceded and followed by a look. Two networks allow a
change, a return and a change between any two looks, and a look may also fail by
itself. Three launches allow a late supervisor, a second one, and the one a console
starts after both; one update meets a stop at each of its steps. Two terminals and two faults allow a failed write with a failed restore,
and a killed setup followed by a killed installer.

The property comments in the modules say what each one means. Some are
easily misread:

* `BacklogBound`: a report is admitted only below both the pending cap and the
  dead letter cap, so their sum bounds what an agent has waiting or dead. The
  OFFLINE notice ignores the dead letter cap; the bound has one place for it,
  free while the agent is online, and a return to the registry clears the flag
  and may add one more.
* `RateBound`: a fixed window lets two bursts meet at its edge, never three; one
  report less, since a window begins with a report that is inside the span. A
  return to the registry forgets the window, and a report that others overtook
  restarts it with a time in the past (`db.py:319`); `reactivated` and `reopened`
  count these, and each may add as much again. So the limit is one only as long as
  handlers do not overtake one another; how often they do is up to the thread
  pool and the lock of the database.
* `RepeatsNeedFaults`: an answer 200 that cannot be used makes a dead letter
  of a chunk that was shown, so the requeue an operator orders repeats it.
* `CurrentNeverRefused` speaks of the report a process sends as its own. A
  process may hold a copy of the pending report from before its owner raised
  `dropped_report_count`; its retry is refused as a conflict and counted as a
  dropped report, although the collector has that report. In the same way a
  lost answer followed by a failed retry counts a report the collector took,
  and a report left because the delivery lock stayed busy is not counted. So
  the number shown as lost in the chat (`collector/reporting.py`) is an
  indication, not a count.
* `BacklogDrains` needs a drain between two cycles after a failure. A cycle only
  queues its message after a failed delivery and leaves the sending to the
  waits; if `LC_RUN_DEADLINE_SECONDS` lets cycles take the whole interval of
  600 s there are no waits, and the queue is not tried again until a restart
  (`Overruns = TRUE`). The default of 480 s leaves one.
* `RunsWhatIsInstalled` holds while at most one fault has struck. A second one
  can hit while a commit that was written, but reported as failed, is undone;
  the file then says the new release is active while the old one is registered,
  until the next start or update.
* `RecoveryEnds` promises no more than the code can: the journal is cleared, or
  check after check gives up on a window that a cycle holds. A check waits 60 s,
  cycles are spaced by 600 s and may take most of that; nothing keeps the timers of
  the two from falling together for ever. Without the first disjunct TLC finds just
  that. An update interrupted by a crash is marked as failed by design.
* `EvidenceIsOwn` rests on the second look: at the moment a canary is answered
  another program may well own the port (`ForeignBinds` after `XrayDies`).
* `LastingChangeIsSeen` is about results that judge a server, and about changes
  that last until the next look. A network that goes away and comes back between
  two looks (2 s apart on macOS, the whole cycle on Windows) leaves no trace, and a
  verdict may then rest on answers from both; `src/docs/operations/full-reference.md:36`
  says so of short transitions. A trial that measured across a change may still
  say that nothing was measured.
* `NothingLeftBehind` starts where an attempt is over. While it is joined its
  processes may still run.
* `StoppedMeansStopped` is about workers past their gate. A supervisor that was
  launched earlier may still be coming up when status says "stopped"; it then
  finds the wish and its worker ends at the gate (`StopIsKept`). If a start
  gave up waiting for it after 25 s, though, it may come up with the wish to run
  in the middle of an update of the stopped installation, whose `start.lock` it
  does not take (`windows_control.py:157`).
* `StopTakesEffect` is leads-to: a stop command may answer "stopping" and return
  while an update is finished first.
* `OutcomeIsTrue` is about "saved" and about what a rollback reports. "cancelled"
  without a rollback, the Ctrl-C after the last write, is not true
  (`CancelledSavesNothing`, finding `cancel`). A killed setup says nothing: its
  files may be a mixture, since there is no journal.
* `NeverStranded` has a way out: another terminal completes the settings, the
  installer sees them without the lock (`device_setup.py:448`) and goes on, and
  the other terminal's commit fails and takes them back.
* `EditsSurvive` does not cover an edit between the last comparison of a file and
  its unlink (`install_handoff.py:374`), though the comment at
  `install_handoff.py:450` says that the window is closed.

### Findings

`blocked`: `src/docs/operations/full-reference.md:482` says that admission resumes by
itself once notifications are acknowledged after a limit was reached. Run
`blocked` shows how it may not: Telegram is down while an agent fills its
pending cap, and a drain ends with a postponed retry and the event clear. The
agent then becomes overdue. `offline_transitions` has no room for its alert and
raises, and `_watchdog_once` signals the outbox task only when it did not
(`collector/app.py:150`). Reports are refused with 503 and signal nothing
either. Telegram recovers, the retry becomes due, and nobody wakes the task.
Only a restart, a duplicate report or a report of another agent would.
`RoomWhileTicking` states what does hold: if ticks keep completing, room
appears.

`stop`: a user's stop records the wish first and stops the service then. A
running update whose health check falls in between sees a service that is active
and not wanted, calls the new release unhealthy, rolls back and refuses that
release from then on. `src/tests/test_update_platform.py:284-297` expects a stop
during an update to leave it healthy. On Docker the stop may take as long as the
container's grace period, so the interval is not small.

`cancel`: `_commit` restores the files when an interrupt hits it during the
writes. After the last one it only releases `update.lock`
(`device_setup.py:437`), outside the handler; a Ctrl-C there ends in the same
branch of `configure_device` as one at the prompts and prints that the changes
were not saved (`device_setup.py:456`), although all files hold them.
`src/tests/test_device_setup.py:425-426` expects the files unchanged after that
answer. During an installation the exit status 130 also stops the script, with the
setup complete.

## 4. Fairness

* `OutboxDispatch`: some dispatcher starts a drain whenever one can start, and a
  drain in progress goes on. A send ends at its deadline at the latest and every
  other step is a bounded local call. That drains keep starting is the outbox
  loop's business: `CollectorService` shows when it does and when it does not
  (`blocked`). `order` sets the retry delay to zero, which stands for delays that end; the
  premise of `OutboxDrains` excludes operators who rearm dead letters for ever.
* `CollectorService`: asyncio runs tasks that can run, the watchdog's timer
  fires, sleeps and retry delays end. Nothing is assumed of agents, and
  Telegram's recovery is a premise of the properties.
* `AgentDelivery`: a started cycle goes on, because requests time out and lock
  waits are bounded. New cycles, late arrivals and faults are not fair.

* `DirectService`: the service's task goes on, since sends, cycles and waits have
  time limits. Failures are not fair and end (`MaxFaults`).
* `WindowsSupervisor`: commands, supervisors, update tasks and workers go on:
  every wait of theirs has a limit. Nobody is assumed to give a command. Strong
  fairness of `ReadStop`: a stop leaves its file for up to 30 s while the
  supervisor looks every 0.2 s, so it is not missed again and again between
  stops of other supervisors.
* `ProbeBatch`, `Measurement`, `DirectCheck`, `DeviceSetup` and `InstallHandoff`
  state no liveness: every step may wait for the network or a user.
* `Updater`: checks are started for ever and go on, if only to give up on the
  window, and commands end. Nothing is assumed of the length of cycles or of their
  phase to the checks.

## 5. Proofs

The theorems hold for all values of the constants that satisfy the named
assumptions: finitely many agents, numbered; limits that are positive numbers;
`None` distinct from the numbers, names and strings it stands beside. Bounds such as `MaxTime` and `MaxFaults` are
arbitrary numbers, so the proofs cover behaviours of any length.

**CollectorDBProofs.** The invariant is
`IInv == TypeOK /\ UnfinishedHasChunk /\ UnresolvedKeepsEvent /\ HighWater`.
`UnresolvedKeepsEvent` needs to know that pruning deletes only completed rows
and that a clone is unresolved for its source's event; a row is completed only
with its last chunk, so `UnfinishedHasChunk` and the types are part of it.
`HighWater` says that `agents.max_sequence` is at least every sequence ever
accepted; without it nothing connects an agent's row with events retention has
deleted. Lemmas treat the operators first: deleting completed rows keeps the
rest (`PruneKeepsUnfinished`), pruning events keeps protected ones
(`PruneEventsKeepsProtected`). Each action then has one lemma.

* `TypeCorrect`: `Spec => []TypeOK`
* `UnfinishedAlwaysHasChunk`: `Spec => []UnfinishedHasChunk`
* `RetentionIsSafe`: `Spec => []UnresolvedKeepsEvent`
* `NoEventAcceptedTwice`: `Spec => AcceptedOnce`
* `ImplementsAdmission`: `Spec => AdmitsInOrder`, the refinement

A second round rests on `IInv` and on `StepOfNotes`, one lemma per action about
the rows it inserts and what may become of the others: nothing that was done
with comes back, a requeued row stays as it is, and a row never changes its
kind, agent, event, time, source or number of chunks.

* `KeysNeverCollide`: `Spec => []DedupeKeysUnique`. Three causes can insert a
  key, and each needs a reason of its own why it is new, collected in `KeyInv`:
  a report's event is newer than every accepted one (`ReportsAccepted` with
  `HighWater`); a dead letter with a clone is "requeued" and stays so
  (`ClonesOnce`); an agent reported offline at this very instant is offline or
  was heard of at this instant, so it is not overdue (`NoticesRaised`). The last
  one is why a report, and a return to the registry, must count as evidence: two
  OFFLINE notices of one agent with one timestamp would collide.
* `AlertsTakeTurns`: `Spec => AlertsAlternate`; the offline flag is the last
  alert (`FlagIsAlert`).
* `BacklogStaysBounded`: `Spec => []BacklogBound`, by counting: of the steps
  only a report, an OFFLINE notice and a clone add unresolved rows, and each is
  paid for by room below both caps, by the flag, or by the dead letter it
  replaces.
* `RateStaysBounded`: `Spec => []RateBound`. `WindowInv` bounds the events
  accepted since every t: since the window began by its counter, since one
  window before that by a burst more, and each return to the registry, which
  forgets the window, and each window opened anew by an overtaken report add as
  much again. It holds for reports that wait for any time.

The last part is about the dispatchers of `OutboxDispatch`, for any number of
them, of tries and of faults. `DispatchUsesTheStore` (`DispatchSpec => Spec`)
shows step by step that they use the store as its specification says, so all of
the above holds while they drain it. The rest follows from one invariant,
`DispatchInv`, over `IInv`:

* whoever drains holds the lock (`Exclusive`), so the claim it works on is still
  in the table, with the same owner and the same next chunk (`Claims`): retention
  deletes completed rows only, and nobody else touches leases;
* what is about to be acknowledged was shown (`AcksFollow`), and no chunk beyond
  the next one was (`ShownInTurn`): `NothingIsSkipped` (`AcknowledgedWasShown`);
* a pending notification that a shown or a sent one has overtaken was a dead
  letter (`LateWereDead`): `TheChatIsInOrder` (`ChatInOrder`);
* `Debt` is the set of unresolved notifications whose next chunk says what the chat
  has read already and which nobody is about to acknowledge.
  `repeats + Cardinality(Debt) <= faults` (`DebtBound`): a fault makes at most one
  debt, a repetition that is acknowledged pays one, and a dead letter's debt passes
  to its clone. `RepetitionsAreOwed` (`RepeatsNeedFaults`) alone is not inductive,
  since a repetition comes long after its fault. `ChainInv` is about the chains of
  clones: every clone's source is in the table and older (`SourcesAmong`), and of
  two rows that descend from the same notification the older one is requeued and the
  newer one holds no more chunks than the older one has not sent (`RestsNest`).
  `Root`, the notification a clone descends from, is a recursive function; that it
  exists and is what its equation says is proved by smallest counterexample (`WFMin`
  of `WellFoundedInduction`, which takes sets, not operators); roots with one key
  are one root by `KeysNeverCollide`;
* `DispatchersDeliver` (`DeliversInOrder`): the store and its dispatchers
  implement `OrderedOutbox`, step by step. A new row waits and a row that leaves
  the table was completed (`OutboxKept`), no row changes its number of chunks
  (`CountsKept`); `DispatchInv` gives what the guards of the abstract actions ask
  for: a chunk that is shown is the head's next one, its predecessors were shown,
  and what is completed was shown whole.

**CollectorServiceProofs.** `IdleIsTrue` (`IdleIsIdle`) and
`WakeupsAreNotLost` (`NoLostWakeup`), by one invariant on the events, the
loop's place and the head of the queue.

**AgentDeliveryProofs.** For any number of processes, reports and faults:
`TypeCorrect`, `NewestNeverLost` (`NewestIsSafe`) and `CurrentIsWelcome`
(`CurrentNeverRefused`). The invariant adds to these, among others, that every
number in use was drawn from the counter (`NumbersDrawn`), that the high water
covers everything sent or taken (`HighWaterCovers`), that what is retried is
older than what its process delivers (`RetriesOlder`), that a report is unknown
to collector and network until its first send (`UnsentBefore`), and that the
process that sends is the newest that ever sent (`SendsNewest`).

**DirectServiceProofs.** For queues, messages and drains of any size, any number
of cycles and any faults: `NoSilentLoss` (`NothingVanishes`), `ChatFollowsQueue`
(`ChatInOrder`) and `StatusHolds` (`StatusIsTrue`). `QueueInv` says that the
queue is ordered and numbered by the cycles, `AcknowledgedInv` that what was
acknowledged was shown whole, `ShownInv` that a drain has shown the parts before
its next one, `BehindQueue` that the chat never runs ahead of the queue: that is
what makes a message sent after a restart a repetition and not a disorder.
`VerdictInv` covers the steps between the queueing of a message and the verdict
on its cycle. `ServiceDelivers` (`DeliversInOrder`) shows that queue and drains
implement `OrderedOutbox`: a new message has the highest number, what it pushes
out is older than what stays (`EnqueueKeeps`), the chunk being sent is the
oldest message's next one, and a message is finished only when shown whole. It
needs one invariant more, that the chat shows only what was queued
(`ChatKnown`): otherwise the chunks of a message that is taken in might already
have been shown.

**DirectCheckProofs.** The theorems of `ProbeBatch`, `Measurement` and
`DirectCheck`, for any targets, ports, networks and hosts, so both for
`measure_cycle` by itself and within a trial: `VerdictsRestOnOwnXray`
(`EvidenceIsOwn`), `ADownWasConfirmed` (`DownIsConfirmed`), `NobodyElseIsBlamed`
(`BlameIsLocal`), `LastingChangesAreSeen` (`LastingChangeIsSeen`),
`TheObservationIsTheResult` (`ObservationIsTrue`) and `AnAttemptCleansUp`
(`NothingLeftBehind`). The invariant has a part per module. `ProbeInv` treats one
target at a time: a process runs only between the launch and the cleanup of its
tunnel, a living process that was found listening still owns its port, and a
canary answered by somebody else means that it is dead, so that no later look
succeeds (`OwnIsLost`). `CycleInv` says what each await of `measure_cycle` has
behind it: how often every failure in the results was confirmed
(`Confirmation`), and which targets they judge (`Judged`; after a failed control,
or with the wrong Xray, none). `TrialInv` says that an attempt that went astray is on
another network than its own or has been found out (`StrayingIsSeen`), until the
last look of macOS or the look after the cycle on Windows; and that nothing of a cycle exists between measurements, which
is why only a joined measurement may be followed by another attempt.

**UpdaterProofs.** For any releases, menus, commands and faults: `InUseIsKept`
(`InUseStaysOnDisk`), `TheUnhealthyIsNotRetried` (`UnhealthyNotRetried`),
`TheInstalledRuns` (`RunsWhatIsInstalled`), `AStopIsFinal` (`StopIsFinal`) and
`CyclesEndThemselves` (`CyclesAreNotCutShort`). `LockInv` says who holds which
lock, `StopInv` that a completed stop is still the wish, `MenuInv` that menus run
what is on disk. The rest is `Transaction`, about the updater's copy of
`install.json`, the file, the registered service and the disk, from step to step
of a transaction: both copies are `Sound` (what they name is on disk, a pending
update goes from the active release to the newest ever accepted, and that one is
`Remembers`ed if it was unhealthy); the service is `Registered` for what is
installed, was before or is pending; copy and file agree but between the journal
and its end (`Plain`, `Pending`); each goal of a transaction fixes what the
service is registered for when it ends (`Goal`); and only a second fault can
break that (`Runs`). `CyclesEndThemselves` needs the window to be taken between
two cycles or to end the one that runs.

**InstallHandoffProofs.** For any terminals, files, choices, edits and faults:
`NobodyIsStranded` (`NeverStranded`), `NoUpdateIsLost` (`NoLostUpdate`),
`TheOutcomeIsTrue` (`OutcomeIsTrue`) and `TheEditsSurvive` (`EditsSurvive`).
`Ready` says what a setup knows at each step, `LockInv` that the terminal that
writes or restores holds `update.lock`, `CommitInv` relates the files to `base`
and to what is written so far: a file written holds what its user entered, one
restored what was there. `ConfigInv` keeps the installer's default settings out
of every commit, `MenuInv` and `UnlinkInv` tie setup and removal to their step of
the install, and `HandoffInv` says that files of the archive go only after the
launcher and the settings are there.

**WindowsSupervisorProofs.** For any number of consoles, launches, updates and
deaths: `OneWorkerAtMost` (`OneWorker`), `StoppedIsTrue` (`StoppedMeansStopped`)
and `StopStays` (`StopIsKept`). The invariant has four parts. `LockOwns`: a
supervisor runs if and only if it holds `supervisor.lock`, and only it has a
worker or an update. `RecordFollows`: the record names whoever holds the lock,
because `run` publishes it before anything else. `FreshLaunch`: a start holds
`start.lock` from its check to its launch, so the instance it spawns is not
alive yet. `QuietInv`: while `quiet` holds the wish to stop is recorded and no
worker is past its gate. The first two give `OneWorker` and
`StoppedMeansStopped`; that in turn is what a stop needs to establish `quiet`.

Only model-checked: the liveness properties (`OutboxDrains`,
`RoomWhileTicking`, `DeliversOnceCalm`, `BacklogDrains`, `RecoveryEnds`,
`StopTakesEffect`), which need fairness and `ENABLED`.

## 6. Plan

Done: modules 1 to 12.

1. `CollectorDB`, 2. `OutboxDispatch`, 3. `CollectorService`,
4. `ReportAdmission`, 5. `AgentDelivery`, 6. `DirectService`, 7. `Updater`,
8. `ProbeBatch`, 9. `Measurement`, 10. `DirectCheck`, 11. `WindowsSupervisor`,
12. `DeviceSetup` and `InstallHandoff`.

Done since: 13. `OrderedOutbox`, implemented by `OutboxDispatch` and
`DirectService`.

Proved: every safety property of the passing runs, and the refinements of
`ReportAdmission` and `OrderedOutbox`.

Then:

14. An abstract update that `Updater` implements.
15. `MessageChunks`: `chunk_message` with its growing numbering prefix.

## 7. Not modelled

* Input and output: HTTP and body parsing, TLS, DNS packets, the relay's
  connections, service managers, Docker, PowerShell and launch agents. Their
  outcomes are choices of the models that use them.
* Pure functions without order: wording and layout of messages, report
  formatting, parsing of subscriptions, settings, manifests and channels,
  configuration and file permission checks, authentication.
* The release, backup and restore scripts, and `standalone.py`, whose calls into
  the store are actions of `CollectorDB` and `OutboxDispatch` already.
* What each module leaves out is listed with it. The health endpoints only read.
  `CollectorService` models the one dispatcher of its process; several
  dispatchers are the subject of `OutboxDispatch`.
