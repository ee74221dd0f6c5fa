------------------------------ MODULE Updater ------------------------------
(***************************************************************************)
(* The update transaction of updater.py over the release store of          *)
(* update_store.py, the service it replaces (the POSIX adapters), the      *)
(* user's start and stop commands (update_platform.py) and open menus      *)
(* (runtime_lease.py).                                                     *)
(*                                                                         *)
(* install is the file install.json; state is the updater's copy of it,    *)
(* which a failed write leaves different from the file.  A release stands  *)
(* for its directory and for its digest.  desired-running.json exists from *)
(* the first start on, so was_running, its default, is left out; so are    *)
(* the channel's on/off switch and the hourly due date.                    *)
(***************************************************************************)
EXTENDS Integers, FiniteSets

CONSTANTS
  Published,    \* signed releases that the mirrors may offer: [seq, version]
  Broken,       \* those of them that do not run on this device
  Baseline,     \* the installation itself, which is never removed
  None,         \* no value
  Menus,        \* menu processes
  MaxLooks,     \* observations of a health check (12 in the code)
  MaxCommands,  \* bound of the model on start and stop commands
  MaxFaults     \* bound of the model on failures and crashes

ASSUME UpdaterAssumption ==
  /\ Published \subseteq [seq : Nat \ {0}, version : Nat \ {0}]
  /\ Broken \subseteq Published
  /\ {Baseline, None} \cap Published = {} /\ Baseline # None
  /\ None \notin {"updater", "user", "service"}
  /\ None \notin [from : Published \cup {Baseline}, to : Published]
  /\ MaxLooks \in Nat \ {0} /\ {MaxCommands, MaxFaults} \subseteq Nat

VARIABLES
  install,     \* install.json
  state,       \* the updater's copy of it
  releases,    \* the complete directories under .updates/releases
  lock,        \* holders of update.lock, maintenance.lock, service-control.lock
  task,        \* what the updater and the user's command are doing
  configured,  \* the release that the service is registered to run
  running,     \* is it loaded?
  desired,     \* desired-running.json
  lease,       \* the release that each open menu runs, or None
  stopped,     \* the user's last command is a stop that has completed
  unhealthy,   \* candidates that failed their health check
  commands,    \* number of commands so far
  faults       \* number of faults so far

files == <<install, state, releases>>
service == <<configured, running>>
bounds == <<commands, faults>>
vars == <<files, lock, task, service, desired, lease, stopped, unhealthy, bounds>>

Version(r) == IF r = Baseline THEN 0 ELSE r.version

Workers == {"updater", "user"}

Idle == [pc |-> "idle", target |-> None, goal |-> None, candidate |-> None,
         looks |-> 0, observed |-> FALSE, permanent |-> TRUE, spare |-> FALSE]

U == task["updater"]

At(p, pc) == task[p].pc = pc

Goto(p, pc) == task' = [task EXCEPT ![p].pc = pc]

Fault == faults < MaxFaults /\ faults' = faults + 1

Free(l) == lock[l] = None

\* Mutant: the locks outlive the operation.
LeaveLocked(p) == task' = [task EXCEPT ![p] = Idle] /\ UNCHANGED lock

\* A process that returns or dies holds no lock.
Leave(p) ==
  /\ task' = [task EXCEPT ![p] = Idle]
  /\ lock' = [l \in DOMAIN lock |-> IF lock[l] = p THEN None ELSE lock[l]]

-----------------------------------------------------------------------------
(* The store.                                                              *)

\* write_install replaces the file, then synchronises the directory: a write
\* that fails may have been done.
WriteFails(new) == Fault /\ install' \in {install, new}

Leased == {lease[m] : m \in Menus}

\* remove_release, under dispatch.lock.
Removed(version) == {r \in releases : r.version # version \/ r \in Leased}

\* Mutant: cleanup keeps only what is installed.
KeepInstalled(s) == {s.active, s.previous, install.active, install.previous}

\* _cleanup
Keep(s) ==
  {s.active, s.previous, install.active, install.previous} \cup Leased
    \cup (IF install.pending = None THEN {} ELSE {install.pending.from, install.pending.to})

\* select_release falls back to the baseline.
Selected == IF install.active \in releases THEN install.active ELSE Baseline

-----------------------------------------------------------------------------
(* check_for_update up to the journal.                                     *)

Check ==
  /\ At("updater", "idle")
  /\ Free("update")
  /\ lock' = [lock EXCEPT !["update"] = "updater"]
  /\ state' = install
  /\ task' = [task EXCEPT !["updater"] =
       IF install.pending = None THEN [Idle EXCEPT !.pc = "fetching"]
       ELSE [Idle EXCEPT !.pc = "waiting", !.goal = "recovery",
                         !.target = install.pending.from, !.candidate = install.pending.to]]
  /\ UNCHANGED <<install, releases, service, desired, lease, stopped, unhealthy, bounds>>

HighestSeq == IF state.highest = None THEN 0 ELSE state.highest.seq

\* Newer than all that was seen, than what is active (a first release may have
\* the version of the baseline), and not the release that failed.
Accepts(r) ==
  /\ r.seq > HighestSeq \/ r = state.highest
  /\ IF state.active = Baseline THEN r.version >= 0 ELSE r.version > Version(state.active)
  /\ r # state.failed

\* Nothing to fetch, or nothing to do: some of these returns clean up.
NothingToInstall ==
  /\ At("updater", "fetching")
  /\ \/ Goto("updater", "cleaning") /\ UNCHANGED lock
     \/ /\ \E r \in Published : ~Accepts(r)
        /\ Leave("updater")
  /\ UNCHANGED <<files, service, desired, lease, stopped, unhealthy, bounds>>

\* The high-water mark is stored before the archive is fetched.
Fetch ==
  /\ At("updater", "fetching")
  /\ \E r \in Published :
       /\ Accepts(r)
       /\ state' = [state EXCEPT !.highest = r]
       /\ \/ /\ install' = state'
             /\ task' = [task EXCEPT !["updater"].pc = "staging", !["updater"].candidate = r]
             /\ UNCHANGED <<lock, faults>>
          \/ /\ WriteFails(state')
             /\ Leave("updater")
  /\ UNCHANGED <<releases, service, desired, lease, stopped, unhealthy, commands>>

\* No valid archive, or another archive of this version lies there: removed.
StagingFails ==
  /\ At("updater", "staging")
  /\ \/ UNCHANGED releases
     \/ /\ \E r \in releases : r.version = U.candidate.version /\ r # U.candidate
        /\ releases' = Removed(U.candidate.version)
  /\ Leave("updater")
  /\ UNCHANGED <<install, state, service, desired, lease, stopped, unhealthy, bounds>>

Stage ==
  /\ At("updater", "staging")
  /\ \A r \in releases : r.version = U.candidate.version => r = U.candidate
  /\ releases' = releases \cup {U.candidate}
  /\ Goto("updater", "prepared")
  /\ UNCHANGED <<install, state, lock, service, desired, lease, stopped, unhealthy, bounds>>

PrepareFails ==
  /\ At("updater", "prepared")
  /\ releases' = Removed(U.candidate.version)
  /\ Leave("updater")
  /\ UNCHANGED <<install, state, service, desired, lease, stopped, unhealthy, bounds>>

Journaled == [state EXCEPT !.pending = [from |-> state.active, to |-> U.candidate]]

Journal ==
  /\ At("updater", "prepared")
  /\ state' = Journaled
  /\ \/ /\ install' = state'
        /\ task' = [task EXCEPT !["updater"].pc = "waiting", !["updater"].goal = "candidate",
                                !["updater"].target = U.candidate]
        /\ UNCHANGED <<releases, lock, faults>>
     \/ /\ WriteFails(state')
        /\ releases' = Removed(U.candidate.version)
        /\ Leave("updater")
  /\ UNCHANGED <<service, desired, lease, stopped, unhealthy, commands>>

-----------------------------------------------------------------------------
(* The maintenance window.                                                 *)

WindowFree == Free("maintenance")

\* Mutant: the end of a cycle is waited for, but the next one is not held off.
WindowSeen == lock

WindowTaken == [lock EXCEPT !["maintenance"] = "updater"]

TakeWindow ==
  /\ At("updater", "waiting")
  /\ WindowFree
  /\ lock' = WindowTaken
  /\ Goto("updater", "unloading")
  /\ UNCHANGED <<files, service, desired, lease, stopped, unhealthy, bounds>>

\* The updater looks for a minute, and a cycle may hold the window at every look:
\* a recovery stays pending, an update is given up.
WindowBusy ==
  /\ At("updater", "waiting")
  /\ ~WindowFree
  /\ \/ U.goal = "recovery" /\ Leave("updater")
     \/ U.goal = "candidate" /\ Goto("updater", "abandoning") /\ UNCHANGED lock
  /\ UNCHANGED <<files, service, desired, lease, stopped, unhealthy, bounds>>

\* One write of the updater's copy; when it fails the outer handler tries again.
Save(new, pc) ==
  /\ state' = new
  /\ \/ /\ install' = new
        /\ Goto("updater", pc)
        /\ UNCHANGED faults
     \/ WriteFails(new) /\ Goto("updater", "rewriting")

Abandon ==
  /\ At("updater", "abandoning")
  /\ Save([state EXCEPT !.pending = None], "removing")
  /\ UNCHANGED <<releases, lock, service, desired, lease, stopped, unhealthy, commands>>

Rewrite ==
  /\ At("updater", "rewriting")
  /\ (install' = state /\ UNCHANGED faults) \/ WriteFails(state)
  /\ Leave("updater")
  /\ UNCHANGED <<state, releases, service, desired, lease, stopped, unhealthy, commands>>

Remove ==
  /\ At("updater", "removing")
  /\ releases' = Removed(U.candidate.version)
  /\ Leave("updater")
  /\ UNCHANGED <<install, state, service, desired, lease, stopped, unhealthy, bounds>>

-----------------------------------------------------------------------------
(* activate, for the updater and for the user's start.                     *)

\* What stops the service also ends its cycle.
Stops ==
  /\ running' = FALSE
  /\ lock' = [lock EXCEPT !["maintenance"] = IF @ = "service" THEN None ELSE @]

Unload(p) ==
  /\ At(p, "unloading")
  /\ Free("control")
  /\ running' = FALSE
  /\ configured' = task[p].target
  /\ lock' = [lock EXCEPT !["control"] = p,
                          !["maintenance"] = IF @ = "service" THEN None ELSE @]
  /\ Goto(p, "loading")
  /\ UNCHANGED <<files, desired, lease, stopped, unhealthy, bounds>>

\* Mutant: the service is started as it was found.
AsFound == lock["control"] # None

MayRun == desired

Load(p) ==
  /\ At(p, "loading")
  /\ running' = MayRun
  /\ Goto(p, "rechecking")
  /\ UNCHANGED <<files, lock, configured, desired, lease, stopped, unhealthy, bounds>>

\* The command to load takes time: a stop may have been asked for meanwhile.
Recheck(p) ==
  /\ At(p, "rechecking")
  /\ running' = (running /\ MayRun)
  /\ IF p = "user" THEN Leave(p)
     ELSE /\ task' = [task EXCEPT ![p].pc = "observing", ![p].looks = 0]
          /\ lock' = [lock EXCEPT !["control"] = None]
  /\ UNCHANGED <<files, configured, desired, lease, stopped, unhealthy, bounds>>

\* The except clause: the old release is activated, with no further try.
RollBack(permanent, spare) ==
  task' = [task EXCEPT !["updater"] =
             [@ EXCEPT !.pc = "unloading", !.goal = "rollback", !.target = state.pending.from,
                       !.permanent = permanent, !.spare = spare]]

\* A rollback that raises is tried once more if it followed a health check.
AfterFailure ==
  CASE U.goal = "candidate" -> RollBack(TRUE, FALSE)
    [] U.goal = "rollback" /\ U.spare -> RollBack(U.permanent, FALSE)
    [] OTHER -> Goto("updater", "stuck")

ActivationFails(p) ==
  /\ task[p].pc \in {"unloading", "loading", "rechecking"}
  /\ Fault
  /\ running' \in {running, FALSE}
  /\ IF p = "user" THEN Leave(p)
     ELSE /\ AfterFailure
          /\ lock' = [lock EXCEPT !["control"] = IF @ = p THEN None ELSE @]
  /\ UNCHANGED <<files, configured, desired, lease, stopped, unhealthy, commands>>

-----------------------------------------------------------------------------
(* healthy and what follows from it.                                       *)

Observe ==
  /\ At("updater", "observing")
  /\ task' = [task EXCEPT !["updater"].pc = "judging", !["updater"].observed = running,
                          !["updater"].looks = @ + 1]
  /\ UNCHANGED <<files, lock, service, desired, lease, stopped, unhealthy, bounds>>

\* The service is in the state that is wanted when the observation is judged.
Healthy == IF desired THEN U.observed /\ U.target \notin Broken ELSE ~U.observed

\* Mutant: a candidate that fails is noted, and not switched back from.
AfterHealthyNoted(ok) ==
  CASE U.goal = "candidate" /\ ok -> Goto("updater", "committing")
    [] U.goal = "recovery" /\ ok -> Goto("updater", "recovered")
    [] OTHER -> Goto("updater", "rolledback")

AfterHealthy(ok) ==
  CASE U.goal = "candidate" /\ ok -> Goto("updater", "committing")
    [] U.goal = "candidate" /\ ~ok -> RollBack(TRUE, TRUE)
    [] U.goal = "rollback" /\ ok -> Goto("updater", "rolledback")
    [] U.goal = "recovery" /\ ok -> Goto("updater", "recovered")
    [] OTHER -> Goto("updater", "stuck")

\* The time limit around the health check.
HealthTimesOut ==
  /\ U.pc \in {"observing", "judging"}
  /\ Fault
  /\ AfterFailure
  /\ UNCHANGED <<files, lock, service, desired, lease, stopped, unhealthy, commands>>

Judge ==
  /\ At("updater", "judging")
  /\ \/ /\ Healthy \/ ~desired \/ U.looks = MaxLooks
        /\ AfterHealthy(Healthy)
        /\ unhealthy' = IF Healthy \/ U.goal # "candidate" THEN unhealthy
                                                          ELSE unhealthy \cup {U.target}
     \/ /\ ~Healthy /\ desired /\ U.looks < MaxLooks
        /\ Goto("updater", "observing")
        /\ UNCHANGED unhealthy
  /\ UNCHANGED <<files, lock, service, desired, lease, stopped, bounds>>

CloseWindow == lock' = [lock EXCEPT !["maintenance"] = None]

Committed ==
  [state EXCEPT !.active = U.candidate, !.previous = state.active, !.pending = None,
                !.failed = None]

Commit ==
  /\ At("updater", "committing")
  /\ \/ /\ install' = Committed /\ state' = Committed
        /\ Goto("updater", "cleaning")
        /\ CloseWindow
        /\ UNCHANGED faults
     \/ /\ WriteFails(Committed)
        /\ RollBack(FALSE, FALSE)
        /\ UNCHANGED <<state, lock>>
  /\ UNCHANGED <<releases, service, desired, lease, stopped, unhealthy, commands>>

\* Mutant: the failed release is not remembered after a restart.
RestoredUnmarked(mark) ==
  [state EXCEPT !.pending = None, !.failed = IF mark THEN @ ELSE None]

Restored(mark) ==
  [state EXCEPT !.pending = None, !.failed = IF mark THEN state.pending.to ELSE @]

\* When this write fails the journal stays for the next check.
RolledBack ==
  /\ At("updater", "rolledback")
  /\ \/ /\ state' = Restored(U.permanent) /\ install' = state'
        /\ Goto("updater", "cleaning")
        /\ CloseWindow
        /\ UNCHANGED faults
     \/ /\ WriteFails(Restored(U.permanent))
        /\ Leave("updater")
        /\ UNCHANGED state
  /\ UNCHANGED <<releases, service, desired, lease, stopped, unhealthy, commands>>

Recovered ==
  /\ At("updater", "recovered")
  /\ Save(Restored(TRUE), "cleaning")
  /\ CloseWindow
  /\ UNCHANGED <<releases, service, desired, lease, stopped, unhealthy, commands>>

\* The old release does not come up either: the journal stays.
Stuck ==
  /\ At("updater", "stuck")
  /\ (install' = state /\ UNCHANGED faults) \/ WriteFails(state)
  /\ Leave("updater")
  /\ UNCHANGED <<state, releases, service, desired, lease, stopped, unhealthy, commands>>

Clean ==
  /\ At("updater", "cleaning")
  /\ releases' \in {releases \cap Keep(state), releases}
  /\ Leave("updater")
  /\ UNCHANGED <<install, state, service, desired, lease, stopped, unhealthy, bounds>>

\* cleanup_updates
CleanUp ==
  /\ Free("update") /\ install.pending = None
  /\ releases' = releases \cap Keep(install)
  /\ releases' # releases
  /\ UNCHANGED <<install, state, lock, task, service, desired, lease, stopped, unhealthy, bounds>>

-----------------------------------------------------------------------------
(* The user's commands, the service's cycles and the menus.                *)

Command(wanted, pc) ==
  /\ At("user", "idle")
  /\ commands < MaxCommands
  /\ commands' = commands + 1
  /\ desired' = wanted /\ stopped' = FALSE
  /\ Goto("user", pc)
  /\ UNCHANGED <<files, lock, service, lease, unhealthy, faults>>

AskStart == Command(TRUE, "starting")

AskStop == Command(FALSE, "stopping")

TakeUpdateLock ==
  /\ At("user", "starting") /\ Free("update")
  /\ lock' = [lock EXCEPT !["update"] = "user"]
  /\ Goto("user", "selecting")
  /\ UNCHANGED <<files, service, desired, lease, stopped, unhealthy, bounds>>

\* The release is selected after a concurrent transaction has committed.
Select ==
  /\ At("user", "selecting") /\ Free("maintenance")
  /\ lock' = [lock EXCEPT !["maintenance"] = "user"]
  /\ task' = [task EXCEPT !["user"].pc = "unloading", !["user"].target = Selected]
  /\ UNCHANGED <<files, service, desired, lease, stopped, unhealthy, bounds>>

\* A lock was not to be had in time.
StartGivesUp ==
  /\ \/ At("user", "starting") /\ ~Free("update")
     \/ At("user", "selecting") /\ ~Free("maintenance")
  /\ Leave("user")
  /\ UNCHANGED <<files, service, desired, lease, stopped, unhealthy, bounds>>

\* stop_live, under the control lock.
Stop ==
  /\ At("user", "stopping") /\ Free("control")
  /\ Stops
  /\ stopped' = TRUE
  /\ task' = [task EXCEPT !["user"] = Idle]
  /\ UNCHANGED <<files, configured, desired, lease, unhealthy, bounds>>

BeginCycle ==
  /\ running /\ Free("maintenance")
  /\ lock' = [lock EXCEPT !["maintenance"] = "service"]
  /\ UNCHANGED <<files, task, service, desired, lease, stopped, unhealthy, bounds>>

EndCycle ==
  /\ lock["maintenance"] = "service"
  /\ CloseWindow
  /\ UNCHANGED <<files, task, service, desired, lease, stopped, unhealthy, bounds>>

\* launch_menu selects and registers under dispatch.lock.
OpenMenu(m) ==
  /\ lease[m] = None
  /\ lease' = [lease EXCEPT ![m] = Selected]
  /\ UNCHANGED <<files, lock, task, service, desired, stopped, unhealthy, bounds>>

CloseMenu(m) ==
  /\ lease[m] # None
  /\ lease' = [lease EXCEPT ![m] = None]
  /\ UNCHANGED <<files, lock, task, service, desired, stopped, unhealthy, bounds>>

\* A process dies or is cancelled; the kernel frees its locks.
Crash(p) ==
  /\ ~At(p, "idle")
  /\ Fault
  /\ Leave(p)
  /\ UNCHANGED <<files, service, desired, lease, stopped, unhealthy, commands>>

-----------------------------------------------------------------------------

Init ==
  /\ install = [active |-> Baseline, previous |-> Baseline, pending |-> None,
                failed |-> None, highest |-> None]
  /\ state = install
  /\ releases = {}
  /\ lock = [l \in {"update", "maintenance", "control"} |-> None]
  /\ task = [p \in Workers |-> Idle]
  /\ configured = Baseline /\ running = TRUE /\ desired = TRUE
  /\ lease = [m \in Menus |-> None]
  /\ stopped = FALSE /\ unhealthy = {}
  /\ commands = 0 /\ faults = 0

Activating(p) == Unload(p) \/ Load(p) \/ Recheck(p)

Updating ==
  \/ Check \/ NothingToInstall \/ Fetch \/ StagingFails \/ Stage \/ PrepareFails \/ Journal
  \/ TakeWindow \/ Abandon \/ Rewrite \/ Remove
  \/ Activating("updater")
  \/ Observe \/ Judge \/ Commit \/ RolledBack \/ Recovered \/ Stuck \/ Clean

Commanding ==
  TakeUpdateLock \/ Select \/ StartGivesUp \/ Activating("user") \/ Stop

Next ==
  \/ Updating \/ WindowBusy \/ HealthTimesOut \/ CleanUp
  \/ AskStart \/ AskStop \/ Commanding
  \/ BeginCycle \/ EndCycle
  \/ \E m \in Menus : OpenMenu(m) \/ CloseMenu(m)
  \/ \E p \in Workers : ActivationFails(p) \/ Crash(p)

Spec == Init /\ [][Next]_vars

\* The scheduler starts a check every hour, and each check goes on: its wait for the
\* window ends after a minute, one way or the other.  The user's command goes on too.
\* Nothing is assumed of the cycles: they may hold the window whenever it is tried.
FairSpec == Spec /\ WF_vars(Updating \/ WindowBusy) /\ WF_vars(Commanding)

-----------------------------------------------------------------------------
(* Properties.                                                             *)

OnDisk(r) == r = Baseline \/ r \in releases

\* What the service is registered to run, what is installed, and what a recovery
\* or an open menu goes back to are never removed from the disk, whatever fails
\* or dies between the journal, the switch, the commit and the cleanup.
InUseStaysOnDisk ==
  /\ OnDisk(configured) /\ OnDisk(install.active) /\ OnDisk(install.previous)
  /\ install.pending # None => OnDisk(install.pending.from)
  /\ \A m \in Menus : lease[m] # None => OnDisk(lease[m])

\* With at most one fault, whenever nobody is at work and no recovery is due,
\* the service is registered to run the release that install.json calls active.
\* (A second fault may strike while a commit that was written but reported as
\* failed is being undone.)
RunsWhatIsInstalled ==
  /\ faults <= 1
  /\ install.pending = None
  /\ At("updater", "idle") /\ task["user"].pc \notin {"unloading", "loading", "rechecking"}
  => configured = install.active

\* A release that failed its health check is never switched to again, even if
\* the updater died, or could not write, before it noted the failure.
UnhealthyNotRetried ==
  At("updater", "unloading") /\ U.goal = "candidate" => U.target \notin unhealthy

\* After a stop command has completed, the service is not loaded again before
\* the next start, also if an update is under way that found it running.
StopIsFinal == stopped => ~running

\* An update never cuts a cycle short: while a cycle holds the window the
\* service goes down only because the user asked for it.
CyclesAreNotCutShort ==
  [][lock["maintenance"] = "service" /\ running /\ ~running' => ~desired]_vars

\* An interrupted update is resolved in the end: the journal is cleared once the
\* faults and the user's commands are over, unless the release that it leads
\* back to does not run either (it was installed while the service was stopped),
\* or check after check gives up on a window that a cycle holds.
RecoveryEnds ==
  \/ []<><<WindowBusy>>_vars
  \/ (/\ faults = MaxFaults /\ commands = MaxCommands
      /\ install.pending # None => install.pending.from \notin Broken)
       ~> install.pending = None

\* Only a release that does not run here is refused from then on as one that
\* "previously failed local activation": a stop during the health check is
\* respected and does not count against the release.
StopDoesNotCondemn == install.failed \in Broken \cup {None}

=============================================================================
