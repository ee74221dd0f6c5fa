------------------------- MODULE WindowsSupervisor -------------------------
(***************************************************************************)
(* The native Windows supervisor: consoles that start and stop it          *)
(* (windows_control.py, windows_app.py), the wish of the user on disk      *)
(* (windows_autostart.py), supervisor processes that may come up late, and *)
(* the worker that each of them owns through a job object                  *)
(* (windows_worker.py, windows_job.py), with updates and killed processes. *)
(*                                                                         *)
(* A supervisor is its instance number, a nonce in the code: a record      *)
(* names a process that exited, and no later one, even with its pid.       *)
(***************************************************************************)
EXTENDS Naturals, FiniteSets

CONSTANTS
  Consoles,    \* menus and logon shortcuts
  MaxStarts,   \* bound of the model on the supervisors ever launched
  MaxUpdates,  \* bound of the model on update transactions
  MaxFaults,   \* bound of the model on processes that die by themselves
  None

ASSUME SupervisorAssumption ==
  /\ {MaxStarts, MaxUpdates, MaxFaults} \subseteq Nat
  /\ None \notin Nat \cup BOOLEAN \cup Consoles

VARIABLES
  console,   \* what each console does
  startLock, \* who holds start.lock
  desired,   \* desired-running.json
  pending,   \* pending-supervisor.json
  stopFile,  \* supervisor-stop.json
  record,    \* supervisor.json: the instance in it
  sup,       \* the supervisor processes, each with its worker
  lock,      \* who holds supervisor.lock
  launched,  \* the supervisors reserved so far
  updates,   \* the update transactions begun so far
  faults,    \* the processes that died so far
  quiet      \* history: a stop said "stopped", as did its state, and nobody
             \* asked for a start since

commandVars == <<console, startLock, desired, pending, launched, quiet>>
processVars == <<record, sup, lock, updates, faults>>
vars == <<commandVars, stopFile, processVars>>

Instances == 1 .. MaxStarts

\* pc of a supervisor: "spawned" is created and has not run yet, "starting"
\* waits for its first worker.  update is the await of its update task, and
\* running what that task found of the worker.  A worker waits at its gate, loads
\* its settings, and is ready.
Unborn == [pc |-> "none", worker |-> "none", update |-> "off", running |-> TRUE, stop |-> FALSE]

Idle == [pc |-> "idle", kind |-> None, inst |-> None, alive |-> FALSE]

\* An installation without autostart may be stopped, or running.
Init ==
  /\ console = [c \in Consoles |-> Idle]
  /\ startLock = None
  /\ desired = None /\ pending = None /\ stopFile = None
  /\ lock \in {None} \cup (Instances \cap {1})
  /\ record = lock
  /\ sup = [i \in Instances |->
              IF i = lock THEN [Unborn EXCEPT !.pc = "loop", !.worker = "ready"] ELSE Unborn]
  /\ launched = IF lock = None THEN 0 ELSE 1
  /\ updates = 0 /\ faults = 0
  /\ quiet = FALSE

Exists(i) == sup[i].pc \notin {"none", "exited"}

\* status: "running" and "starting" together; a record of a process that is
\* gone is "stopped", also when another process has its pid.
Alive == record # None /\ Exists(record)

\* Past its gate a worker loads the settings, measures and reports.
Working(i) == sup[i].worker \in {"loading", "ready"}

-----------------------------------------------------------------------------
(* A console: start and stop.                                              *)

At(c, pc) == console[c].pc = pc

To(c, pc) == console' = [console EXCEPT ![c].pc = pc]

Return(c) ==
  /\ console' = [console EXCEPT ![c] = Idle]
  /\ startLock' = IF startLock = c THEN None ELSE startLock

\* The menu starts, the logon shortcut resumes what is desired, or adopts what
\* runs without a recorded wish.  start.lock is tried, not waited for.
Start(c, kind) ==
  /\ At(c, "idle") /\ startLock = None
  /\ kind = "resume" => desired = TRUE
  /\ kind = "adopt" => desired = None /\ Alive
  /\ startLock' = c
  /\ console' = [console EXCEPT ![c] = [pc |-> "asked", kind |-> kind, inst |-> None, alive |-> Alive]]
  /\ UNCHANGED <<desired, pending, launched, quiet, stopFile, processVars>>

\* remember(True): always for a start, if nothing is recorded for an adoption.
Remember(c) ==
  /\ At(c, "asked")
  /\ desired' = IF console[c].kind = "start" \/ (console[c].kind = "adopt" /\ desired = None)
                THEN TRUE ELSE desired
  /\ quiet' = (quiet /\ desired' # TRUE)
  /\ IF console[c].alive \/ desired' # TRUE THEN Return(c) ELSE To(c, "reserving") /\ UNCHANGED startLock
  /\ UNCHANGED <<pending, launched, stopFile, processVars>>

\* reserve_start: from here on Stop can address the supervisor.
ReserveStart(c) ==
  /\ At(c, "reserving")
  /\ \/ /\ desired = TRUE /\ launched < MaxStarts
        /\ launched' = launched + 1
        /\ pending' = launched'
        /\ console' = [console EXCEPT ![c].pc = "spawning", ![c].inst = launched']
        /\ UNCHANGED startLock
     \/ /\ desired # TRUE \/ launched = MaxStarts
        /\ Return(c)
        /\ UNCHANGED <<pending, launched>>
  /\ UNCHANGED <<desired, quiet, stopFile, processVars>>

Spawn(c) ==
  /\ At(c, "spawning")
  /\ sup' = [sup EXCEPT ![console[c].inst].pc = "spawned"]
  /\ To(c, "polling")
  /\ UNCHANGED <<startLock, desired, pending, launched, quiet, stopFile, record, lock, updates, faults>>

\* The wait ends: a stop came in between, or the supervisor is ready, gone or
\* late.
Poll(c) ==
  /\ At(c, "polling")
  /\ Return(c)
  /\ IF record = console[c].inst /\ desired # TRUE
     THEN stopFile' = console[c].inst ELSE UNCHANGED stopFile
  /\ UNCHANGED <<desired, pending, launched, quiet, processVars>>

\* remember(False), which addresses a supervisor not published yet.
Stop(c) ==
  /\ At(c, "idle")
  /\ desired' = FALSE
  /\ stopFile' = IF pending # None THEN pending ELSE stopFile
  /\ console' = [console EXCEPT ![c] = [Idle EXCEPT !.pc = "looking", !.kind = "stop"]]
  /\ UNCHANGED <<startLock, pending, launched, quiet, processVars>>

\* "stopped", with the state that status finds by then.
SaysStopped(c) == Return(c) /\ quiet' = (desired = FALSE /\ ~Alive)

LookForSupervisor(c) ==
  /\ At(c, "looking")
  /\ IF Alive THEN To(c, "telling") /\ UNCHANGED <<startLock, quiet>> ELSE SaysStopped(c)
  /\ UNCHANGED <<desired, pending, launched, stopFile, processVars>>

\* Mutant: the stop is addressed to the supervisor reserved last.
Reserved == IF pending # None THEN pending ELSE record

\* The instance that stop() writes to supervisor-stop.json.
Recorded == record

TellToStop(c) ==
  /\ At(c, "telling")
  /\ IF Alive
     THEN /\ stopFile' = Recorded
          /\ console' = [console EXCEPT ![c].pc = "waiting", ![c].inst = record]
          /\ UNCHANGED startLock
     ELSE Return(c) /\ UNCHANGED stopFile
  /\ UNCHANGED <<desired, pending, launched, quiet, processVars>>

\* A supervisor that finishes an update is never killed: "stopping".
WaitForStop(c) ==
  /\ At(c, "waiting")
  /\ \/ ~Exists(console[c].inst) /\ SaysStopped(c)
     \/ Exists(console[c].inst) /\ Return(c) /\ UNCHANGED quiet
  /\ UNCHANGED <<desired, pending, launched, stopFile, processVars>>

\* request_update while nothing runs updates under start.lock; a supervisor that
\* runs is asked to (BeginUpdate).
UpdateStopped(c) ==
  /\ At(c, "idle") /\ startLock = None /\ ~Alive
  /\ startLock' = c
  /\ To(c, "updating")
  /\ UNCHANGED <<desired, pending, launched, quiet, stopFile, processVars>>

Updated(c) ==
  /\ At(c, "updating")
  /\ Return(c)
  /\ UNCHANGED <<desired, pending, launched, quiet, stopFile, processVars>>

-----------------------------------------------------------------------------
(* A supervisor.                                                           *)

Becomes(i, r) ==
  /\ sup' = [sup EXCEPT ![i] = r]
  /\ UNCHANGED <<commandVars, stopFile, faults>>

Same == UNCHANGED <<record, lock, updates>>

\* Mutant: supervisor.lock is not taken.
Unlocked == TRUE

LockFree == lock = None

\* run takes the lock or fails, and publishes its record before anything else.
Wake(i) ==
  /\ sup[i].pc = "spawned"
  /\ IF LockFree
     THEN /\ lock' = i /\ record' = i
          /\ Becomes(i, [sup[i] EXCEPT !.pc = "waking"])
     ELSE Becomes(i, [sup[i] EXCEPT !.pc = "exited"]) /\ UNCHANGED <<record, lock>>
  /\ UNCHANGED updates

\* _start_worker: in a job that dies with the supervisor, and behind a gate.
LaunchFirst(i) ==
  /\ sup[i].pc = "waking"
  /\ Becomes(i, [sup[i] EXCEPT !.pc = "starting", !.worker = "gate"])
  /\ Same

FirstReady(i) ==
  /\ sup[i].pc = "starting" /\ sup[i].worker = "ready"
  /\ Becomes(i, [sup[i] EXCEPT !.pc = "loop"])
  /\ Same

\* The finally of run: the worker is stopped, and the lock is free.
Exits(i) ==
  /\ Becomes(i, [Unborn EXCEPT !.pc = "exited"])
  /\ lock' = None
  /\ UNCHANGED <<record, updates>>

\* The first worker died or is late.
StartFails(i) ==
  /\ sup[i].pc = "starting" /\ sup[i].worker # "ready"
  /\ Exits(i)

WorkerGone(i) ==
  /\ sup[i].pc = "loop" /\ sup[i].update = "off" /\ sup[i].worker \in {"none", "exited"}
  /\ Exits(i)

ReadStop(i) ==
  /\ sup[i].pc = "loop" /\ stopFile = i
  /\ Becomes(i, [sup[i] EXCEPT !.pc = "stopping", !.stop = TRUE])
  /\ Same

\* activate_release holds _worker_lock until its worker is ready.
LockHeld(i) == sup[i].update \in {"swapping", "reverting"}

StopWorker(i) ==
  /\ sup[i].pc = "stopping" /\ ~LockHeld(i) /\ sup[i].worker # "none"
  /\ Becomes(i, [sup[i] EXCEPT !.worker = "none"])
  /\ Same

\* The signed transaction is completed first.
Stopped(i) ==
  /\ sup[i].pc = "stopping" /\ sup[i].worker = "none" /\ sup[i].update = "off"
  /\ Exits(i)

-----------------------------------------------------------------------------
(* The update task of a supervisor: the steps of WindowsUpdateAdapter.     *)

BeginUpdate(i) ==
  /\ sup[i].pc = "loop" /\ sup[i].update = "off" /\ sup[i].worker \notin {"none", "exited"}
  /\ updates < MaxUpdates
  /\ updates' = updates + 1
  /\ Becomes(i, [sup[i] EXCEPT !.update = "preparing"])
  /\ UNCHANGED <<record, lock>>

\* Nothing new, or the release could not be prepared.
NothingToInstall(i) ==
  /\ sup[i].update = "preparing"
  /\ Becomes(i, [sup[i] EXCEPT !.update = "off"])
  /\ Same

\* Is the worker running?  The transaction asks once, and journals the answer.
LookAtWorker(i) ==
  /\ sup[i].update = "preparing"
  /\ Becomes(i, [sup[i] EXCEPT !.update = "prepared",
                               !.running = sup[i].worker \notin {"none", "exited"}])
  /\ Same

MayStart(i) == sup[i].running /\ ~sup[i].stop

\* activate_release, of the new release and of the old one again: the worker is
\* stopped, and another one is started if one was running and no stop was read.
Activate(i, from, waits, next) ==
  /\ sup[i].update = from
  /\ Becomes(i, IF MayStart(i) THEN [sup[i] EXCEPT !.worker = "gate", !.update = waits]
                               ELSE [sup[i] EXCEPT !.worker = "none", !.update = next])
  /\ Same

\* The wait of _start_worker: ready, or a stop was read, or no worker.
Activated(i, waits, next, failed) ==
  /\ sup[i].update = waits
  /\ \/ sup[i].worker = "ready" /\ ~sup[i].stop /\ Becomes(i, [sup[i] EXCEPT !.update = next])
     \/ sup[i].stop /\ Becomes(i, [sup[i] EXCEPT !.worker = "none", !.update = next])
     \/ /\ ~sup[i].stop /\ sup[i].worker # "ready"
        /\ Becomes(i, [sup[i] EXCEPT !.worker = "none", !.update = failed])
  /\ Same

\* healthy_release: where nothing should run, a release is healthy when nothing does.
CheckHealth(i) ==
  /\ sup[i].update = "checking"
  /\ Becomes(i, [sup[i] EXCEPT !.update =
       IF (IF MayStart(i) THEN sup[i].worker = "ready" ELSE sup[i].worker \in {"none", "exited"})
       THEN "off" ELSE "restoring"])
  /\ Same

UpdateStep(i) ==
  \/ NothingToInstall(i) \/ LookAtWorker(i)
  \/ Activate(i, "prepared", "swapping", "checking")
  \/ Activated(i, "swapping", "checking", "restoring")
  \/ CheckHealth(i)
  \/ Activate(i, "restoring", "reverting", "off")
  \/ Activated(i, "reverting", "off", "off")

-----------------------------------------------------------------------------
(* A worker, and processes that die.                                       *)

\* Mutant: the worker only looks for a stop of its own supervisor.
StopOfItsOwn(i) == stopFile # i

\* run_worker looks for a stop of its supervisor and for the wish of the user.
MayWork(i) == stopFile # i /\ desired # FALSE

PassGate(i) ==
  /\ sup[i].worker = "gate" /\ record = i
  /\ Becomes(i, [sup[i] EXCEPT !.worker = IF MayWork(i) THEN "loading" ELSE "exited"])
  /\ Same

\* Settings that cannot be loaded end it.
Load(i) ==
  /\ sup[i].worker = "loading"
  /\ \/ Becomes(i, [sup[i] EXCEPT !.worker = "ready"])
     \/ Becomes(i, [sup[i] EXCEPT !.worker = "exited"])
  /\ Same

WorkerDies(i) ==
  /\ sup[i].worker \in {"gate", "loading", "ready"} /\ faults < MaxFaults
  /\ sup' = [sup EXCEPT ![i].worker = "exited"]
  /\ faults' = faults + 1
  /\ UNCHANGED <<commandVars, stopFile, record, lock, updates>>

\* The kernel closes the job with its last handle: the worker tree goes too.
SupervisorDies(i) ==
  /\ Exists(i) /\ faults < MaxFaults
  /\ sup' = [sup EXCEPT ![i] = [Unborn EXCEPT !.pc = "exited"]]
  /\ lock' = IF lock = i THEN None ELSE lock
  /\ faults' = faults + 1
  /\ UNCHANGED <<commandVars, stopFile, record, updates>>

-----------------------------------------------------------------------------

\* The awaits of a command end by themselves.
Commanded(c) ==
  \/ Remember(c) \/ ReserveStart(c) \/ Spawn(c) \/ Poll(c)
  \/ LookForSupervisor(c) \/ TellToStop(c) \/ WaitForStop(c) \/ Updated(c)

SupervisorStep(i) ==
  \/ Wake(i) \/ LaunchFirst(i) \/ FirstReady(i) \/ StartFails(i) \/ WorkerGone(i)
  \/ StopWorker(i) \/ Stopped(i)

WorkerStep(i) == PassGate(i) \/ Load(i)

Next ==
  \/ \E c \in Consoles :
       \/ Commanded(c) \/ Stop(c) \/ UpdateStopped(c)
       \/ \E kind \in {"start", "resume", "adopt"} : Start(c, kind)
  \/ \E i \in Instances :
       \/ SupervisorStep(i) \/ ReadStop(i) \/ BeginUpdate(i) \/ UpdateStep(i)
       \/ WorkerStep(i) \/ WorkerDies(i) \/ SupervisorDies(i)

Spec == Init /\ [][Next]_vars

\* Processes run and every wait of the code is bounded; users do as they like.
\* A stop leaves its file for up to 30 s, and a supervisor looks every 0.2 s:
\* it does not miss it again and again between stops of other supervisors.
FairSpec ==
  /\ Spec
  /\ \A c \in Consoles : WF_vars(Commanded(c))
  /\ \A i \in Instances :
       /\ WF_vars(SupervisorStep(i)) /\ WF_vars(UpdateStep(i)) /\ WF_vars(WorkerStep(i))
       /\ SF_vars(ReadStop(i))

-----------------------------------------------------------------------------
(* Properties.                                                             *)

\* Never two workers measure for one installation, with however many
\* supervisors that were launched late or twice, and updates in between.
OneWorker == Cardinality({i \in Instances : Working(i)}) <= 1

\* When status says "stopped", on nothing but a record on disk, no worker is
\* past its gate: settings may be changed and an update may replace files.
StoppedMeansStopped == ~Alive => \A i \in Instances : ~Working(i)

\* What a stop found stopped stays stopped until somebody asks for a start,
\* although supervisors launched before may only come up now.
StopIsKept == quiet => \A i \in Instances : ~Working(i)

\* A recorded wish to stop ends every supervisor, unless a start follows: the
\* one stop file is enough for all of them.
StopTakesEffect == desired = FALSE ~> (desired = TRUE \/ \A i \in Instances : ~Exists(i))

=============================================================================
