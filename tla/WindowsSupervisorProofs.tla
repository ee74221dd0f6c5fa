---------------------- MODULE WindowsSupervisorProofs ----------------------
(***************************************************************************)
(* Theorems about the Windows supervisor, for any number of consoles,      *)
(* launches, updates and deaths: one worker at a time, and a stop that is  *)
(* kept.                                                                   *)
(***************************************************************************)
EXTENDS WindowsSupervisor, FiniteSetTheorems, TLAPS

\* A supervisor between the taking of supervisor.lock and its exit.
Running == {"waking", "starting", "loop", "stopping"}

Supervisor ==
  [pc : {"none", "spawned", "exited"} \cup Running,
   worker : {"none", "gate", "loading", "ready", "exited"},
   update : {"off", "preparing", "prepared", "swapping", "checking", "restoring", "reverting"},
   running : BOOLEAN,
   stop : BOOLEAN]

Console ==
  [pc : {"idle", "asked", "reserving", "spawning", "polling", "looking", "telling",
         "waiting", "updating"},
   kind : {None, "start", "resume", "adopt", "stop"},
   inst : Instances \cup {None},
   alive : BOOLEAN]

ProcessTypeOK ==
  /\ sup \in [Instances -> Supervisor]
  /\ lock \in Instances \cup {None}
  /\ record \in Instances \cup {None}

\* supervisor.lock is held by the one supervisor that runs, and only that one
\* has a worker or an update.
LockOwns ==
  \A i \in Instances :
    /\ sup[i].pc \in Running <=> lock = i
    /\ sup[i].worker # "none" \/ sup[i].update # "off" => lock = i

\* Whoever holds the lock has published its record.
RecordFollows == lock # None => record = lock

ProcessInv == ProcessTypeOK /\ LockOwns /\ RecordFollows

\* A start between start.lock and the launch has an instance of its own.
FreshLaunch ==
  /\ console \in [Consoles -> Console]
  /\ launched \in 0 .. MaxStarts
  /\ \A c \in Consoles :
       console[c].pc \in {"asked", "reserving", "spawning", "polling", "updating"} => startLock = c
  /\ \A i \in Instances : i > launched => sup[i].pc = "none"
  /\ \A c \in Consoles : console[c].pc = "spawning" =>
       console[c].inst = launched /\ launched \in Instances /\ sup[launched].pc = "none"

QuietInv ==
  /\ quiet \in BOOLEAN
  /\ quiet => desired = FALSE /\ \A i \in Instances : ~Working(i)

IInv == ProcessInv /\ FreshLaunch /\ QuietInv

-----------------------------------------------------------------------------
(* The shapes of a step.                                                   *)

\* A supervisor that changes and adds no work after a stop keeps what concerns
\* the consoles.
LEMMA SupervisorMoves ==
  ASSUME IInv, ProcessInv', NEW i \in Instances, NEW r \in Supervisor,
         sup' = [sup EXCEPT ![i] = r], UNCHANGED commandVars, sup[i].pc # "none",
         r.worker \in {"loading", "ready"} => Working(i) \/ desired # FALSE
  PROVE  IInv'
<1> USE DEF IInv, commandVars
<1>1. \A j \in Instances : sup[j].pc = "none" => sup'[j].pc = "none"
  BY DEF ProcessInv, ProcessTypeOK
<1>2. FreshLaunch'
  BY <1>1 DEF FreshLaunch
<1>3. QuietInv'
  <2>1. ASSUME quiet
        PROVE  \A j \in Instances : ~Working(j)'
    BY <2>1 DEF QuietInv, Working, ProcessInv, ProcessTypeOK
  <2> QED BY <2>1 DEF QuietInv
<1> QED BY <1>2, <1>3

\* The supervisor that holds the lock changes, and keeps running.
LEMMA Runs ==
  ASSUME IInv, NEW i \in Instances, NEW r \in Supervisor,
         sup' = [sup EXCEPT ![i] = r], UNCHANGED <<commandVars, lock, record>>,
         lock = i, r.pc \in Running,
         r.worker \in {"loading", "ready"} => Working(i) \/ desired # FALSE
  PROVE  IInv'
<1>1. ProcessTypeOK'
  BY DEF IInv, ProcessInv, ProcessTypeOK
<1>2. LockOwns'
  BY DEF IInv, ProcessInv, ProcessTypeOK, LockOwns
<1>3. RecordFollows'
  BY DEF IInv, ProcessInv, RecordFollows
<1>4. sup[i].pc # "none"
  BY DEF IInv, ProcessInv, LockOwns, Running
<1> QED BY <1>1, <1>2, <1>3, <1>4, SupervisorMoves DEF ProcessInv

\* A supervisor exits, and leaves the lock if it held it.
LEMMA Ends ==
  ASSUME IInv, NEW i \in Instances, Exists(i),
         sup' = [sup EXCEPT ![i] = [Unborn EXCEPT !.pc = "exited"]],
         lock' = IF lock = i THEN None ELSE lock, UNCHANGED <<commandVars, record>>
  PROVE  IInv'
<1> DEFINE gone == [Unborn EXCEPT !.pc = "exited"]
<1>1. gone \in Supervisor /\ gone.pc = "exited" /\ gone.worker = "none" /\ gone.update = "off"
  BY DEF Unborn, Supervisor
<1> HIDE DEF gone
<1>2. sup' = [sup EXCEPT ![i] = gone]
  BY DEF gone
<1>3. ProcessTypeOK'
  BY <1>1, <1>2 DEF IInv, ProcessInv, ProcessTypeOK
<1>4. None \notin Instances
  BY SupervisorAssumption DEF Instances
<1>5. LockOwns'
  BY <1>1, <1>2, <1>4 DEF IInv, ProcessInv, ProcessTypeOK, LockOwns, Running
<1>6. RecordFollows'
  BY DEF IInv, ProcessInv, RecordFollows
<1>7. sup[i].pc # "none"
  BY DEF Exists
<1> QED BY <1>1, <1>2, <1>3, <1>5, <1>6, <1>7, SupervisorMoves DEF ProcessInv

-----------------------------------------------------------------------------
(* The steps of a supervisor, its update and its worker.                   *)

\* Every step of the supervisor process itself.
LEMMA SupervisorKeeps ==
  ASSUME IInv, NEW i \in Instances, SupervisorStep(i) \/ ReadStop(i) \/ SupervisorDies(i)
  PROVE  IInv'
<1> USE DEF Becomes, Same
<1>0. sup[i] \in Supervisor /\ (sup[i].pc \in Running => lock = i)
  BY DEF IInv, ProcessInv, ProcessTypeOK, LockOwns
<1>1. CASE Wake(i)
  <2>1. CASE LockFree
    <3> DEFINE r == [sup[i] EXCEPT !.pc = "waking"]
    <3>1. r \in Supervisor /\ r.pc = "waking" /\ r.worker = sup[i].worker /\ r.update = sup[i].update
      BY <1>0 DEF Supervisor, Running
    <3> HIDE DEF r
    <3>2. sup' = [sup EXCEPT ![i] = r] /\ lock' = i /\ record' = i
      BY <1>1, <2>1 DEF Wake, r
    <3>3. None \notin Instances
      BY SupervisorAssumption DEF Instances
    <3>4. ProcessInv'
      BY <3>1, <3>2, <3>3, <2>1
         DEF IInv, ProcessInv, ProcessTypeOK, LockOwns, RecordFollows, LockFree, Running
    <3>5. sup[i].pc # "none" /\ UNCHANGED commandVars
      BY <1>1 DEF Wake
    <3> QED BY <3>1, <3>2, <3>4, <3>5, SupervisorMoves DEF Working
  <2>2. CASE ~LockFree
    <3>1. sup[i].pc = "spawned" /\ lock # i
      BY <1>1 DEF Wake, IInv, ProcessInv, LockOwns, Running
    <3>2. sup[i].worker = "none" /\ sup[i].update = "off"
      BY <3>1 DEF IInv, ProcessInv, LockOwns
    <3> DEFINE r == [sup[i] EXCEPT !.pc = "exited"]
    <3>3. r \in Supervisor /\ r.pc = "exited" /\ r.worker = "none" /\ r.update = "off"
      BY <1>0, <3>2 DEF Supervisor, Running
    <3> HIDE DEF r
    <3>4. sup' = [sup EXCEPT ![i] = r] /\ UNCHANGED <<commandVars, lock, record>>
      BY <1>1, <2>2 DEF Wake, r
    <3>5. ProcessInv'
      BY <3>1, <3>3, <3>4
         DEF IInv, ProcessInv, ProcessTypeOK, LockOwns, RecordFollows, Running
    <3> QED BY <3>1, <3>3, <3>4, <3>5, SupervisorMoves
  <2> QED BY <2>1, <2>2
<1>2. CASE LaunchFirst(i)
  <2> DEFINE r == [sup[i] EXCEPT !.pc = "starting", !.worker = "gate"]
  <2>1. r \in Supervisor /\ r.pc \in Running /\ r.worker = "gate"
    BY <1>0 DEF Supervisor, Running
  <2>2. lock = i
    BY <1>0, <1>2 DEF LaunchFirst, Running
  <2> HIDE DEF r
  <2>3. sup' = [sup EXCEPT ![i] = r] /\ UNCHANGED <<commandVars, lock, record>>
    BY <1>2 DEF LaunchFirst, r
  <2> QED BY <2>1, <2>2, <2>3, Runs
<1>3. CASE FirstReady(i)
  <2> DEFINE r == [sup[i] EXCEPT !.pc = "loop"]
  <2>1. r \in Supervisor /\ r.pc \in Running /\ r.worker = sup[i].worker
    BY <1>0 DEF Supervisor, Running
  <2>2. lock = i
    BY <1>0, <1>3 DEF FirstReady, Running
  <2> HIDE DEF r
  <2>3. sup' = [sup EXCEPT ![i] = r] /\ UNCHANGED <<commandVars, lock, record>>
    BY <1>3 DEF FirstReady, r
  <2> QED BY <2>1, <2>2, <2>3, Runs DEF Working
<1>4. CASE StartFails(i) \/ WorkerGone(i) \/ Stopped(i)
  <2>1. lock = i /\ Exists(i)
    BY <1>0, <1>4 DEF StartFails, WorkerGone, Stopped, Exists, Running
  <2>2. lock' = None /\ UNCHANGED <<commandVars, record>>
        /\ sup' = [sup EXCEPT ![i] = [Unborn EXCEPT !.pc = "exited"]]
    BY <1>4 DEF StartFails, WorkerGone, Stopped, Exits
  <2> QED BY <2>1, <2>2, Ends
<1>5. CASE StopWorker(i)
  <2> DEFINE r == [sup[i] EXCEPT !.worker = "none"]
  <2>1. r \in Supervisor /\ r.pc = sup[i].pc /\ r.worker = "none"
    BY <1>0 DEF Supervisor
  <2>2. lock = i /\ sup[i].pc \in Running
    BY <1>0, <1>5 DEF StopWorker, Running
  <2> HIDE DEF r
  <2>3. sup' = [sup EXCEPT ![i] = r] /\ UNCHANGED <<commandVars, lock, record>>
    BY <1>5 DEF StopWorker, r
  <2> QED BY <2>1, <2>2, <2>3, Runs
<1>6. CASE ReadStop(i)
  <2> DEFINE r == [sup[i] EXCEPT !.pc = "stopping", !.stop = TRUE]
  <2>1. r \in Supervisor /\ r.pc \in Running /\ r.worker = sup[i].worker
    BY <1>0 DEF Supervisor, Running
  <2>2. lock = i
    BY <1>0, <1>6 DEF ReadStop, Running
  <2> HIDE DEF r
  <2>3. sup' = [sup EXCEPT ![i] = r] /\ UNCHANGED <<commandVars, lock, record>>
    BY <1>6 DEF ReadStop, r
  <2> QED BY <2>1, <2>2, <2>3, Runs DEF Working
<1>7. CASE SupervisorDies(i)
  BY <1>7, Ends DEF SupervisorDies
<1> QED BY <1>1, <1>2, <1>3, <1>4, <1>5, <1>6, <1>7 DEF SupervisorStep

\* A worker exists, and an update runs, in the supervisor with the lock only.
\* Whatever they do, that supervisor keeps running.
LEMMA UpdateKeeps ==
  ASSUME IInv, NEW i \in Instances, BeginUpdate(i) \/ UpdateStep(i)
  PROVE  IInv'
<1> USE DEF Becomes, Same
<1>1. sup[i].pc \in Running /\ lock = i
  BY DEF BeginUpdate, UpdateStep, NothingToInstall, LookAtWorker, Activate, Activated, CheckHealth,
         IInv, ProcessInv, LockOwns, Running
<1>2. sup[i] \in Supervisor
  BY DEF IInv, ProcessInv, ProcessTypeOK
<1>3. ASSUME NEW w \in {sup[i].worker, "none", "gate"},
             NEW u \in {"off", "preparing", "prepared", "swapping", "checking", "restoring",
                         "reverting"},
             sup' = [sup EXCEPT ![i] = [sup[i] EXCEPT !.worker = w, !.update = u]],
             UNCHANGED <<commandVars, lock, record>>
      PROVE  IInv'
  <2> DEFINE r == [sup[i] EXCEPT !.worker = w, !.update = u]
  <2>1. r \in Supervisor /\ r.pc = sup[i].pc /\ r.worker = w
    BY <1>2 DEF Supervisor
  <2> HIDE DEF r
  <2>2. sup' = [sup EXCEPT ![i] = r]
    BY <1>3 DEF r
  <2> QED BY <1>1, <1>3, <2>1, <2>2, Runs DEF Working
<1>4. ASSUME NEW u \in STRING
      PROVE  [sup[i] EXCEPT !.update = u] = [sup[i] EXCEPT !.worker = sup[i].worker, !.update = u]
  BY <1>2 DEF Supervisor
<1>5. CASE BeginUpdate(i) \/ NothingToInstall(i) \/ CheckHealth(i)
  <2>1. PICK u \in {"preparing", "off", "restoring"} :
          sup' = [sup EXCEPT ![i] = [sup[i] EXCEPT !.update = u]]
    BY <1>5 DEF BeginUpdate, NothingToInstall, CheckHealth
  <2>2. UNCHANGED <<commandVars, lock, record>>
    BY <1>5 DEF BeginUpdate, NothingToInstall, CheckHealth
  <2> QED BY <1>3, <1>4, <2>1, <2>2
<1>6. ASSUME NEW from, NEW waits \in {"swapping", "reverting"}, NEW next \in {"checking", "off"},
             Activate(i, from, waits, next)
      PROVE  IInv'
  BY <1>3, <1>6 DEF Activate
<1>7. ASSUME NEW waits, NEW next \in {"checking", "off"}, NEW failed \in {"restoring", "off"},
             Activated(i, waits, next, failed)
      PROVE  IInv'
  <2>1. UNCHANGED <<commandVars, lock, record>>
    BY <1>7 DEF Activated
  <2>2. CASE sup' = [sup EXCEPT ![i] = [sup[i] EXCEPT !.update = next]]
    <3>1. [sup[i] EXCEPT !.update = next] = [sup[i] EXCEPT !.worker = sup[i].worker, !.update = next]
      BY <1>4
    <3> QED BY <1>3, <2>1, <2>2, <3>1
  <2>3. CASE sup' = [sup EXCEPT ![i] = [sup[i] EXCEPT !.worker = "none", !.update = next]]
    BY <1>3, <2>1, <2>3
  <2>4. CASE sup' = [sup EXCEPT ![i] = [sup[i] EXCEPT !.worker = "none", !.update = failed]]
    BY <1>3, <2>1, <2>4
  <2> QED BY <1>7, <2>2, <2>3, <2>4 DEF Activated
<1>8. CASE LookAtWorker(i)
  <2>1. PICK b \in BOOLEAN : b = (sup[i].worker \notin {"none", "exited"})
    OBVIOUS
  <2> DEFINE r == [sup[i] EXCEPT !.update = "prepared", !.running = b]
  <2>2. r \in Supervisor /\ r.pc = sup[i].pc /\ r.worker = sup[i].worker
    BY <1>2 DEF Supervisor
  <2>3. sup' = [sup EXCEPT ![i] = r] /\ UNCHANGED <<commandVars, lock, record>>
    BY <1>8, <2>1 DEF LookAtWorker
  <2> HIDE DEF r
  <2> QED BY <1>1, <2>2, <2>3, Runs DEF Working
<1> QED BY <1>5, <1>6, <1>7, <1>8 DEF UpdateStep

\* A worker passes its gate only while no stop is recorded.
LEMMA WorkerKeeps ==
  ASSUME IInv, NEW i \in Instances, WorkerStep(i) \/ WorkerDies(i)
  PROVE  IInv'
<1> USE DEF Becomes, Same
<1>1. lock = i /\ sup[i].pc \in Running
  BY DEF WorkerStep, PassGate, Load, WorkerDies, IInv, ProcessInv, LockOwns
<1>2. sup[i] \in Supervisor
  BY DEF IInv, ProcessInv, ProcessTypeOK
<1>3. PICK w \in {"loading", "ready", "exited"} :
        /\ sup' = [sup EXCEPT ![i] = [sup[i] EXCEPT !.worker = w]]
        /\ w \in {"loading", "ready"} => Working(i) \/ desired # FALSE
  BY DEF WorkerStep, PassGate, MayWork, Load, WorkerDies, Working
<1> DEFINE r == [sup[i] EXCEPT !.worker = w]
<1>4. r \in Supervisor /\ r.pc = sup[i].pc /\ r.worker = w
  BY <1>2 DEF Supervisor
<1> HIDE DEF r
<1>5. sup' = [sup EXCEPT ![i] = r]
  BY <1>3 DEF r
<1>6. UNCHANGED <<commandVars, lock, record>>
  BY DEF WorkerStep, PassGate, Load, WorkerDies
<1> QED BY <1>1, <1>3, <1>4, <1>5, <1>6, Runs

-----------------------------------------------------------------------------
(* The steps of a console.                                                 *)

\* A console that leaves the processes alone, for an entry new, and may take or
\* leave start.lock.
LEMMA ConsoleMoves ==
  ASSUME IInv, NEW c \in Consoles, NEW new \in Console,
         console' = [console EXCEPT ![c] = new], UNCHANGED <<launched, processVars>>,
         new.pc # "spawning",
         \/ startLock = None /\ startLock' = c
         \/ startLock' = startLock /\ (new.pc \in {"asked", "reserving", "polling", "updating"} => startLock = c)
         \/ startLock = c /\ startLock' = None
            /\ new.pc \notin {"asked", "reserving", "polling", "updating"}
  PROVE  ProcessInv' /\ FreshLaunch'
<1>1. ProcessInv'
  BY DEF IInv, processVars, ProcessInv, ProcessTypeOK, LockOwns, RecordFollows
<1>2. console' \in [Consoles -> Console] /\ launched' \in 0 .. MaxStarts
  BY DEF IInv, FreshLaunch
<1>3. \A d \in Consoles : console'[d] = IF d = c THEN new ELSE console[d]
  BY DEF IInv, FreshLaunch
<1>4. \A d \in Consoles :
        console'[d].pc \in {"asked", "reserving", "spawning", "polling", "updating"} => startLock' = d
  BY <1>3, SupervisorAssumption DEF IInv, FreshLaunch
<1>5. /\ \A i \in Instances : i > launched' => sup'[i].pc = "none"
      /\ \A d \in Consoles : console'[d].pc = "spawning" =>
           console'[d].inst = launched' /\ launched' \in Instances /\ sup'[launched'].pc = "none"
  BY <1>3 DEF IInv, FreshLaunch, processVars
<1> QED BY <1>1, <1>2, <1>4, <1>5 DEF FreshLaunch

\* The invariant is what the two state properties rest on.
LEMMA InvStopped ==
  ASSUME ProcessInv
  PROVE  StoppedMeansStopped
<1> SUFFICES ASSUME NEW i \in Instances, Working(i)
             PROVE  Alive
  BY DEF StoppedMeansStopped
<1>1. lock = i /\ sup[i].pc \in Running
  BY DEF ProcessInv, LockOwns, Working
<1>2. record = i /\ record # None
  BY <1>1, SupervisorAssumption DEF ProcessInv, RecordFollows, Instances
<1> QED BY <1>1, <1>2 DEF Alive, Exists, Running

LEMMA InvOneWorker ==
  ASSUME ProcessInv
  PROVE  OneWorker
<1> DEFINE W == {i \in Instances : Working(i)}
<1>1. W \subseteq {lock}
  BY DEF ProcessInv, LockOwns, Working
<1>2. IsFiniteSet({lock}) /\ Cardinality({lock}) = 1
  BY FS_Singleton
<1>3. Cardinality(W) <= 1
  BY <1>1, <1>2, FS_Subset
<1> QED BY <1>3 DEF OneWorker

\* Every step of a console.  A launch is the only one that takes an instance.
LEMMA ConsoleKeeps ==
  ASSUME IInv, NEW c \in Consoles,
         Commanded(c) \/ Stop(c) \/ UpdateStopped(c) \/ \E kind \in {"start", "resume", "adopt"} : Start(c, kind)
  PROVE  IInv'
<1>1. console[c] \in Console /\ console \in [Consoles -> Console] /\ Idle \in Console
      /\ Idle.pc = "idle"
  BY DEF IInv, FreshLaunch, Console, Idle
<1>2. ASSUME Return(c), UNCHANGED <<launched, processVars>>
      PROVE  ProcessInv' /\ FreshLaunch'
  BY <1>1, <1>2, ConsoleMoves DEF Return
<1>3. ASSUME NEW pc \in {"reserving", "polling", "telling", "updating"}, To(c, pc),
             UNCHANGED <<launched, processVars>>,
             \/ startLock = None /\ startLock' = c
             \/ startLock' = startLock /\ (pc = "telling" \/ startLock = c)
      PROVE  ProcessInv' /\ FreshLaunch'
  <2> DEFINE new == [console[c] EXCEPT !.pc = pc]
  <2>1. new \in Console /\ new.pc = pc
    BY <1>1 DEF Console
  <2>2. console' = [console EXCEPT ![c] = new]
    BY <1>1, <1>3 DEF To
  <2> HIDE DEF new
  <2> QED BY <1>3, <2>1, <2>2, ConsoleMoves
<1>4. ASSUME UNCHANGED processVars, UNCHANGED <<desired, quiet>>
      PROVE  QuietInv'
  BY <1>4 DEF processVars, IInv, QuietInv, Working
<1>5. CASE Remember(c)
  <2>1. startLock = c
    BY <1>5 DEF Remember, At, IInv, FreshLaunch
  <2>2. ProcessInv' /\ FreshLaunch'
    BY <1>2, <1>3, <1>5, <2>1 DEF Remember
  <2>3. QuietInv'
    <3>1. quiet' = (quiet /\ desired' # TRUE) /\ (desired' = TRUE \/ desired' = desired) /\ sup' = sup
      BY <1>5 DEF Remember, processVars
    <3> QED BY <3>1 DEF IInv, QuietInv, Working
  <2> QED BY <2>2, <2>3 DEF IInv
<1>6. CASE ReserveStart(c)
  <2>1. startLock = c
    BY <1>6 DEF ReserveStart, At, IInv, FreshLaunch
  <2>2. CASE launched' = launched + 1
    <3> DEFINE new == [console[c] EXCEPT !.pc = "spawning", !.inst = launched']
    <3>1. launched \in Nat /\ MaxStarts \in Nat
      BY SupervisorAssumption DEF IInv, FreshLaunch
    <3>2. launched # launched + 1
      BY <3>1
    <3>3. /\ launched < MaxStarts
          /\ console' = [console EXCEPT ![c].pc = "spawning", ![c].inst = launched']
          /\ UNCHANGED <<startLock, desired, quiet>> /\ UNCHANGED processVars
      BY <1>6, <2>2, <3>2 DEF ReserveStart
    <3>4. launched' \in Instances /\ launched' \in 0 .. MaxStarts /\ launched' > launched
      BY <2>2, <3>1, <3>3 DEF Instances
    <3>5. new \in Console /\ new.pc = "spawning" /\ new.inst = launched'
      BY <1>1, <3>4 DEF Console
    <3>6. console' = [console EXCEPT ![c] = new] /\ startLock' = startLock /\ UNCHANGED processVars
      BY <1>1, <3>3
    <3> HIDE DEF new
    <3>7. ProcessInv'
      BY <3>6 DEF IInv, processVars, ProcessInv, ProcessTypeOK, LockOwns, RecordFollows
    <3>8. \A d \in Consoles : d # c => console[d].pc # "spawning" /\ console'[d] = console[d]
      BY <1>1, <2>1, <3>6 DEF IInv, FreshLaunch
    <3>9. sup'[launched'].pc = "none" /\ \A j \in Instances : j > launched' => sup'[j].pc = "none"
      BY <2>2, <3>1, <3>4, <3>6 DEF IInv, FreshLaunch, processVars, Instances
    <3>10. FreshLaunch'
      BY <1>1, <2>1, <3>4, <3>5, <3>6, <3>8, <3>9 DEF IInv, FreshLaunch
    <3> QED BY <1>4, <3>3, <3>7, <3>10 DEF IInv
  <2>3. CASE launched' # launched + 1
    BY <1>2, <1>4, <1>6, <2>3 DEF ReserveStart, IInv
  <2> QED BY <2>2, <2>3
<1>7. CASE Poll(c) \/ Updated(c)
  BY <1>2, <1>4, <1>7 DEF Poll, Updated, IInv
<1>8. CASE LookForSupervisor(c) \/ WaitForStop(c) \/ TellToStop(c)
  <2>1. CASE SaysStopped(c) /\ UNCHANGED <<desired, launched, processVars>>
    <3>1. ProcessInv' /\ FreshLaunch'
      BY <1>2, <2>1 DEF SaysStopped
    <3>2. QuietInv'
      BY <2>1, InvStopped DEF SaysStopped, StoppedMeansStopped, processVars, IInv, QuietInv, Working
    <3> QED BY <3>1, <3>2 DEF IInv
  <2>2. CASE To(c, "telling") /\ UNCHANGED <<startLock, quiet, desired, launched, processVars>>
    BY <1>3, <1>4, <2>2 DEF IInv
  <2>3. CASE Return(c) /\ UNCHANGED <<quiet, desired, launched, processVars>>
    BY <1>2, <1>4, <2>3 DEF IInv
  <2>4. CASE Alive /\ TellToStop(c)
    <3> DEFINE new == [console[c] EXCEPT !.pc = "waiting", !.inst = record]
    <3>1. new \in Console /\ new.pc = "waiting"
      BY <1>1 DEF Console, IInv, ProcessInv, ProcessTypeOK
    <3>2. console' = [console EXCEPT ![c] = new] /\ startLock' = startLock
          /\ UNCHANGED <<quiet, desired, launched, processVars>>
      BY <1>1, <2>4 DEF TellToStop
    <3> HIDE DEF new
    <3> QED BY <1>4, <3>1, <3>2, ConsoleMoves DEF IInv
  <2> QED BY <1>8, <2>1, <2>2, <2>3, <2>4 DEF LookForSupervisor, WaitForStop, TellToStop
<1>9. CASE Stop(c)
  <2> DEFINE new == [Idle EXCEPT !.pc = "looking", !.kind = "stop"]
  <2>1. new \in Console /\ new.pc = "looking"
    BY <1>1 DEF Console
  <2>2. console' = [console EXCEPT ![c] = new] /\ startLock' = startLock /\ desired' = FALSE
        /\ UNCHANGED <<quiet, launched, processVars>>
    BY <1>9 DEF Stop
  <2> HIDE DEF new
  <2>3. ProcessInv' /\ FreshLaunch'
    BY <2>1, <2>2, ConsoleMoves
  <2>4. QuietInv'
    BY <2>2 DEF processVars, IInv, QuietInv, Working
  <2> QED BY <2>3, <2>4 DEF IInv
<1>10. CASE UpdateStopped(c)
  BY <1>3, <1>4, <1>10 DEF UpdateStopped, IInv
<1>11. ASSUME NEW kind \in {"start", "resume", "adopt"}, Start(c, kind)
       PROVE  IInv'
  <2> DEFINE new == [pc |-> "asked", kind |-> kind, inst |-> None, alive |-> Alive]
  <2>1. Alive \in BOOLEAN
    BY DEF Alive
  <2>2. new \in Console /\ new.pc = "asked"
    BY <2>1 DEF Console
  <2>3. console' = [console EXCEPT ![c] = new] /\ startLock = None /\ startLock' = c
        /\ UNCHANGED <<quiet, desired, launched, processVars>>
    BY <1>11 DEF Start
  <2> HIDE DEF new
  <2> QED BY <1>4, <2>2, <2>3, ConsoleMoves DEF IInv
<1>12. CASE Spawn(c)
  <2> DEFINE i == console[c].inst
             r == [sup[i] EXCEPT !.pc = "spawned"]
             new == [console[c] EXCEPT !.pc = "polling"]
  <2>1. startLock = c /\ i = launched /\ i \in Instances /\ sup[i].pc = "none"
    BY <1>12 DEF Spawn, At, IInv, FreshLaunch
  <2>2. r \in Supervisor /\ r.pc = "spawned" /\ r.worker = sup[i].worker /\ r.update = sup[i].update
    BY <2>1 DEF IInv, ProcessInv, ProcessTypeOK, Supervisor
  <2>3. new \in Console /\ new.pc = "polling"
    BY <1>1 DEF Console
  <2>4. sup' = [sup EXCEPT ![i] = r] /\ console' = [console EXCEPT ![c] = new]
        /\ UNCHANGED <<startLock, desired, launched, quiet, record, lock>>
    BY <1>1, <1>12, <2>1 DEF Spawn, To, IInv, ProcessInv, ProcessTypeOK
  <2> HIDE DEF r, new, i
  <2>5. ProcessInv'
    BY <2>1, <2>2, <2>4 DEF IInv, ProcessInv, ProcessTypeOK, LockOwns, RecordFollows, Running
  <2>6. \A d \in Consoles : console'[d] = (IF d = c THEN new ELSE console[d])
    BY <1>1, <2>4
  <2>7. \A d \in Consoles : console'[d].pc # "spawning"
    BY <2>1, <2>3, <2>6 DEF IInv, FreshLaunch
  <2>8. \A j \in Instances : j > launched => sup'[j] = sup[j]
    BY <2>1, <2>4, SupervisorAssumption DEF IInv, ProcessInv, ProcessTypeOK, FreshLaunch, Instances
  <2>9. FreshLaunch'
    BY <1>1, <2>1, <2>3, <2>4, <2>6, <2>7, <2>8 DEF IInv, FreshLaunch
  <2>10. QuietInv'
    BY <2>1, <2>2, <2>4 DEF IInv, QuietInv, Working, ProcessInv, ProcessTypeOK
  <2> QED BY <2>5, <2>9, <2>10 DEF IInv
<1> QED BY <1>5, <1>6, <1>7, <1>8, <1>9, <1>10, <1>11, <1>12 DEF Commanded

-----------------------------------------------------------------------------
(* The theorems.                                                           *)

LEMMA InitInv == Init => IInv
<1> SUFFICES ASSUME Init PROVE IInv
  OBVIOUS
<1>1. None \notin Instances /\ 1 \in Nat /\ MaxStarts \in Nat
  BY SupervisorAssumption DEF Instances
<1>2. Unborn \in Supervisor /\ Idle \in Console /\ Idle.pc = "idle"
      /\ Unborn.pc = "none" /\ Unborn.worker = "none" /\ Unborn.update = "off"
  BY DEF Unborn, Idle, Supervisor, Console
<1> DEFINE up == [Unborn EXCEPT !.pc = "loop", !.worker = "ready"]
<1>3. up \in Supervisor /\ up.pc = "loop" /\ up.pc \in Running
  BY DEF Unborn, Supervisor, Running
<1>4. /\ sup = [i \in Instances |-> IF i = lock THEN up ELSE Unborn]
      /\ lock \in Instances \cup {None} /\ record = lock
  BY DEF Init
<1> HIDE DEF up
<1>5. ProcessInv
  BY <1>1, <1>2, <1>3, <1>4 DEF ProcessInv, ProcessTypeOK, LockOwns, RecordFollows, Running
<1>6. launched \in 0 .. MaxStarts /\ (lock # None => lock = launched)
  BY <1>1 DEF Init, Instances
<1>7. \A i \in Instances : i > launched => sup[i].pc = "none"
  BY <1>1, <1>2, <1>4, <1>6 DEF Instances
<1>8. \A c \in Consoles : console[c] = Idle
  BY DEF Init
<1>9. FreshLaunch
  BY <1>2, <1>6, <1>7, <1>8 DEF Init, FreshLaunch
<1>10. QuietInv
  BY DEF Init, QuietInv
<1> QED BY <1>5, <1>9, <1>10 DEF IInv

LEMMA InvInductive ==
  ASSUME IInv, [Next]_vars
  PROVE  IInv'
<1>1. CASE UNCHANGED vars
  BY <1>1 DEF vars, commandVars, processVars, IInv, ProcessInv, ProcessTypeOK, LockOwns,
              RecordFollows, FreshLaunch, QuietInv, Working
<1>2. CASE Next
  BY <1>2, ConsoleKeeps, SupervisorKeeps, UpdateKeeps, WorkerKeeps DEF Next
<1> QED BY <1>1, <1>2

\* The invariant holds in every reachable state.
THEOREM InvHolds == Spec => []IInv
BY InitInv, InvInductive, PTL DEF Spec

\* Never two workers measure for one installation: supervisor.lock and the job
\* object see to it, however many supervisors were launched.
THEOREM OneWorkerAtMost == Spec => []OneWorker
<1>1. IInv => OneWorker
  BY InvOneWorker DEF IInv
<1> QED BY <1>1, InvHolds, PTL

\* The record on disk is enough to know that no worker is past its gate.
THEOREM StoppedIsTrue == Spec => []StoppedMeansStopped
<1>1. IInv => StoppedMeansStopped
  BY InvStopped DEF IInv
<1> QED BY <1>1, InvHolds, PTL

\* What a stop found stopped stays stopped until somebody asks for a start.
THEOREM StopStays == Spec => []StopIsKept
<1>1. IInv => StopIsKept
  BY DEF IInv, QuietInv, StopIsKept
<1> QED BY <1>1, InvHolds, PTL

=============================================================================
