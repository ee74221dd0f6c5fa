--------------------------- MODULE UpdaterProofs ---------------------------
(***************************************************************************)
(* Theorems about the update transaction: what is in use stays on disk, a  *)
(* failed release is not switched to again, the service runs what is       *)
(* installed, a stop is final, and no cycle is cut short.                  *)
(***************************************************************************)
EXTENDS Updater, TLAPS

-----------------------------------------------------------------------------
(* Types.                                                                  *)

Release == Published \cup {Baseline}

Record ==
  [active : Release, previous : Release,
   pending : {None} \cup [from : Release, to : Published],
   failed : {None} \cup Published, highest : {None} \cup Published]

Window ==
  {"unloading", "loading", "rechecking", "observing", "judging", "committing",
   "rolledback", "recovered", "stuck"}

Steps ==
  Window \cup {"idle", "fetching", "staging", "prepared", "waiting", "abandoning",
               "rewriting", "removing", "cleaning", "starting", "selecting", "stopping"}

Task ==
  [pc : Steps, target : {None} \cup Release,
   goal : {None, "candidate", "rollback", "recovery"},
   candidate : {None} \cup Published,
   looks : Nat, observed : BOOLEAN, permanent : BOOLEAN, spare : BOOLEAN]

\* Every variable has its type.
TypeOK ==
  /\ install \in Record /\ state \in Record
  /\ releases \subseteq Published
  /\ lock \in [{"update", "maintenance", "control"} -> {None, "updater", "user", "service"}]
  /\ task \in [Workers -> Task]
  /\ configured \in Release /\ running \in BOOLEAN /\ desired \in BOOLEAN
  /\ lease \in [Menus -> {None} \cup Release]
  /\ stopped \in BOOLEAN
  /\ unhealthy \subseteq Published
  /\ commands \in Nat /\ faults \in Nat

-----------------------------------------------------------------------------
(* The inductive invariant.                                                *)

\* update.lock is held by the transaction, or by a start that has it, and the
\* maintenance window by whoever switches the service.
LockInv ==
  /\ U.pc # "idle" => lock["update"] = "updater"
  /\ U.pc \in Window => lock["maintenance"] = "updater"
  /\ task["user"].pc \in {"selecting", "unloading", "loading", "rechecking"} =>
       lock["update"] = "user"
  /\ task["user"].pc \in {"unloading", "loading", "rechecking"} =>
       lock["maintenance"] = "user"

\* A stop that has completed is still what the user wants.
StopInv ==
  /\ stopped => ~running /\ ~desired
  /\ At("user", "stopping") => ~desired

On(r, rs) == r = Baseline \/ r \in rs

\* Menus run what is on disk, and a start takes what is active.
MenuInv ==
  /\ \A m \in Menus : lease[m] # None => On(lease[m], releases)
  /\ At("user", "unloading") => task["user"].target = install.active

\* r is newer than what s has installed.
Newer(r, s) == \A x \in {s.active, s.previous} : x = Baseline \/ x.version < r.version

\* A release that failed its health check is below the newest that was ever
\* accepted, or is that one and remembered as failed or pending.
Remembers(s, bad) ==
  \A r \in bad :
    /\ s.highest # None /\ r.seq <= s.highest.seq
    /\ r = s.highest => s.failed = r \/ (s.pending # None /\ s.pending.to = r)

\* What a copy s of install.json may say, with rs on disk and bad unhealthy.  A
\* pending update goes from the active release to the newest ever accepted.
Sound(s, rs, bad) ==
  /\ On(s.active, rs) /\ On(s.previous, rs)
  /\ s.previous # Baseline => s.active # Baseline /\ s.previous.version < s.active.version
  /\ s.pending # None => /\ s.pending.from = s.active /\ s.pending.to = s.highest
                         /\ Newer(s.pending.to, s)
  /\ Remembers(s, bad)

\* The service is registered to run what is installed, was before, or is pending.
Registered(c, i, rs) ==
  /\ On(c, rs)
  /\ \/ c \in {i.active, i.previous}
     \/ i.pending # None /\ c = i.pending.to

\* Before the journal and after the transaction the updater's copy is the file.
Plain(u, i, s, rs, c, bad) ==
  /\ u.pc # "idle" => Sound(s, rs, bad)
  /\ u.pc \in {"fetching", "staging", "prepared", "removing", "cleaning"} =>
       s = i /\ s.pending = None
  /\ u.pc \in {"staging", "prepared", "removing"} =>
       u.candidate \in Published /\ Newer(u.candidate, s)
  /\ u.pc \in {"staging", "prepared"} => u.candidate = s.highest /\ u.candidate \notin bad
  /\ u.pc = "prepared" => u.candidate \in rs
  /\ u.pc = "rewriting" =>
       /\ s.pending = None
       /\ i.active = s.active /\ i.previous = s.previous
       /\ c \in {s.active, s.previous}

CommittedCopy(s, r) ==
  [s EXCEPT !.active = r, !.previous = s.active, !.pending = None, !.failed = None]

\* Only a commit reported as failed leaves a file that differs from the copy in
\* which the update is pending.
Pending(u, i, s, rs, bad, n) ==
  u.pc \in Window \cup {"waiting", "abandoning"} =>
    /\ s.pending # None /\ u.candidate = s.pending.to
    /\ u.goal \in {"candidate", "rollback", "recovery"}
    /\ u.goal = "candidate" =>
         /\ i = s /\ u.target = u.candidate /\ u.candidate \in rs /\ u.candidate \notin bad
    /\ u.goal = "recovery" => i = s /\ u.target = s.active
    /\ u.goal = "rollback" =>
         /\ u.target = s.active
         /\ i = s \/ (i = CommittedCopy(s, u.candidate) /\ ~u.permanent /\ n >= 1
                        /\ u.candidate \in rs)
         /\ u.permanent \/ u.candidate \notin bad

\* Which ends a goal can reach, and what the service is registered to run then.
Goal(u, s, c) ==
  /\ u.pc = "waiting" => u.goal # "rollback"
  /\ u.pc \in {"abandoning", "committing"} => u.goal = "candidate"
  /\ u.pc = "rolledback" => u.goal = "rollback"
  /\ u.pc = "recovered" => u.goal = "recovery"
  /\ u.pc = "stuck" => u.goal # "candidate"
  /\ u.pc \in {"waiting", "abandoning"} /\ u.goal = "candidate" =>
       c \in {s.active, s.previous}
  /\ u.pc \in Window \ {"unloading", "stuck"} => c = u.target

\* What two faults are needed for.
Runs(u, i, s, c, n) ==
  n <= 1 =>
    /\ i.pending = None /\ u.pc \notin Window => c = i.active
    /\ u.pc \in {"waiting", "abandoning"} /\ u.goal = "candidate" => c = s.active
    /\ u.pc = "rewriting" => c = s.active

Transaction(u, i, s, rs, c, bad, n) ==
  /\ Sound(i, rs, bad)
  /\ Registered(c, i, rs)
  /\ Plain(u, i, s, rs, c, bad)
  /\ Pending(u, i, s, rs, bad, n)
  /\ Goal(u, s, c)
  /\ Runs(u, i, s, c, n)

IInv ==
  /\ TypeOK
  /\ LockInv
  /\ StopInv
  /\ MenuInv
  /\ Transaction(U, install, state, releases, configured, unhealthy, faults)

-----------------------------------------------------------------------------
(* The records.                                                            *)

LEMMA RecordFields ==
  ASSUME NEW s \in Record
  PROVE  /\ s.active \in Release /\ s.previous \in Release
         /\ s.pending \in {None} \cup [from : Release, to : Published]
         /\ s.failed \in {None} \cup Published /\ s.highest \in {None} \cup Published
BY DEF Record

\* Published releases and the journal are none of the special values.
LEMMA SpecialValues ==
  /\ Baseline \notin Published /\ None \notin Published /\ Baseline # None
  /\ \A r \in Published : r.seq \in Nat \ {0} /\ r.version \in Nat \ {0}
  /\ \A q \in [from : Release, to : Published] : q # None
  /\ None \notin {"updater", "user", "service"}
BY UpdaterAssumption DEF UpdaterAssumption, Release

LEMMA CommittedFields ==
  ASSUME NEW s \in Record, NEW r \in Published
  PROVE  /\ CommittedCopy(s, r) \in Record
         /\ CommittedCopy(s, r).active = r /\ CommittedCopy(s, r).previous = s.active
         /\ CommittedCopy(s, r).pending = None /\ CommittedCopy(s, r).failed = None
         /\ CommittedCopy(s, r).highest = s.highest
<1>1. None \in {None} \cup [from : Release, to : Published] /\ None \in {None} \cup Published
      /\ r \in Release
  BY DEF Release
<1>2. CommittedCopy(s, r) \in Record
  BY <1>1, RecordFields DEF CommittedCopy, Record
<1> QED BY <1>2 DEF CommittedCopy, Record

\* The restored copy: the journal is closed, and the release marked or not.
Closed(s, mark) == [s EXCEPT !.pending = None, !.failed = IF mark THEN s.pending.to ELSE @]

LEMMA ClosedFields ==
  ASSUME NEW s \in Record, s.pending # None, NEW mark
  PROVE  /\ Closed(s, mark) \in Record
         /\ Closed(s, mark).active = s.active /\ Closed(s, mark).previous = s.previous
         /\ Closed(s, mark).pending = None /\ Closed(s, mark).highest = s.highest
         /\ mark => Closed(s, mark).failed = s.pending.to
         /\ ~mark => Closed(s, mark).failed = s.failed
<1>1. s.pending.to \in Published
  BY RecordFields
<1>2. PICK f \in {None} \cup Published : f = IF mark THEN s.pending.to ELSE s.failed
  BY <1>1, RecordFields
<1>3. Closed(s, mark) = [s EXCEPT !.pending = None, !.failed = f]
  BY <1>2 DEF Closed, Record
<1>4. Closed(s, mark) \in Record
  BY <1>3, RecordFields DEF Record
<1>5. /\ Closed(s, mark).active = s.active /\ Closed(s, mark).previous = s.previous
      /\ Closed(s, mark).pending = None /\ Closed(s, mark).highest = s.highest
      /\ Closed(s, mark).failed = f
  BY <1>3 DEF Record
<1> QED BY <1>2, <1>4, <1>5

LEMMA PendingFields ==
  ASSUME NEW s \in Record, NEW q \in {None} \cup [from : Release, to : Published]
  PROVE  /\ [s EXCEPT !.pending = q] \in Record
         /\ [s EXCEPT !.pending = q].active = s.active
         /\ [s EXCEPT !.pending = q].previous = s.previous
         /\ [s EXCEPT !.pending = q].pending = q
         /\ [s EXCEPT !.pending = q].failed = s.failed
         /\ [s EXCEPT !.pending = q].highest = s.highest
<1>1. [s EXCEPT !.pending = q] = [active |-> s.active, previous |-> s.previous,
         pending |-> q, failed |-> s.failed, highest |-> s.highest]
  BY DEF Record
<1> QED BY <1>1, RecordFields DEF Record

LEMMA HighestFields ==
  ASSUME NEW s \in Record, NEW r \in Published
  PROVE  /\ [s EXCEPT !.highest = r] \in Record
         /\ [s EXCEPT !.highest = r].active = s.active
         /\ [s EXCEPT !.highest = r].previous = s.previous
         /\ [s EXCEPT !.highest = r].pending = s.pending
         /\ [s EXCEPT !.highest = r].failed = s.failed
         /\ [s EXCEPT !.highest = r].highest = r
<1>1. [s EXCEPT !.highest = r] = [active |-> s.active, previous |-> s.previous,
         pending |-> s.pending, failed |-> s.failed, highest |-> r]
  BY DEF Record
<1> QED BY <1>1, RecordFields DEF Record

\* What an action does to the task of p, as far as the invariant looks at it.
Moves(p, u, pc, goal, target, candidate, permanent) ==
  /\ u \in Task
  /\ task' \in [Workers -> Task] /\ task'[p] = u
  /\ \A q \in Workers \ {p} : task'[q] = task[q]
  /\ u.pc = pc /\ u.goal = goal /\ u.target = target
  /\ u.candidate = candidate /\ u.permanent = permanent

LEMMA TaskFields ==
  ASSUME NEW u \in Task
  PROVE  /\ u.pc \in Steps /\ u.target \in {None} \cup Release
         /\ u.goal \in {None, "candidate", "rollback", "recovery"}
         /\ u.candidate \in {None} \cup Published
         /\ u.looks \in Nat /\ u.observed \in BOOLEAN
         /\ u.permanent \in BOOLEAN /\ u.spare \in BOOLEAN
         /\ u = [pc |-> u.pc, target |-> u.target, goal |-> u.goal, candidate |-> u.candidate,
                 looks |-> u.looks, observed |-> u.observed, permanent |-> u.permanent,
                 spare |-> u.spare]
<1>1. /\ u.pc \in Steps /\ u.target \in {None} \cup Release
      /\ u.goal \in {None, "candidate", "rollback", "recovery"}
      /\ u.candidate \in {None} \cup Published
      /\ u.looks \in Nat
  BY DEF Task
<1>2. u.observed \in BOOLEAN /\ u.permanent \in BOOLEAN /\ u.spare \in BOOLEAN
  BY Zenon DEF Task
<1>3. u = [pc |-> u.pc, target |-> u.target, goal |-> u.goal, candidate |-> u.candidate,
                 looks |-> u.looks, observed |-> u.observed, permanent |-> u.permanent,
                 spare |-> u.spare]
  BY DEF Task
<1> QED BY <1>1, <1>2, <1>3

LEMMA TaskOf ==
  ASSUME NEW pc \in Steps, NEW target \in {None} \cup Release,
         NEW goal \in {None, "candidate", "rollback", "recovery"},
         NEW candidate \in {None} \cup Published,
         NEW looks \in Nat, NEW observed \in BOOLEAN, NEW permanent \in BOOLEAN,
         NEW spare \in BOOLEAN
  PROVE  [pc |-> pc, target |-> target, goal |-> goal, candidate |-> candidate,
          looks |-> looks, observed |-> observed, permanent |-> permanent,
          spare |-> spare] \in Task
BY Zenon DEF Task

LEMMA GotoMoves ==
  ASSUME TypeOK, NEW p \in Workers, NEW pc \in Steps, Goto(p, pc)
  PROVE  \E u : Moves(p, u, pc, task[p].goal, task[p].target, task[p].candidate,
                      task[p].permanent)
<1>1. task \in [Workers -> Task] /\ task[p] \in Task
  BY DEF TypeOK
<1> DEFINE t == task[p]
           u == [pc |-> pc, target |-> t.target, goal |-> t.goal, candidate |-> t.candidate,
                 looks |-> t.looks, observed |-> t.observed, permanent |-> t.permanent,
                 spare |-> t.spare]
<1>2. u \in Task
  <2>1. /\ t.target \in {None} \cup Release /\ t.candidate \in {None} \cup Published
        /\ t.goal \in {None, "candidate", "rollback", "recovery"}
        /\ t.looks \in Nat /\ t.observed \in BOOLEAN
        /\ t.permanent \in BOOLEAN /\ t.spare \in BOOLEAN
    BY <1>1, TaskFields
  <2> QED BY <2>1 DEF Task
<1>3. [t EXCEPT !.pc = pc] = u
  BY <1>1 DEF Task
<1>4. task' = [task EXCEPT ![p] = u]
  BY <1>1, <1>3 DEF Goto
<1>5. Moves(p, u, pc, t.goal, t.target, t.candidate, t.permanent)
  BY <1>1, <1>2, <1>4 DEF Moves
<1> QED BY <1>5

LEMMA TaskMoves ==
  ASSUME TypeOK, NEW p \in Workers, NEW u \in Task, task' = [task EXCEPT ![p] = u]
  PROVE  Moves(p, u, u.pc, u.goal, u.target, u.candidate, u.permanent)
BY DEF TypeOK, Moves

LEMMA IdleTask ==
  /\ Idle \in Task /\ Idle.pc = "idle" /\ Idle.goal = None /\ Idle.target = None
  /\ Idle.candidate = None /\ Idle.permanent = TRUE
  /\ Idle = [pc |-> "idle", target |-> None, goal |-> None, candidate |-> None,
             looks |-> 0, observed |-> FALSE, permanent |-> TRUE, spare |-> FALSE]
<1>1. /\ "idle" \in Steps /\ None \in {None} \cup Release
      /\ None \in {None, "candidate", "rollback", "recovery"}
      /\ None \in {None} \cup Published /\ 0 \in Nat
  BY DEF Steps
<1>2. FALSE \in BOOLEAN /\ TRUE \in BOOLEAN
  OBVIOUS
<1>3. Idle \in Task
  BY <1>1, <1>2, Zenon DEF Idle, Task
<1> QED BY <1>3 DEF Idle

\* The end of what p does, and its locks.
LEMMA LeaveMoves ==
  ASSUME TypeOK, NEW p \in Workers, Leave(p)
  PROVE  /\ Moves(p, Idle, "idle", None, None, None, TRUE)
         /\ lock' \in [{"update", "maintenance", "control"} -> {None, "updater", "user", "service"}]
         /\ \A l \in {"update", "maintenance"} :
              lock'[l] = IF lock[l] = p THEN None ELSE lock[l]
<1>1. Moves(p, Idle, "idle", None, None, None, TRUE)
  BY IdleTask, TaskMoves DEF Leave
<1> QED BY <1>1 DEF Leave, TypeOK

LEMMA RollBackMoves ==
  ASSUME TypeOK, state.pending # None,
         NEW permanent \in BOOLEAN, NEW spare \in BOOLEAN, RollBack(permanent, spare)
  PROVE  \E u : Moves("updater", u, "unloading", "rollback", state.pending.from,
                      U.candidate, permanent)
<1>1. task \in [Workers -> Task] /\ U \in Task /\ "updater" \in Workers
      /\ state.pending.from \in Release
  BY RecordFields DEF TypeOK, Workers, U
<1>2. PICK u : u = [U EXCEPT !.pc = "unloading", !.goal = "rollback",
                            !.target = state.pending.from, !.permanent = permanent,
                            !.spare = spare]
  OBVIOUS
<1>3. "unloading" \in Steps /\ "rollback" \in {None, "candidate", "rollback", "recovery"}
      /\ state.pending.from \in {None} \cup Release
  BY <1>1 DEF Steps, Window
<1>4. u \in Task
  BY <1>1, <1>2, <1>3, TaskFields DEF Task
<1>5. /\ u.pc = "unloading" /\ u.goal = "rollback" /\ u.target = state.pending.from
      /\ u.candidate = U.candidate /\ u.permanent = permanent
  BY <1>1, <1>2 DEF Task
<1>6. task' = [task EXCEPT !["updater"] = u]
  BY <1>1, <1>2 DEF RollBack, U
<1> QED BY <1>1, <1>4, <1>5, <1>6, TaskMoves

-----------------------------------------------------------------------------
(* Steps of the updater, and of the others.                                *)

Locks == [{"update", "maintenance", "control"} -> {None, "updater", "user", "service"}]

\* A step of the updater while no start holds update.lock.
LEMMA UpdaterMoves ==
  ASSUME IInv, NEW u, NEW pc, NEW goal, NEW target, NEW candidate, NEW permanent,
         Moves("updater", u, pc, goal, target, candidate, permanent),
         lock["update"] # "user",
         UNCHANGED <<desired, lease, stopped, commands>>,
         install' \in Record, state' \in Record, releases' \subseteq Published,
         lock' \in Locks, configured' \in Release, running' \in BOOLEAN,
         unhealthy' \subseteq Published, faults' \in Nat,
         running' => running \/ desired,
         u.pc # "idle" => lock'["update"] = "updater",
         u.pc \in Window => lock'["maintenance"] = "updater",
         \A m \in Menus : lease[m] \in releases => lease[m] \in releases',
         Transaction(u, install', state', releases', configured', unhealthy', faults')
  PROVE  IInv'
<1>1. task' \in [Workers -> Task] /\ U' = u /\ task'["user"] = task["user"]
  BY DEF Moves, U, Workers
<1>2. TypeOK'
  BY <1>1 DEF IInv, TypeOK, Locks
<1>3. task["user"].pc \notin {"selecting", "unloading", "loading", "rechecking"}
  BY DEF IInv, LockInv
<1>4. LockInv'
  BY <1>1, <1>3 DEF LockInv
<1>5. StopInv'
  BY <1>1 DEF IInv, StopInv, At, TypeOK
<1>6. MenuInv'
  <2>1. \A m \in Menus : lease'[m] # None => On(lease'[m], releases')
    BY DEF IInv, MenuInv, On
  <2> QED BY <1>1, <1>3, <2>1 DEF MenuInv, At
<1>7. Transaction(U', install', state', releases', configured', unhealthy', faults')
  BY <1>1
<1> QED BY <1>2, <1>4, <1>5, <1>6, <1>7 DEF IInv

\* What holds with n faults holds with more.
LEMMA MoreFaults ==
  ASSUME NEW u, NEW i, NEW s, NEW rs, NEW c, NEW bad, NEW n \in Nat, NEW m \in Nat, n <= m,
         Transaction(u, i, s, rs, c, bad, n)
  PROVE  Transaction(u, i, s, rs, c, bad, m)
<1>1. Pending(u, i, s, rs, bad, m)
  BY DEF Transaction, Pending
<1>2. Runs(u, i, s, c, m)
  BY DEF Transaction, Runs
<1> QED BY <1>1, <1>2 DEF Transaction

\* A step of the user, of the service or of a menu.
LEMMA OthersMove ==
  ASSUME IInv, task' \in [Workers -> Task], task'["updater"] = task["updater"],
         UNCHANGED <<install, state, releases, configured, unhealthy>>,
         faults' \in Nat, faults' >= faults
  PROVE  Transaction(U, install, state, releases, configured, unhealthy, faults)'
<1>1. U' = U /\ faults \in Nat
  BY DEF U, IInv, TypeOK
<1>2. Transaction(U, install, state, releases, configured, unhealthy, faults')
  BY <1>1, MoreFaults DEF IInv
<1> QED BY <1>1, <1>2

\* What every step of the updater may use.
LEMMA Facts ==
  ASSUME IInv
  PROVE  /\ TypeOK /\ U \in Task /\ U = task["updater"] /\ "updater" \in Workers
         /\ install \in Record /\ state \in Record /\ releases \subseteq Published
         /\ lock \in Locks /\ faults \in Nat
         /\ Transaction(U, install, state, releases, configured, unhealthy, faults)
         /\ U.pc # "idle" => lock["update"] = "updater" /\ lock["update"] # "user"
         /\ U.pc \in Window => lock["maintenance"] = "updater"
BY DEF IInv, TypeOK, LockInv, U, Workers, Locks

LEMMA CheckKeeps ==
  ASSUME IInv, Check
  PROVE  IInv'
<1>1. /\ U.pc = "idle" /\ lock["update"] = None
      /\ state' = install
      /\ UNCHANGED <<install, releases, service, desired, lease, stopped, unhealthy, bounds>>
  BY DEF Check, At, Free, U
<1>2. lock' \in Locks /\ lock'["update"] = "updater" /\ lock'["maintenance"] = lock["maintenance"]
  BY Facts DEF Check, Locks
<1>3. lock["update"] # "user"
  BY <1>1, SpecialValues
<1>4. CASE install.pending = None
  <2>1. PICK u : u = [Idle EXCEPT !.pc = "fetching"]
    OBVIOUS
  <2>2. u = [pc |-> "fetching", target |-> None, goal |-> None, candidate |-> None,
             looks |-> 0, observed |-> FALSE, permanent |-> TRUE, spare |-> FALSE]
    BY <2>1 DEF Idle
  <2>3. u \in Task
    <3>1. "fetching" \in Steps /\ 0 \in Nat
      BY DEF Steps
    <3> QED BY <2>2, <3>1, TaskOf
  <2>4. task' = [task EXCEPT !["updater"] = u]
    BY <1>4, <2>1 DEF Check
  <2>5. Moves("updater", u, "fetching", u.goal, u.target, u.candidate, u.permanent)
    BY <2>2, <2>3, <2>4, Facts, TaskMoves
  <2>6. Transaction(u, install, install, releases, configured, unhealthy, faults)
    BY <1>1, <1>4, <2>5, Facts
       DEF Moves, Transaction, Plain, Pending, Goal, Runs, Window
  <2>7. u.pc \notin Window
    BY <2>5 DEF Moves, Window
  <2> QED
    BY <1>1, <1>2, <1>3, <2>5, <2>6, <2>7, UpdaterMoves DEF IInv, TypeOK, service, bounds
<1>5. CASE install.pending # None
  <2>0. install.pending.from \in Release /\ install.pending.to \in Published
    BY <1>5, Facts, RecordFields
  <2>1. PICK u : u = [Idle EXCEPT !.pc = "waiting", !.goal = "recovery",
                         !.target = install.pending.from, !.candidate = install.pending.to]
    OBVIOUS
  <2>2. u = [pc |-> "waiting", target |-> install.pending.from, goal |-> "recovery",
             candidate |-> install.pending.to,
             looks |-> 0, observed |-> FALSE, permanent |-> TRUE, spare |-> FALSE]
    BY <2>1 DEF Idle
  <2>3. u \in Task
    <3>1. "waiting" \in Steps /\ 0 \in Nat
      BY DEF Steps
    <3> QED BY <2>0, <2>2, <3>1, TaskOf
  <2>4. task' = [task EXCEPT !["updater"] = u]
    BY <1>5, <2>1 DEF Check
  <2>5. Moves("updater", u, "waiting", "recovery", install.pending.from, install.pending.to,
              u.permanent)
    BY <2>2, <2>3, <2>4, Facts, TaskMoves
  <2>6. Transaction(u, install, install, releases, configured, unhealthy, faults)
    <3>1. Sound(install, releases, unhealthy) /\ Registered(configured, install, releases)
      BY Facts DEF Transaction
    <3>2. install.pending.from = install.active
      BY <1>5, <3>1 DEF Sound
    <3> QED BY <1>5, <2>5, <3>1, <3>2
            DEF Moves, Transaction, Plain, Pending, Goal, Runs, Window
  <2>7. u.pc \notin Window
    BY <2>5 DEF Moves, Window
  <2> QED
    BY <1>1, <1>2, <1>3, <2>5, <2>6, <2>7, UpdaterMoves DEF IInv, TypeOK, service, bounds
<1> QED BY <1>4, <1>5

\* The updater leaves a file that is sound, and what it says runs.
LEMMA LeaveKeeps ==
  ASSUME IInv, U.pc # "idle", Leave("updater"),
         UNCHANGED <<desired, lease, stopped, commands, configured, running, unhealthy>>,
         install' \in Record, state' \in Record, releases' \subseteq Published, faults' \in Nat,
         \A m \in Menus : lease[m] \in releases => lease[m] \in releases',
         Sound(install', releases', unhealthy), Registered(configured, install', releases'),
         faults' <= 1 /\ install'.pending = None => configured = install'.active
  PROVE  IInv'
<1>1. /\ Moves("updater", Idle, "idle", None, None, None, TRUE)
      /\ lock' \in Locks
  BY Facts, LeaveMoves DEF Locks
<1>2. Transaction(Idle, install', state', releases', configured, unhealthy, faults')
  BY IdleTask DEF Transaction, Plain, Pending, Goal, Runs, Window
<1>3. Idle.pc = "idle" /\ "idle" \notin Window
  BY IdleTask DEF Window
<1> QED BY <1>1, <1>2, <1>3, Facts, UpdaterMoves DEF IInv, TypeOK

NothingPending == state = install /\ install.pending = None

\* Removing the directory of a newer release leaves all that is in use.
LEMMA RemovedKeeps ==
  ASSUME IInv, NothingPending, NEW r \in Published, Newer(r, install),
         configured \in {install.active, install.previous},
         releases' = Removed(r.version)
  PROVE  /\ releases' \subseteq releases
         /\ \A m \in Menus : lease[m] \in releases => lease[m] \in releases'
         /\ Sound(install, releases', unhealthy)
         /\ Registered(configured, install, releases')
<1>1. releases' \subseteq releases
  BY DEF Removed
<1>2. \A m \in Menus : lease[m] \in releases => lease[m] \in releases'
  BY DEF Removed, Leased
<1>3. Sound(install, releases, unhealthy) /\ Registered(configured, install, releases)
  BY Facts DEF Transaction
<1>4. \A x \in {install.active, install.previous} : On(x, releases')
  <2> SUFFICES ASSUME NEW x \in {install.active, install.previous}, x # Baseline
               PROVE  x \in releases'
    BY DEF On
  <2>1. x \in releases /\ x.version < r.version
    BY <1>3 DEF Sound, On, Newer
  <2>2. x.version \in Nat /\ r.version \in Nat
    BY <2>1, Facts, SpecialValues
  <2> QED BY <2>1, <2>2 DEF Removed
<1>5. Sound(install, releases', unhealthy)
  BY <1>3, <1>4 DEF Sound, NothingPending
<1>6. Registered(configured, install, releases')
  BY <1>4 DEF Registered
<1> QED BY <1>1, <1>2, <1>5, <1>6

\* While nothing is pending.
LEMMA PlainFacts ==
  ASSUME IInv, U.pc \in {"fetching", "staging", "prepared", "removing", "cleaning"}
  PROVE  /\ NothingPending /\ U.pc # "idle" /\ U.pc \notin Window
         /\ Sound(install, releases, unhealthy) /\ Registered(configured, install, releases)
         /\ configured \in {install.active, install.previous}
         /\ faults <= 1 => configured = install.active
         /\ U.pc \in {"staging", "prepared", "removing"} =>
              U.candidate \in Published /\ Newer(U.candidate, install)
<1>1. Transaction(U, install, state, releases, configured, unhealthy, faults)
  BY Facts
<1>2. NothingPending
  BY <1>1 DEF Transaction, Plain, NothingPending
<1>3. U.pc # "idle" /\ U.pc \notin Window
  BY DEF Window
<1>4. configured \in {install.active, install.previous}
  BY <1>1, <1>2 DEF Transaction, Registered, NothingPending
<1>5. faults <= 1 => configured = install.active
  BY <1>1, <1>2, <1>3 DEF Transaction, Runs, NothingPending
<1>6. U.pc \in {"staging", "prepared", "removing"} =>
        U.candidate \in Published /\ Newer(U.candidate, install)
  BY <1>1, <1>2 DEF Transaction, Plain, NothingPending
<1> QED BY <1>1, <1>2, <1>3, <1>4, <1>5, <1>6 DEF Transaction

LEMMA NothingToInstallKeeps ==
  ASSUME IInv, NothingToInstall
  PROVE  IInv'
<1>1. /\ U.pc = "fetching"
      /\ UNCHANGED <<files, service, desired, lease, stopped, unhealthy, bounds>>
  BY DEF NothingToInstall, At, U
<1>2. NothingPending /\ Sound(install, releases, unhealthy)
  BY <1>1, PlainFacts
<1>3. CASE Goto("updater", "cleaning") /\ UNCHANGED lock
  <2>1. PICK u : Moves("updater", u, "cleaning", U.goal, U.target, U.candidate, U.permanent)
    BY <1>3, Facts, GotoMoves DEF Steps
  <2>2. u.pc = "cleaning" /\ u.pc \notin Window
    BY <2>1 DEF Moves, Window
  <2>3. Transaction(u, install, state, releases, configured, unhealthy, faults)
    BY <1>1, <1>2, <2>2, Facts, PlainFacts
       DEF Transaction, Plain, Pending, Goal, Runs, NothingPending, Window
  <2> QED
    BY <1>1, <1>3, <2>1, <2>2, <2>3, Facts, UpdaterMoves
       DEF IInv, TypeOK, files, service, bounds
<1>4. CASE Leave("updater")
  BY <1>1, <1>4, PlainFacts, Facts, LeaveKeeps DEF files, service, bounds
<1> QED BY <1>3, <1>4 DEF NothingToInstall

\* A release that is accepted is newer than what is installed, and healthy as far
\* as is known.
LEMMA AcceptedIsNewer ==
  ASSUME IInv, U.pc = "fetching", NEW r \in Published, Accepts(r)
  PROVE  Newer(r, install) /\ r \notin unhealthy
<1>1. /\ NothingPending /\ Sound(install, releases, unhealthy)
      /\ install \in Record /\ releases \subseteq Published /\ r.version \in Nat \ {0}
      /\ r.seq \in Nat
  BY PlainFacts, Facts, SpecialValues
<1>2. Newer(r, install)
  <2>1. CASE install.active = Baseline
    <3>1. install.previous = Baseline
      BY <1>1, <2>1 DEF Sound
    <3> QED BY <2>1, <3>1 DEF Newer
  <2>2. CASE install.active # Baseline
    <3>1. r.version > install.active.version
      BY <1>1, <2>2 DEF Accepts, Version, NothingPending
    <3>2. install.active \in Published /\ install.active.version \in Nat
      BY <1>1, <2>2, SpecialValues DEF Sound, On
    <3>3. install.previous # Baseline =>
            install.previous.version < install.active.version /\ install.previous.version \in Nat
      BY <1>1, SpecialValues DEF Sound, On
    <3> QED BY <1>1, <3>1, <3>2, <3>3 DEF Newer
  <2> QED BY <2>1, <2>2
<1>3. r \notin unhealthy
  <2> SUFFICES ASSUME r \in unhealthy PROVE FALSE
    OBVIOUS
  <2>1. /\ install.highest # None /\ r.seq <= install.highest.seq
        /\ r = install.highest => install.failed = r
    BY <1>1 DEF Sound, Remembers, NothingPending
  <2>2. install.highest \in Published /\ install.highest.seq \in Nat
    BY <1>1, <2>1, RecordFields, SpecialValues
  <2>3. (r.seq > install.highest.seq \/ r = install.highest) /\ r # install.failed
    BY <1>1, <2>1 DEF Accepts, HighestSeq, NothingPending
  <2> QED BY <1>1, <2>1, <2>2, <2>3
<1> QED BY <1>2, <1>3

LEMMA FaultAdds ==
  ASSUME IInv, Fault
  PROVE  faults' \in Nat /\ faults' = faults + 1 /\ faults' >= faults
BY Facts DEF Fault

LEMMA FetchKeeps ==
  ASSUME IInv, Fetch
  PROVE  IInv'
<1>1. /\ U.pc = "fetching"
      /\ UNCHANGED <<releases, service, desired, lease, stopped, unhealthy, commands>>
  BY DEF Fetch, At, U
<1>2. PICK r \in Published :
        /\ Accepts(r)
        /\ state' = [state EXCEPT !.highest = r]
        /\ \/ /\ install' = state'
              /\ task' = [task EXCEPT !["updater"].pc = "staging", !["updater"].candidate = r]
              /\ UNCHANGED <<lock, faults>>
           \/ /\ WriteFails(state')
              /\ Leave("updater")
  BY DEF Fetch
<1>3. /\ NothingPending /\ Sound(install, releases, unhealthy)
      /\ configured \in {install.active, install.previous}
      /\ faults <= 1 => configured = install.active
      /\ Registered(configured, install, releases)
  BY <1>1, PlainFacts
<1>4. Newer(r, install) /\ r \notin unhealthy
  BY <1>1, <1>2, AcceptedIsNewer
<1>5. /\ state' \in Record /\ state'.active = install.active
      /\ state'.previous = install.previous /\ state'.pending = None
      /\ state'.failed = install.failed /\ state'.highest = r
  BY <1>2, <1>3, Facts, HighestFields DEF NothingPending
<1>6. Sound(state', releases, unhealthy)
  <2>1. Remembers(state', unhealthy)
    <3> SUFFICES ASSUME NEW q \in unhealthy
                 PROVE  q.seq <= r.seq /\ q # r
      BY <1>5, SpecialValues DEF Remembers
    <3>1. install.highest # None /\ q.seq <= install.highest.seq
      BY <1>3 DEF Sound, Remembers
    <3>2. install.highest \in Published /\ q \in Published
      BY <3>1, Facts, RecordFields DEF TypeOK
    <3>3. q.seq \in Nat /\ install.highest.seq \in Nat /\ r.seq \in Nat
      BY <3>2, SpecialValues
    <3>4. r.seq > install.highest.seq \/ r = install.highest
      BY <1>2, <1>3, <3>1 DEF Accepts, HighestSeq, NothingPending
    <3> QED BY <1>4, <3>1, <3>3, <3>4
  <2> QED BY <1>3, <1>5, <2>1 DEF Sound
<1>7. Registered(configured, state', releases)
  BY <1>3, <1>5 DEF Registered
<1>8. CASE /\ install' = state'
           /\ task' = [task EXCEPT !["updater"].pc = "staging", !["updater"].candidate = r]
           /\ UNCHANGED <<lock, faults>>
  <2>1. PICK u : u = [U EXCEPT !.pc = "staging", !.candidate = r]
    OBVIOUS
  <2>2. u \in Task /\ u.pc = "staging" /\ u.candidate = r
    <3>1. U \in Task /\ "staging" \in Steps
      BY Facts DEF Steps
    <3> QED BY <2>1, <3>1, TaskFields DEF Task
  <2>3. task' = [task EXCEPT !["updater"] = u]
    BY <1>8, <2>1, Facts
  <2>4. Moves("updater", u, "staging", u.goal, u.target, r, u.permanent)
    BY <2>2, <2>3, Facts, TaskMoves
  <2>5. u.pc \notin Window
    BY <2>2 DEF Window
  <2>6. Newer(r, state')
    BY <1>4, <1>5 DEF Newer
  <2>7. Transaction(u, install', state', releases, configured, unhealthy, faults)
    BY <1>3, <1>4, <1>5, <1>6, <1>7, <1>8, <2>2, <2>5, <2>6
       DEF Transaction, Plain, Pending, Goal, Runs, Window
  <2> QED
    BY <1>1, <1>5, <1>8, <2>4, <2>5, <2>7, Facts, UpdaterMoves DEF IInv, TypeOK, service
<1>9. CASE WriteFails(state') /\ Leave("updater")
  <2>1. install' \in {install, state'} /\ faults' \in Nat /\ faults' = faults + 1
    BY <1>9, FaultAdds DEF WriteFails
  <2>2. faults' <= 1 => configured = install'.active
    BY <1>3, <1>5, <2>1, Facts
  <2>3. Sound(install', releases, unhealthy) /\ Registered(configured, install', releases)
    BY <1>3, <1>6, <1>7, <2>1
  <2> QED
    BY <1>1, <1>5, <1>9, <2>1, <2>2, <2>3, Facts, LeaveKeeps DEF service
<1> QED BY <1>2, <1>8, <1>9

LEMMA StagingFailsKeeps ==
  ASSUME IInv, StagingFails \/ PrepareFails
  PROVE  IInv'
<1>1. /\ U.pc \in {"staging", "prepared"} /\ Leave("updater")
      /\ UNCHANGED <<install, state, service, desired, lease, stopped, unhealthy, bounds>>
      /\ releases' = releases \/ releases' = Removed(U.candidate.version)
  BY DEF StagingFails, PrepareFails, At, U
<1>2. /\ Sound(install, releases', unhealthy) /\ Registered(configured, install, releases')
      /\ releases' \subseteq releases
      /\ \A m \in Menus : lease[m] \in releases => lease[m] \in releases'
  BY <1>1, PlainFacts, RemovedKeeps
<1> QED BY <1>1, <1>2, PlainFacts, Facts, LeaveKeeps DEF service, bounds

LEMMA RemoveKeeps ==
  ASSUME IInv, Remove
  PROVE  IInv'
<1>1. /\ U.pc = "removing" /\ Leave("updater")
      /\ UNCHANGED <<install, state, service, desired, lease, stopped, unhealthy, bounds>>
      /\ releases' = Removed(U.candidate.version)
  BY DEF Remove, At, U
<1>2. /\ Sound(install, releases', unhealthy) /\ Registered(configured, install, releases')
      /\ releases' \subseteq releases
      /\ \A m \in Menus : lease[m] \in releases => lease[m] \in releases'
  BY <1>1, PlainFacts, RemovedKeeps
<1> QED BY <1>1, <1>2, PlainFacts, Facts, LeaveKeeps DEF service, bounds

LEMMA StageKeeps ==
  ASSUME IInv, Stage
  PROVE  IInv'
<1>1. /\ U.pc = "staging" /\ Goto("updater", "prepared")
      /\ releases' = releases \cup {U.candidate}
      /\ UNCHANGED <<install, state, lock, service, desired, lease, stopped, unhealthy, bounds>>
  BY DEF Stage, At, U
<1>2. PICK u : Moves("updater", u, "prepared", U.goal, U.target, U.candidate, U.permanent)
  BY <1>1, Facts, GotoMoves DEF Steps
<1>3. u.pc = "prepared" /\ u.candidate = U.candidate /\ u.pc \notin Window
  BY <1>2 DEF Moves, Window
<1>4. /\ NothingPending /\ Sound(install, releases, unhealthy)
      /\ Registered(configured, install, releases)
      /\ faults <= 1 => configured = install.active
      /\ U.candidate \in Published /\ Newer(U.candidate, install)
  BY <1>1, PlainFacts
<1>5. U.candidate = state.highest /\ U.candidate \notin unhealthy
  BY <1>1, Facts DEF Transaction, Plain
<1>6. /\ Sound(install, releases', unhealthy) /\ Registered(configured, install, releases')
  BY <1>1, <1>4 DEF Sound, Registered, On
<1>7. Transaction(u, install, state, releases', configured, unhealthy, faults)
  BY <1>1, <1>3, <1>4, <1>5, <1>6
     DEF Transaction, Plain, Pending, Goal, Runs, NothingPending, Window
<1> QED
  BY <1>1, <1>2, <1>3, <1>4, <1>7, Facts, UpdaterMoves DEF IInv, TypeOK, service, bounds

LEMMA JournalKeeps ==
  ASSUME IInv, Journal
  PROVE  IInv'
<1>1. /\ U.pc = "prepared" /\ state' = Journaled
      /\ UNCHANGED <<service, desired, lease, stopped, unhealthy, commands>>
  BY DEF Journal, At, U
<1>2. /\ NothingPending /\ Sound(install, releases, unhealthy)
      /\ Registered(configured, install, releases)
      /\ configured \in {install.active, install.previous}
      /\ faults <= 1 => configured = install.active
      /\ U.candidate \in Published /\ Newer(U.candidate, install)
  BY <1>1, PlainFacts
<1>3. U.candidate = state.highest /\ U.candidate \notin unhealthy /\ U.candidate \in releases
  BY <1>1, Facts DEF Transaction, Plain
<1>4. PICK q : q = [from |-> state.active, to |-> U.candidate]
  OBVIOUS
<1>5. /\ q \in [from : Release, to : Published] /\ q # None
      /\ q.from = state.active /\ q.to = U.candidate
  BY <1>2, <1>4, Facts, RecordFields, SpecialValues
<1>6. /\ state' \in Record /\ state'.active = install.active
      /\ state'.previous = install.previous /\ state'.pending = q
      /\ state'.failed = install.failed /\ state'.highest = install.highest
  BY <1>1, <1>2, <1>4, <1>5, Facts, PendingFields DEF Journaled, NothingPending
<1>7. ASSUME NEW rs, Sound(install, rs, unhealthy), Registered(configured, install, rs)
      PROVE  Sound(state', rs, unhealthy) /\ Registered(configured, state', rs)
  <2>1. Newer(q.to, state')
    BY <1>2, <1>5, <1>6 DEF Newer
  <2>2. Remembers(state', unhealthy)
    BY <1>2, <1>6, <1>7 DEF Sound, Remembers, NothingPending
  <2>3. Sound(state', rs, unhealthy)
    BY <1>2, <1>3, <1>5, <1>6, <1>7, <2>1, <2>2 DEF Sound, NothingPending
  <2> QED BY <1>2, <1>6, <1>7, <2>3 DEF Registered
<1>8. CASE /\ install' = state'
           /\ task' = [task EXCEPT !["updater"].pc = "waiting", !["updater"].goal = "candidate",
                                   !["updater"].target = U.candidate]
           /\ UNCHANGED <<releases, lock, faults>>
  <2>1. PICK u : u = [U EXCEPT !.pc = "waiting", !.goal = "candidate", !.target = U.candidate]
    OBVIOUS
  <2>2. /\ u \in Task /\ u.pc = "waiting" /\ u.goal = "candidate"
        /\ u.target = U.candidate /\ u.candidate = U.candidate
    <3>1. /\ U \in Task /\ "waiting" \in Steps
          /\ "candidate" \in {None, "candidate", "rollback", "recovery"}
          /\ U.candidate \in {None} \cup Release
      BY <1>2, Facts DEF Steps, Release
    <3> QED BY <2>1, <3>1, TaskFields DEF Task
  <2>3. task' = [task EXCEPT !["updater"] = u]
    BY <1>8, <2>1, Facts
  <2>4. Moves("updater", u, "waiting", "candidate", U.candidate, U.candidate, u.permanent)
    BY <2>2, <2>3, Facts, TaskMoves
  <2>5. u.pc \notin Window
    BY <2>2 DEF Window
  <2>6. Sound(state', releases, unhealthy) /\ Registered(configured, state', releases)
    BY <1>2, <1>7
  <2>7. Transaction(u, install', state', releases, configured, unhealthy, faults)
    BY <1>2, <1>3, <1>5, <1>6, <1>8, <2>2, <2>5, <2>6
       DEF Transaction, Plain, Pending, Goal, Runs, Window
  <2> QED
    BY <1>1, <1>6, <1>8, <2>4, <2>5, <2>7, Facts, UpdaterMoves DEF IInv, TypeOK, service
<1>9. CASE WriteFails(state') /\ releases' = Removed(U.candidate.version) /\ Leave("updater")
  <2>1. install' \in {install, state'} /\ faults' \in Nat /\ faults' = faults + 1
    BY <1>9, FaultAdds DEF WriteFails
  <2>2. /\ Sound(install, releases', unhealthy) /\ Registered(configured, install, releases')
        /\ releases' \subseteq releases
        /\ \A m \in Menus : lease[m] \in releases => lease[m] \in releases'
    BY <1>2, <1>9, RemovedKeeps
  <2>3. Sound(install', releases', unhealthy) /\ Registered(configured, install', releases')
    BY <1>7, <2>1, <2>2
  <2>4. faults' <= 1 => configured = install'.active
    BY <1>2, <1>6, <2>1, Facts
  <2> QED BY <1>1, <1>6, <1>9, <2>1, <2>2, <2>3, <2>4, Facts, LeaveKeeps DEF service
<1> QED BY <1>8, <1>9 DEF Journal

-----------------------------------------------------------------------------
(* The maintenance window.                                                 *)

\* While an update or a recovery is pending.
LEMMA PendingFacts ==
  ASSUME IInv, U.pc \in Window \cup {"waiting", "abandoning"}
  PROVE  /\ U.pc # "idle"
         /\ state.pending # None /\ U.candidate = state.pending.to
         /\ state.pending.from = state.active /\ U.candidate = state.highest
         /\ U.candidate \in Published /\ state.active \in Release
         /\ Newer(U.candidate, state)
         /\ U.goal \in {"candidate", "rollback", "recovery"}
         /\ Sound(state, releases, unhealthy) /\ Sound(install, releases, unhealthy)
         /\ Registered(configured, install, releases)
         /\ Pending(U, install, state, releases, unhealthy, faults)
         /\ Goal(U, state, configured)
         /\ Runs(U, install, state, configured, faults)
<1>1. Transaction(U, install, state, releases, configured, unhealthy, faults)
  BY Facts
<1>2. U.pc # "idle"
  BY DEF Window
<1>3. /\ state.pending # None /\ U.candidate = state.pending.to
      /\ U.goal \in {"candidate", "rollback", "recovery"}
  BY <1>1 DEF Transaction, Pending
<1>4. U.candidate \in Published /\ state.active \in Release
  BY <1>3, Facts, RecordFields
<1>5. Sound(state, releases, unhealthy)
  BY <1>1, <1>2 DEF Transaction, Plain
<1> QED BY <1>1, <1>2, <1>3, <1>4, <1>5 DEF Transaction, Sound

LEMMA WindowMoves ==
  ASSUME IInv, U.pc \in Window, NEW pc \in Window, NEW u,
         Moves("updater", u, pc, U.goal, U.target, U.candidate, U.permanent),
         UNCHANGED <<install, state, releases, configured, unhealthy, desired, lease,
                     stopped, commands>>,
         lock' \in Locks, lock'["update"] = lock["update"],
         lock'["maintenance"] = lock["maintenance"],
         running' \in BOOLEAN, running' => running \/ desired,
         faults' \in Nat, faults' >= faults,
         Goal(u, state, configured)
  PROVE  IInv'
<1>1. u.pc = pc /\ u.pc # "idle"
  BY DEF Moves, Window
<1>2. Plain(u, install, state, releases, configured, unhealthy)
  BY <1>1, PendingFacts DEF Plain, Window
<1>3. Pending(u, install, state, releases, unhealthy, faults')
  BY <1>1, PendingFacts, Facts DEF Pending, Moves
<1>4. Runs(u, install, state, configured, faults')
  BY <1>1 DEF Runs, Window
<1>5. Transaction(u, install, state, releases, configured, unhealthy, faults')
  BY <1>2, <1>3, <1>4, PendingFacts DEF Transaction
<1>6. lock["update"] = "updater" /\ lock["maintenance"] = "updater"
  BY Facts DEF Window
<1> QED BY <1>1, <1>5, <1>6, Facts, UpdaterMoves DEF IInv, TypeOK

LEMMA RollBackKeeps ==
  ASSUME IInv, U.pc \in Window, NEW permanent \in BOOLEAN, NEW spare \in BOOLEAN,
         RollBack(permanent, spare),
         UNCHANGED <<state, releases, configured, desired, lease, stopped, commands>>,
         lock' \in Locks, lock'["update"] = lock["update"],
         lock'["maintenance"] = lock["maintenance"],
         running' \in BOOLEAN, running' => running,
         faults' \in Nat, faults' >= faults,
         unhealthy' \subseteq Published, install' \in Record,
         Sound(install', releases, unhealthy'), Sound(state, releases, unhealthy'),
         Registered(configured, install', releases),
         \/ install' = state
         \/ /\ install' = CommittedCopy(state, U.candidate) /\ ~permanent /\ faults' >= 1
            /\ U.candidate \in releases,
         permanent \/ U.candidate \notin unhealthy'
  PROVE  IInv'
<1>1. PICK u : Moves("updater", u, "unloading", "rollback", state.active, U.candidate, permanent)
  BY PendingFacts, Facts, RollBackMoves
<1>2. /\ u.pc = "unloading" /\ u.goal = "rollback" /\ u.target = state.active
      /\ u.candidate = U.candidate /\ u.permanent = permanent
  BY <1>1 DEF Moves
<1>3. Pending(u, install', state, releases, unhealthy', faults')
  BY <1>2, PendingFacts DEF Pending
<1>4. Plain(u, install', state, releases, configured, unhealthy')
  BY <1>2 DEF Plain
<1>5. Goal(u, state, configured) /\ Runs(u, install', state, configured, faults')
  BY <1>2 DEF Goal, Runs, Window
<1>6. Transaction(u, install', state, releases, configured, unhealthy', faults')
  BY <1>3, <1>4, <1>5 DEF Transaction
<1>7. lock["update"] = "updater" /\ lock["maintenance"] = "updater"
  BY Facts DEF Window
<1> QED BY <1>1, <1>2, <1>6, <1>7, Facts, UpdaterMoves DEF IInv, TypeOK

LEMMA AfterFailureKeeps ==
  ASSUME IInv, U.pc \in Window \ {"stuck", "committing", "rolledback", "recovered"}, AfterFailure,
         UNCHANGED <<install, state, releases, configured, unhealthy, desired, lease,
                     stopped, commands>>,
         lock' \in Locks, lock'["update"] = lock["update"],
         lock'["maintenance"] = lock["maintenance"],
         running' \in BOOLEAN, running' => running,
         faults' \in Nat, faults' >= faults
  PROVE  IInv'
<1>0. /\ Pending(U, install, state, releases, unhealthy, faults)
      /\ Sound(install, releases, unhealthy) /\ Sound(state, releases, unhealthy)
      /\ Registered(configured, install, releases)
      /\ install \in Record /\ unhealthy \subseteq Published
      /\ U.goal \in {"candidate", "rollback", "recovery"}
      /\ faults \in Nat
  BY PendingFacts, Facts DEF TypeOK
<1>1. CASE U.goal = "candidate"
  <2>1. RollBack(TRUE, FALSE)
    BY <1>1 DEF AfterFailure
  <2>2. install = state
    BY <1>0, <1>1 DEF Pending
  <2>3. PICK permanent \in BOOLEAN, spare \in BOOLEAN :
          permanent /\ RollBack(permanent, spare)
    BY <2>1
  <2> QED BY <1>0, <2>2, <2>3, RollBackKeeps
<1>2. CASE U.goal = "rollback" /\ U.spare
  <2>1. RollBack(U.permanent, FALSE)
    BY <1>2 DEF AfterFailure
  <2>2. PICK permanent \in BOOLEAN : permanent = U.permanent
    BY Facts, TaskFields
  <2>3. PICK spare \in BOOLEAN : RollBack(permanent, spare)
    BY <2>1, <2>2
  <2>4. /\ \/ install = state
           \/ /\ install = CommittedCopy(state, U.candidate) /\ ~permanent /\ faults' >= 1
              /\ U.candidate \in releases
        /\ permanent \/ U.candidate \notin unhealthy
    BY <1>0, <1>2, <2>2 DEF Pending
  <2> QED BY <1>0, <2>3, <2>4, RollBackKeeps
<1>3. CASE U.goal # "candidate" /\ ~(U.goal = "rollback" /\ U.spare)
  <2>1. Goto("updater", "stuck")
    BY <1>3 DEF AfterFailure
  <2>2. PICK u : Moves("updater", u, "stuck", U.goal, U.target, U.candidate, U.permanent)
    BY <2>1, Facts, GotoMoves DEF Steps, Window
  <2>3. Goal(u, state, configured)
    BY <1>3, <2>2 DEF Goal, Moves, Window
  <2> QED BY <2>2, <2>3, WindowMoves DEF Window
<1> QED BY <1>1, <1>2, <1>3

LEMMA TakeWindowKeeps ==
  ASSUME IInv, TakeWindow
  PROVE  IInv'
<1>1. /\ U.pc = "waiting" /\ Goto("updater", "unloading")
      /\ UNCHANGED <<files, service, desired, lease, stopped, unhealthy, bounds>>
  BY DEF TakeWindow, At, U
<1>2. lock' \in Locks /\ lock'["update"] = lock["update"] /\ lock'["maintenance"] = "updater"
  BY Facts DEF TakeWindow, WindowTaken, Locks
<1>3. PICK u : Moves("updater", u, "unloading", U.goal, U.target, U.candidate, U.permanent)
  BY <1>1, Facts, GotoMoves DEF Steps, Window
<1>4. /\ u.pc = "unloading" /\ u.goal = U.goal /\ u.target = U.target
      /\ u.candidate = U.candidate /\ u.permanent = U.permanent
  BY <1>3 DEF Moves
<1>5. Plain(u, install, state, releases, configured, unhealthy)
  BY <1>1, <1>4, PendingFacts DEF Plain
<1>6. Pending(u, install, state, releases, unhealthy, faults)
  BY <1>1, <1>4, PendingFacts DEF Pending
<1>7. Goal(u, state, configured) /\ Runs(u, install, state, configured, faults)
  BY <1>4 DEF Goal, Runs, Window
<1>8. Transaction(u, install, state, releases, configured, unhealthy, faults)
  BY <1>1, <1>5, <1>6, <1>7, PendingFacts DEF Transaction
<1> QED
  BY <1>1, <1>2, <1>3, <1>8, Facts, UpdaterMoves DEF IInv, TypeOK, files, service, bounds

LEMMA WindowBusyKeeps ==
  ASSUME IInv, WindowBusy
  PROVE  IInv'
<1>1. /\ U.pc = "waiting"
      /\ UNCHANGED <<files, service, desired, lease, stopped, unhealthy, bounds>>
  BY DEF WindowBusy, At, U
<1>2. UNCHANGED <<commands, faults>>
  BY <1>1 DEF bounds
<1>3. install = state
  BY <1>1, PendingFacts DEF Pending, Goal
<1>4. CASE U.goal = "recovery" /\ Leave("updater")
  BY <1>1, <1>2, <1>3, <1>4, PendingFacts, Facts, LeaveKeeps DEF files, service
<1>5. CASE U.goal = "candidate" /\ Goto("updater", "abandoning") /\ UNCHANGED lock
  <2>1. PICK u : Moves("updater", u, "abandoning", U.goal, U.target, U.candidate, U.permanent)
    BY <1>5, Facts, GotoMoves DEF Steps, Window
  <2>2. /\ u.pc = "abandoning" /\ u.goal = U.goal /\ u.target = U.target
        /\ u.candidate = U.candidate /\ u.permanent = U.permanent
        /\ u.pc \notin Window
    BY <2>1 DEF Moves, Window
  <2>3. Plain(u, install, state, releases, configured, unhealthy)
    BY <1>1, <2>2, PendingFacts DEF Plain
  <2>4. Pending(u, install, state, releases, unhealthy, faults')
    BY <1>1, <1>2, <1>5, <2>2, PendingFacts DEF Pending
  <2>5. Goal(u, state, configured)
    BY <1>1, <1>5, <2>2, PendingFacts DEF Goal, Window
  <2>6. Runs(u, install, state, configured, faults')
    <3>1. Runs(U, install, state, configured, faults)
      BY <1>1, PendingFacts
    <3> QED BY <1>1, <1>2, <1>3, <1>5, <2>2, <3>1, PendingFacts DEF Runs
  <2>7. Transaction(u, install, state, releases, configured, unhealthy, faults')
    BY <1>1, <2>3, <2>4, <2>5, <2>6, PendingFacts DEF Transaction
  <2> QED
    BY <1>1, <1>2, <1>5, <2>1, <2>2, <2>7, Facts, UpdaterMoves
       DEF IInv, TypeOK, files, service
<1> QED BY <1>4, <1>5 DEF WindowBusy

\* The journal is closed: with the mark, or while the candidate is healthy.
LEMMA ClosedIsSound ==
  ASSUME IInv, U.pc \in Window \cup {"waiting", "abandoning"}, NEW mark,
         mark \/ U.candidate \notin unhealthy
  PROVE  /\ Closed(state, mark) \in Record
         /\ Closed(state, mark).active = state.active
         /\ Closed(state, mark).previous = state.previous
         /\ Closed(state, mark).pending = None
         /\ Sound(Closed(state, mark), releases, unhealthy)
<1>1. PICK c : c = Closed(state, mark)
  OBVIOUS
<1>2. /\ c \in Record /\ c.active = state.active /\ c.previous = state.previous
      /\ c.pending = None /\ c.highest = state.highest
      /\ mark => c.failed = state.pending.to
  BY <1>1, PendingFacts, Facts, ClosedFields
<1>3. Remembers(c, unhealthy)
  <2> SUFFICES ASSUME NEW r \in unhealthy
               PROVE  /\ c.highest # None /\ r.seq <= c.highest.seq
                      /\ r = c.highest => c.failed = r
    BY DEF Remembers
  <2>1. state.highest # None /\ r.seq <= state.highest.seq
    BY PendingFacts DEF Sound, Remembers
  <2> QED BY <1>2, <2>1, PendingFacts
<1>4. Sound(c, releases, unhealthy)
  BY <1>2, <1>3, PendingFacts DEF Sound
<1> QED BY <1>1, <1>2, <1>4

\* The copy closed without a mark, as Abandon writes it.
LEMMA AbandonedFields ==
  ASSUME IInv, U.pc = "abandoning"
  PROVE  /\ [state EXCEPT !.pending = None] \in Record
         /\ [state EXCEPT !.pending = None].active = state.active
         /\ [state EXCEPT !.pending = None].previous = state.previous
         /\ [state EXCEPT !.pending = None].pending = None
         /\ Sound([state EXCEPT !.pending = None], releases, unhealthy)
<1>1. PICK c : c = [state EXCEPT !.pending = None]
  OBVIOUS
<1>2. /\ c \in Record /\ c.active = state.active /\ c.previous = state.previous
      /\ c.pending = None /\ c.highest = state.highest
  BY <1>1, Facts, PendingFields
<1>3. U.candidate \notin unhealthy
  BY PendingFacts DEF Pending, Goal
<1>4. Remembers(c, unhealthy)
  <2> SUFFICES ASSUME NEW r \in unhealthy
               PROVE  c.highest # None /\ r.seq <= c.highest.seq /\ r # c.highest
    BY DEF Remembers
  <2>1. state.highest # None /\ r.seq <= state.highest.seq
    BY PendingFacts DEF Sound, Remembers
  <2> QED BY <1>2, <1>3, <2>1, PendingFacts
<1>5. Sound(c, releases, unhealthy)
  BY <1>2, <1>4, PendingFacts DEF Sound
<1> QED BY <1>1, <1>2, <1>5

LEMMA AbandonKeeps ==
  ASSUME IInv, Abandon
  PROVE  IInv'
<1>1. /\ U.pc = "abandoning"
      /\ Save([state EXCEPT !.pending = None], "removing")
      /\ UNCHANGED <<releases, lock, service, desired, lease, stopped, unhealthy, commands>>
  BY DEF Abandon, At, U
<1>2. /\ state' \in Record /\ state'.active = state.active
      /\ state'.previous = state.previous /\ state'.pending = None
      /\ Sound(state', releases, unhealthy)
      /\ state' = [state EXCEPT !.pending = None]
  BY <1>1, AbandonedFields DEF Save
<1>3. /\ install = state /\ configured \in {state.active, state.previous}
      /\ faults <= 1 => configured = state.active
  BY <1>1, PendingFacts DEF Pending, Goal, Runs
<1>4. \A i \in {install, state'} :
        /\ Sound(i, releases, unhealthy) /\ Registered(configured, i, releases)
        /\ i.active = state.active /\ i.previous = state.previous /\ i \in Record
  BY <1>1, <1>2, <1>3, PendingFacts, Facts DEF Registered
<1>5. CASE install' = state' /\ Goto("updater", "removing") /\ UNCHANGED faults
  <2>1. PICK u : Moves("updater", u, "removing", U.goal, U.target, U.candidate, U.permanent)
    BY <1>5, Facts, GotoMoves DEF Steps
  <2>2. u.pc = "removing" /\ u.candidate = U.candidate /\ u.pc \notin Window
    BY <2>1 DEF Moves, Window
  <2>3. Newer(U.candidate, state')
    BY <1>1, <1>2, PendingFacts DEF Newer
  <2>4. Transaction(u, install', state', releases, configured, unhealthy, faults)
    BY <1>1, <1>2, <1>3, <1>4, <1>5, <2>2, <2>3, PendingFacts
       DEF Transaction, Plain, Pending, Goal, Runs, Window
  <2> QED
    BY <1>1, <1>2, <1>5, <2>1, <2>2, <2>4, PendingFacts, Facts, UpdaterMoves
       DEF IInv, TypeOK, service
<1>6. CASE WriteFails(state') /\ Goto("updater", "rewriting")
  <2>1. PICK u : Moves("updater", u, "rewriting", U.goal, U.target, U.candidate, U.permanent)
    BY <1>6, Facts, GotoMoves DEF Steps
  <2>2. u.pc = "rewriting" /\ u.pc \notin Window
    BY <2>1 DEF Moves, Window
  <2>3. install' \in {install, state'} /\ faults' \in Nat /\ faults' >= faults
    BY <1>6, FaultAdds DEF WriteFails
  <2>4. faults' <= 1 => configured = state.active
    BY <1>3, <2>3, Facts
  <2>5. Transaction(u, install', state', releases, configured, unhealthy, faults')
    BY <1>2, <1>3, <1>4, <2>2, <2>3, <2>4
       DEF Transaction, Plain, Pending, Goal, Runs, Window
  <2> QED
    BY <1>1, <1>2, <1>4, <2>1, <2>2, <2>3, <2>5, PendingFacts, Facts, UpdaterMoves
       DEF IInv, TypeOK, service
<1> QED BY <1>1, <1>5, <1>6 DEF Save

LEMMA RewriteKeeps ==
  ASSUME IInv, Rewrite
  PROVE  IInv'
<1>1. /\ U.pc = "rewriting" /\ Leave("updater")
      /\ UNCHANGED <<state, releases, service, desired, lease, stopped, unhealthy, commands>>
  BY DEF Rewrite, At, U
<1>2. install' \in {install, state} /\ faults' \in Nat /\ faults' >= faults
  BY FaultAdds, Facts DEF Rewrite, WriteFails
<1>3. /\ Sound(state, releases, unhealthy) /\ Sound(install, releases, unhealthy)
      /\ state.pending = None
      /\ install.active = state.active /\ install.previous = state.previous
      /\ configured \in {state.active, state.previous}
      /\ Registered(configured, install, releases)
      /\ faults <= 1 => configured = state.active
  BY <1>1, Facts DEF Transaction, Plain, Runs
<1>4. Sound(install', releases, unhealthy) /\ Registered(configured, install', releases)
  BY <1>2, <1>3 DEF Registered
<1>5. faults' <= 1 => configured = install'.active
  BY <1>2, <1>3, Facts
<1> QED BY <1>1, <1>2, <1>4, <1>5, Facts, LeaveKeeps DEF service

LEMMA UnloadKeeps ==
  ASSUME IInv, Unload("updater")
  PROVE  IInv'
<1>1. /\ U.pc = "unloading" /\ Goto("updater", "loading")
      /\ running' = FALSE /\ configured' = U.target
      /\ UNCHANGED <<files, desired, lease, stopped, unhealthy, bounds>>
  BY DEF Unload, At, U
<1>2. /\ lock' \in Locks /\ lock'["update"] = lock["update"]
      /\ lock'["maintenance"] = lock["maintenance"]
      /\ lock["update"] = "updater" /\ lock["maintenance"] = "updater"
  <2>1. lock["update"] = "updater" /\ lock["maintenance"] = "updater" /\ lock \in Locks
    BY <1>1, Facts DEF Window
  <2> QED BY <2>1 DEF Unload, Locks
<1>3. PICK u : Moves("updater", u, "loading", U.goal, U.target, U.candidate, U.permanent)
  BY <1>1, Facts, GotoMoves DEF Steps, Window
<1>4. /\ u.pc = "loading" /\ u.goal = U.goal /\ u.target = U.target
      /\ u.candidate = U.candidate /\ u.permanent = U.permanent
  BY <1>3 DEF Moves
<1>5. /\ Pending(U, install, state, releases, unhealthy, faults)
      /\ state.pending # None /\ U.candidate = state.pending.to
      /\ Sound(state, releases, unhealthy) /\ Sound(install, releases, unhealthy)
      /\ U.candidate \in Published /\ state.active \in Release
      /\ U.goal \in {"candidate", "rollback", "recovery"}
  BY <1>1, PendingFacts DEF Window
<1>6. Registered(U.target, install, releases) /\ U.target \in Release
  <2>1. CASE U.goal = "candidate"
    BY <1>1, <1>5, <2>1 DEF Pending, Registered, On, Window, Release
  <2>2. CASE U.goal = "recovery"
    BY <1>1, <1>5, <2>2 DEF Pending, Registered, Sound, Window
  <2>3. CASE U.goal = "rollback"
    <3>1. U.target = state.active
      BY <1>1, <1>5, <2>3 DEF Pending, Window
    <3>2. CASE install = state
      BY <1>5, <3>1, <3>2 DEF Registered, Sound
    <3>3. CASE install = CommittedCopy(state, U.candidate)
      <4>1. install.previous = state.active
        BY <1>5, <3>3, Facts, CommittedFields
      <4> QED BY <1>5, <3>1, <4>1 DEF Registered, Sound
    <3> QED BY <1>1, <1>5, <2>3, <3>2, <3>3 DEF Pending, Window
  <2> QED BY <1>5, <2>1, <2>2, <2>3
<1>7. Plain(u, install, state, releases, U.target, unhealthy)
  BY <1>4, <1>5 DEF Plain
<1>8. Pending(u, install, state, releases, unhealthy, faults)
  BY <1>1, <1>4, <1>5 DEF Pending, Window
<1>9. Goal(u, state, U.target) /\ Runs(u, install, state, U.target, faults)
  BY <1>4 DEF Goal, Runs, Window
<1>10. Transaction(u, install, state, releases, U.target, unhealthy, faults)
  BY <1>5, <1>6, <1>7, <1>8, <1>9 DEF Transaction
<1> QED
  BY <1>1, <1>2, <1>3, <1>6, <1>10, Facts, UpdaterMoves DEF IInv, TypeOK, files, bounds

LEMMA LoadKeeps ==
  ASSUME IInv, Load("updater")
  PROVE  IInv'
<1>1. /\ U.pc = "loading" /\ Goto("updater", "rechecking") /\ running' = desired
      /\ UNCHANGED <<files, lock, configured, desired, lease, stopped, unhealthy, bounds>>
  BY DEF Load, At, U, MayRun
<1>2. PICK u : Moves("updater", u, "rechecking", U.goal, U.target, U.candidate, U.permanent)
  BY <1>1, Facts, GotoMoves DEF Steps, Window
<1>3. Goal(u, state, configured)
  BY <1>1, <1>2, PendingFacts DEF Goal, Moves, Window
<1> QED
  BY <1>1, <1>2, <1>3, Facts, WindowMoves DEF IInv, TypeOK, files, bounds, Window

\* To observe: a record of its own, for it counts.
LEMMA ObservingMoves ==
  ASSUME IInv, U.pc \in Window, NEW pc \in {"observing", "judging"}, NEW looks \in Nat,
         NEW observed \in BOOLEAN,
         NEW u, u = [U EXCEPT !.pc = pc, !.observed = observed, !.looks = looks],
         task' = [task EXCEPT !["updater"] = u]
  PROVE  Moves("updater", u, pc, U.goal, U.target, U.candidate, U.permanent)
<1>1. U \in Task /\ pc \in Steps
  BY Facts DEF Steps, Window
<1>2. u \in Task
  BY <1>1, TaskFields DEF Task
<1>3. /\ u.pc = pc /\ u.goal = U.goal /\ u.target = U.target
      /\ u.candidate = U.candidate /\ u.permanent = U.permanent
  BY <1>1 DEF Task
<1> QED BY <1>2, <1>3, Facts, TaskMoves

LEMMA RecheckKeeps ==
  ASSUME IInv, Recheck("updater")
  PROVE  IInv'
<1>1. /\ U.pc = "rechecking" /\ running' = (running /\ desired)
      /\ task' = [task EXCEPT !["updater"].pc = "observing", !["updater"].looks = 0]
      /\ lock' = [lock EXCEPT !["control"] = None]
      /\ UNCHANGED <<files, configured, desired, lease, stopped, unhealthy, bounds>>
  BY DEF Recheck, At, U, MayRun
<1>2. U \in Task /\ task \in [Workers -> Task] /\ U = task["updater"]
  BY Facts DEF TypeOK
<1>3. PICK u : u = [U EXCEPT !.pc = "observing", !.looks = 0]
  OBVIOUS
<1>4. task' = [task EXCEPT !["updater"] = u]
  BY <1>1, <1>2, <1>3
<1>5. u \in Task
  <2>1. "observing" \in Steps /\ 0 \in Nat
    BY DEF Steps, Window
  <2> QED BY <1>2, <1>3, <2>1, TaskFields DEF Task
<1>6. /\ u.pc = "observing" /\ u.goal = U.goal /\ u.target = U.target
      /\ u.candidate = U.candidate /\ u.permanent = U.permanent
  BY <1>2, <1>3 DEF Task
<1>7. Moves("updater", u, "observing", U.goal, U.target, U.candidate, U.permanent)
  BY <1>4, <1>5, <1>6, Facts, TaskMoves
<1>8. Goal(u, state, configured)
  BY <1>1, <1>6, PendingFacts DEF Goal, Window
<1>9. /\ lock' \in Locks /\ lock'["update"] = lock["update"]
      /\ lock'["maintenance"] = lock["maintenance"]
  BY <1>1, Facts DEF Locks
<1>10. running' \in BOOLEAN /\ (running' => running)
  BY <1>1
<1>11. /\ UNCHANGED <<install, state, releases, configured, unhealthy, desired, lease,
                       stopped, commands>>
       /\ faults' \in Nat /\ faults' >= faults /\ U.pc \in Window /\ "observing" \in Window
  BY <1>1, Facts DEF files, bounds, Window
<1> QED
  BY <1>7, <1>8, <1>9, <1>10, <1>11, WindowMoves

LEMMA ActivationFailsKeeps ==
  ASSUME IInv, ActivationFails("updater")
  PROVE  IInv'
<1>1. /\ U.pc \in {"unloading", "loading", "rechecking"} /\ Fault
      /\ running' \in {running, FALSE} /\ AfterFailure
      /\ lock' = [lock EXCEPT !["control"] = IF @ = "updater" THEN None ELSE @]
      /\ UNCHANGED <<files, configured, desired, lease, stopped, unhealthy, commands>>
  BY DEF ActivationFails, U
<1>2. /\ lock' \in Locks /\ lock'["update"] = lock["update"]
      /\ lock'["maintenance"] = lock["maintenance"]
  BY <1>1, Facts DEF Locks
<1>3. running' \in BOOLEAN /\ (running' => running)
  <2>1. running \in BOOLEAN
    BY Facts DEF TypeOK
  <2>2. running' = running \/ running' = FALSE
    BY <1>1
  <2>3. CASE running' = running
    BY <2>1, <2>3
  <2>4. CASE running' = FALSE
    BY <2>4
  <2> QED BY <2>2, <2>3, <2>4
<1> QED BY <1>1, <1>2, <1>3, FaultAdds, AfterFailureKeeps DEF files, Window

LEMMA ObserveKeeps ==
  ASSUME IInv, Observe
  PROVE  IInv'
<1>1. /\ U.pc = "observing"
      /\ task' = [task EXCEPT !["updater"].pc = "judging", !["updater"].observed = running,
                              !["updater"].looks = @ + 1]
      /\ UNCHANGED <<files, lock, service, desired, lease, stopped, unhealthy, bounds>>
  BY DEF Observe, At, U
<1>2. U \in Task /\ task \in [Workers -> Task] /\ U = task["updater"] /\ running \in BOOLEAN
  BY Facts DEF TypeOK
<1>3. PICK u : u = [U EXCEPT !.pc = "judging", !.observed = running, !.looks = U.looks + 1]
  OBVIOUS
<1>4. task' = [task EXCEPT !["updater"] = u]
  BY <1>1, <1>2, <1>3
<1>5. PICK observed \in BOOLEAN : observed = running
  BY <1>2
<1>6. PICK looks \in Nat : looks = U.looks + 1
  BY <1>2, TaskFields
<1>7. u = [U EXCEPT !.pc = "judging", !.observed = observed, !.looks = looks]
  BY <1>3, <1>5, <1>6
<1>8. PICK pc \in {"observing", "judging"} : pc = "judging"
  OBVIOUS
<1>9. Moves("updater", u, "judging", U.goal, U.target, U.candidate, U.permanent)
  BY <1>1, <1>4, <1>7, <1>8, ObservingMoves DEF Window
<1>10. Goal(u, state, configured)
  BY <1>1, <1>9, PendingFacts DEF Goal, Moves, Window
<1> QED
  BY <1>1, <1>2, <1>9, <1>10, Facts, WindowMoves DEF files, service, bounds, Window

LEMMA HealthTimesOutKeeps ==
  ASSUME IInv, HealthTimesOut
  PROVE  IInv'
BY FaultAdds, Facts, AfterFailureKeeps DEF HealthTimesOut, TypeOK, files, service, Window

LEMMA JudgeKeeps ==
  ASSUME IInv, Judge
  PROVE  IInv'
<1>1. /\ U.pc = "judging"
      /\ UNCHANGED <<files, lock, service, desired, lease, stopped, bounds>>
  BY DEF Judge, At, U
<1>2. /\ configured = U.target
      /\ Pending(U, install, state, releases, unhealthy, faults)
      /\ Sound(install, releases, unhealthy) /\ Sound(state, releases, unhealthy)
      /\ Registered(configured, install, releases)
      /\ U.goal \in {"candidate", "rollback", "recovery"}
      /\ U.candidate = state.highest /\ U.candidate \in Published
      /\ state.pending # None /\ U.candidate = state.pending.to
  BY <1>1, PendingFacts DEF Goal, Window
<1>3. ASSUME NEW pc \in {"observing", "committing", "rolledback", "recovered", "stuck"},
             Goto("updater", pc), unhealthy' = unhealthy,
             pc = "committing" => U.goal = "candidate",
             pc = "rolledback" => U.goal = "rollback",
             pc = "recovered" => U.goal = "recovery",
             pc = "stuck" => U.goal # "candidate"
      PROVE  IInv'
  <2>1. PICK u : Moves("updater", u, pc, U.goal, U.target, U.candidate, U.permanent)
    BY <1>3, Facts, GotoMoves DEF Steps, Window
  <2>2. Goal(u, state, configured)
    BY <1>2, <1>3, <2>1 DEF Goal, Moves, Window
  <2>3. pc \in Window
    BY <1>3 DEF Window
  <2> QED
    BY <1>1, <1>3, <2>1, <2>2, <2>3, Facts, WindowMoves
       DEF TypeOK, files, service, bounds, Window
<1>4. CASE ~Healthy /\ Goto("updater", "observing") /\ UNCHANGED unhealthy
  BY <1>3, <1>4
<1>5. CASE /\ AfterHealthy(Healthy)
           /\ unhealthy' = IF Healthy \/ U.goal # "candidate" THEN unhealthy
                                                          ELSE unhealthy \cup {U.target}
  <2>1. CASE U.goal = "candidate" /\ ~Healthy
    <3>1. RollBack(TRUE, TRUE)
      BY <1>5, <2>1 DEF AfterHealthy
    <3>2. PICK permanent \in BOOLEAN, spare \in BOOLEAN :
            permanent /\ RollBack(permanent, spare)
      BY <3>1
    <3>3. install = state /\ U.target = U.candidate
      BY <1>1, <1>2, <2>1 DEF Pending, Window
    <3>4. unhealthy' = unhealthy \cup {U.candidate}
      BY <1>5, <2>1, <3>3
    <3>5. unhealthy' \subseteq Published
      BY <1>2, <3>4, Facts DEF TypeOK
    <3>6. Remembers(state, unhealthy')
      <4> SUFFICES ASSUME NEW r \in unhealthy'
                   PROVE  /\ state.highest # None /\ r.seq <= state.highest.seq
                          /\ r = state.highest =>
                               state.failed = r \/ (state.pending # None /\ state.pending.to = r)
        BY DEF Remembers
      <4>1. CASE r = U.candidate
        BY <1>2, <4>1, SpecialValues
      <4>2. CASE r \in unhealthy
        BY <1>2, <4>2 DEF Sound, Remembers
      <4> QED BY <3>4, <4>1, <4>2
    <3>7. Sound(state, releases, unhealthy')
      BY <1>2, <3>6 DEF Sound
    <3>8. /\ UNCHANGED <<install, state, releases, configured, desired, lease, stopped,
                        commands, lock, running, faults>>
          /\ U.pc \in Window /\ lock \in Locks /\ running \in BOOLEAN /\ install \in Record
          /\ faults \in Nat
      BY <1>1, Facts DEF TypeOK, files, service, bounds, Window
    <3>9. Sound(install', releases, unhealthy') /\ Registered(configured, install', releases)
      BY <1>2, <3>3, <3>7, <3>8
    <3>10. /\ install' \in Record /\ install' = state /\ faults' \in Nat /\ faults' >= faults
      BY <3>3, <3>8
    <3> QED
      BY <3>2, <3>5, <3>7, <3>8, <3>9, <3>10, RollBackKeeps
  <2>2. CASE U.goal = "candidate" /\ Healthy
    <3>1. Goto("updater", "committing") /\ unhealthy' = unhealthy
      BY <1>5, <2>2 DEF AfterHealthy
    <3> QED BY <1>3, <2>2, <3>1
  <2>3. CASE U.goal = "rollback" /\ Healthy
    <3>1. Goto("updater", "rolledback") /\ unhealthy' = unhealthy
      BY <1>5, <2>3 DEF AfterHealthy
    <3> QED BY <1>3, <2>3, <3>1
  <2>4. CASE U.goal = "recovery" /\ Healthy
    <3>1. Goto("updater", "recovered") /\ unhealthy' = unhealthy
      BY <1>5, <2>4 DEF AfterHealthy
    <3> QED BY <1>3, <2>4, <3>1
  <2>5. CASE U.goal # "candidate" /\ ~Healthy
    <3>1. Goto("updater", "stuck") /\ unhealthy' = unhealthy
      BY <1>5, <2>5 DEF AfterHealthy
    <3> QED BY <1>3, <2>5, <3>1
  <2> QED BY <1>2, <2>1, <2>2, <2>3, <2>4, <2>5
<1> QED BY <1>4, <1>5 DEF Judge

\* A commit installs a healthy candidate that is newer than what it replaces.
LEMMA CommittedIsSound ==
  ASSUME IInv, U.pc = "committing"
  PROVE  /\ CommittedCopy(state, U.candidate) \in Record
         /\ CommittedCopy(state, U.candidate).active = configured
         /\ CommittedCopy(state, U.candidate).pending = None
         /\ Sound(CommittedCopy(state, U.candidate), releases, unhealthy)
         /\ Registered(configured, CommittedCopy(state, U.candidate), releases)
         /\ install = state /\ U.candidate \in releases /\ U.candidate \notin unhealthy
<1>1. /\ configured = U.target /\ U.target = U.candidate /\ install = state
      /\ U.candidate \in releases /\ U.candidate \notin unhealthy
      /\ Sound(state, releases, unhealthy)
      /\ U.candidate = state.highest /\ U.candidate \in Published
      /\ Newer(U.candidate, state)
  BY PendingFacts DEF Goal, Pending, Window
<1>2. PICK c : c = CommittedCopy(state, U.candidate)
  OBVIOUS
<1>3. /\ c \in Record /\ c.active = U.candidate /\ c.previous = state.active
      /\ c.pending = None /\ c.highest = U.candidate
  BY <1>1, <1>2, Facts, CommittedFields
<1>4. Remembers(c, unhealthy)
  <2> SUFFICES ASSUME NEW r \in unhealthy
               PROVE  c.highest # None /\ r.seq <= c.highest.seq /\ r # c.highest
    BY DEF Remembers
  <2>1. state.highest # None /\ r.seq <= state.highest.seq
    BY <1>1 DEF Sound, Remembers
  <2> QED BY <1>1, <1>3, <2>1
<1>5. Sound(c, releases, unhealthy)
  <2>1. c.active # Baseline
    BY <1>1, <1>3, SpecialValues
  <2>2. c.previous # Baseline => c.previous.version < c.active.version
    BY <1>1, <1>3 DEF Newer
  <2> QED BY <1>1, <1>3, <1>4, <2>1, <2>2 DEF Sound, On
<1>6. Registered(configured, c, releases)
  BY <1>1, <1>3 DEF Registered, On
<1> QED BY <1>1, <1>2, <1>3, <1>5, <1>6

LEMMA CommitKeeps ==
  ASSUME IInv, Commit
  PROVE  IInv'
<1>1. /\ U.pc = "committing"
      /\ UNCHANGED <<releases, service, desired, lease, stopped, unhealthy, commands>>
  BY DEF Commit, At, U
<1>2. PICK c : c = CommittedCopy(state, U.candidate) /\ c = Committed
  BY DEF CommittedCopy, Committed
<1>3. /\ c \in Record /\ c.active = configured /\ c.pending = None
      /\ Sound(c, releases, unhealthy) /\ Registered(configured, c, releases)
      /\ install = state /\ U.candidate \in releases /\ U.candidate \notin unhealthy
  BY <1>1, <1>2, CommittedIsSound
<1>4. CASE /\ install' = Committed /\ state' = Committed
           /\ Goto("updater", "cleaning") /\ CloseWindow /\ UNCHANGED faults
  <2>1. PICK u : Moves("updater", u, "cleaning", U.goal, U.target, U.candidate, U.permanent)
    BY <1>4, Facts, GotoMoves DEF Steps
  <2>2. u.pc = "cleaning" /\ u.pc \notin Window
    BY <2>1 DEF Moves, Window
  <2>3. Transaction(u, c, c, releases, configured, unhealthy, faults)
    BY <1>3, <2>2 DEF Transaction, Plain, Pending, Goal, Runs, Window
  <2>4. lock["update"] = "updater" /\ lock' \in Locks /\ lock'["update"] = "updater"
    BY <1>1, <1>4, Facts DEF CloseWindow, Locks
  <2> QED
    BY <1>1, <1>2, <1>3, <1>4, <2>1, <2>2, <2>3, <2>4, Facts, UpdaterMoves
       DEF TypeOK, service
<1>5. CASE WriteFails(Committed) /\ RollBack(FALSE, FALSE) /\ UNCHANGED <<state, lock>>
  <2>1. install' \in {state, c} /\ faults' \in Nat /\ faults' = faults + 1
    BY <1>2, <1>3, <1>5, FaultAdds DEF WriteFails
  <2>2. PICK permanent \in BOOLEAN, spare \in BOOLEAN :
          ~permanent /\ RollBack(permanent, spare)
    BY <1>5
  <2>3. /\ Sound(install', releases, unhealthy) /\ Registered(configured, install', releases)
        /\ install' \in Record /\ Sound(state, releases, unhealthy)
    BY <1>1, <1>3, <2>1, PendingFacts, Facts DEF Window
  <2>4. \/ install' = state
        \/ /\ install' = CommittedCopy(state, U.candidate) /\ ~permanent /\ faults' >= 1
           /\ U.candidate \in releases
    BY <1>2, <1>3, <2>1, <2>2, Facts
  <2>5. /\ unhealthy' \subseteq Published /\ running' \in BOOLEAN /\ lock' \in Locks
        /\ UNCHANGED <<state, releases, configured, desired, lease, stopped, commands, lock,
                       running, unhealthy>>
        /\ U.pc \in Window /\ faults' >= faults
    BY <1>1, <1>5, <2>1, Facts DEF TypeOK, service, Window
  <2> QED BY <1>3, <2>1, <2>2, <2>3, <2>4, <2>5, RollBackKeeps
<1> QED BY <1>4, <1>5 DEF Commit

LEMMA RestoredIsClosed ==
  ASSUME NEW mark
  PROVE  Restored(mark) = Closed(state, mark)
BY DEF Restored, Closed

LEMMA RolledBackKeeps ==
  ASSUME IInv, RolledBack
  PROVE  IInv'
<1>1. /\ U.pc = "rolledback"
      /\ UNCHANGED <<releases, service, desired, lease, stopped, unhealthy, commands>>
  BY DEF RolledBack, At, U
<1>2. /\ configured = state.active /\ U.goal = "rollback"
      /\ Pending(U, install, state, releases, unhealthy, faults)
      /\ Sound(state, releases, unhealthy) /\ Sound(install, releases, unhealthy)
      /\ Registered(configured, install, releases)
      /\ state.pending # None
      /\ U.permanent \/ U.candidate \notin unhealthy
      /\ install = state \/ faults >= 1
  BY <1>1, PendingFacts DEF Goal, Pending, Window
<1>3. PICK c : c = Restored(U.permanent)
  OBVIOUS
<1>4. /\ c \in Record /\ c.active = state.active /\ c.previous = state.previous
      /\ c.pending = None /\ Sound(c, releases, unhealthy)
  BY <1>1, <1>2, <1>3, RestoredIsClosed, ClosedIsSound DEF Window
<1>5. Registered(configured, c, releases)
  BY <1>2, <1>4 DEF Registered, Sound
<1>6. CASE /\ state' = Restored(U.permanent) /\ install' = state'
           /\ Goto("updater", "cleaning") /\ CloseWindow /\ UNCHANGED faults
  <2>1. PICK u : Moves("updater", u, "cleaning", U.goal, U.target, U.candidate, U.permanent)
    BY <1>6, Facts, GotoMoves DEF Steps
  <2>2. u.pc = "cleaning" /\ u.pc \notin Window
    BY <2>1 DEF Moves, Window
  <2>3. Transaction(u, c, c, releases, configured, unhealthy, faults)
    BY <1>2, <1>4, <1>5, <2>2 DEF Transaction, Plain, Pending, Goal, Runs, Window
  <2>4. lock["update"] = "updater" /\ lock' \in Locks /\ lock'["update"] = "updater"
    BY <1>1, <1>6, Facts DEF CloseWindow, Locks
  <2> QED
    BY <1>1, <1>3, <1>4, <1>6, <2>1, <2>2, <2>3, <2>4, Facts, UpdaterMoves
       DEF TypeOK, service
<1>7. CASE WriteFails(Restored(U.permanent)) /\ Leave("updater") /\ UNCHANGED state
  <2>1. install' \in {install, c} /\ faults' \in Nat /\ faults' = faults + 1
    BY <1>3, <1>7, FaultAdds DEF WriteFails
  <2>2. Sound(install', releases, unhealthy) /\ Registered(configured, install', releases)
    BY <1>2, <1>4, <1>5, <2>1
  <2>3. faults' <= 1 /\ install'.pending = None => configured = install'.active
    BY <1>2, <1>4, <2>1, Facts
  <2>4. U.pc # "idle" /\ install' \in Record /\ state' \in Record
    BY <1>1, <1>4, <1>7, <2>1, Facts
  <2>5. /\ UNCHANGED <<desired, lease, stopped, commands, configured, running, unhealthy,
                       releases>>
        /\ releases' \subseteq Published
    BY <1>1, Facts DEF service
  <2> QED BY <1>7, <2>1, <2>2, <2>3, <2>4, <2>5, LeaveKeeps
<1> QED BY <1>6, <1>7 DEF RolledBack

LEMMA RecoveredKeeps ==
  ASSUME IInv, Recovered
  PROVE  IInv'
<1>1. /\ U.pc = "recovered" /\ Save(Restored(TRUE), "cleaning") /\ CloseWindow
      /\ UNCHANGED <<releases, service, desired, lease, stopped, unhealthy, commands>>
  BY DEF Recovered, At, U
<1>2. /\ configured = state.active /\ U.goal = "recovery" /\ install = state
      /\ Sound(state, releases, unhealthy) /\ state.pending # None
      /\ Registered(configured, install, releases)
  BY <1>1, PendingFacts DEF Goal, Pending, Window
<1>3. PICK c : c = Restored(TRUE)
  OBVIOUS
<1>4. /\ c \in Record /\ c.active = state.active /\ c.previous = state.previous
      /\ c.pending = None /\ Sound(c, releases, unhealthy)
  <2>1. PICK mark : mark /\ c = Restored(mark)
    BY <1>3
  <2> QED BY <1>1, <1>2, <2>1, RestoredIsClosed, ClosedIsSound DEF Window
<1>5. Registered(configured, c, releases)
  BY <1>2, <1>4 DEF Registered, Sound
<1>6. lock["update"] = "updater" /\ lock' \in Locks /\ lock'["update"] = "updater"
  BY <1>1, Facts DEF CloseWindow, Locks
<1>7. state' = c
  BY <1>1, <1>3 DEF Save
<1>8. CASE install' = c /\ Goto("updater", "cleaning") /\ UNCHANGED faults
  <2>1. PICK u : Moves("updater", u, "cleaning", U.goal, U.target, U.candidate, U.permanent)
    BY <1>8, Facts, GotoMoves DEF Steps
  <2>2. u.pc = "cleaning" /\ u.pc \notin Window
    BY <2>1 DEF Moves, Window
  <2>3. Transaction(u, c, c, releases, configured, unhealthy, faults)
    BY <1>2, <1>4, <1>5, <2>2 DEF Transaction, Plain, Pending, Goal, Runs, Window
  <2> QED
    BY <1>1, <1>4, <1>6, <1>7, <1>8, <2>1, <2>2, <2>3, Facts, UpdaterMoves
       DEF TypeOK, service
<1>9. CASE WriteFails(c) /\ Goto("updater", "rewriting")
  <2>1. PICK u : Moves("updater", u, "rewriting", U.goal, U.target, U.candidate, U.permanent)
    BY <1>9, Facts, GotoMoves DEF Steps
  <2>2. u.pc = "rewriting" /\ u.pc \notin Window
    BY <2>1 DEF Moves, Window
  <2>3. install' \in {state, c} /\ faults' \in Nat
    BY <1>2, <1>9, FaultAdds DEF WriteFails
  <2>4. Sound(install', releases, unhealthy) /\ Registered(configured, install', releases)
    BY <1>2, <1>4, <1>5, <2>3
  <2>5. Transaction(u, install', c, releases, configured, unhealthy, faults')
    BY <1>2, <1>4, <2>2, <2>3, <2>4 DEF Transaction, Plain, Pending, Goal, Runs, Window
  <2> QED
    BY <1>1, <1>4, <1>6, <1>7, <2>1, <2>2, <2>3, <2>5, Facts, UpdaterMoves
       DEF TypeOK, service
<1> QED BY <1>1, <1>3, <1>8, <1>9 DEF Save

LEMMA StuckKeeps ==
  ASSUME IInv, Stuck
  PROVE  IInv'
<1>1. /\ U.pc = "stuck" /\ Leave("updater")
      /\ UNCHANGED <<state, releases, service, desired, lease, stopped, unhealthy, commands>>
  BY DEF Stuck, At, U
<1>2. /\ U.goal # "candidate" /\ state.pending # None
      /\ Pending(U, install, state, releases, unhealthy, faults)
      /\ Sound(state, releases, unhealthy) /\ Sound(install, releases, unhealthy)
      /\ Registered(configured, install, releases)
      /\ U.candidate \in Published /\ U.candidate = state.pending.to
      /\ U.goal \in {"candidate", "rollback", "recovery"}
  BY <1>1, PendingFacts DEF Goal, Window
<1>3. install = state \/ (install = CommittedCopy(state, U.candidate) /\ faults >= 1)
  BY <1>1, <1>2 DEF Pending, Window
<1>4. Registered(configured, state, releases)
  <2>1. CASE install = state
    BY <1>2, <2>1
  <2>2. CASE install = CommittedCopy(state, U.candidate)
    <3>1. /\ install.active = U.candidate /\ install.previous = state.active
          /\ install.pending = None
      BY <1>2, <2>2, Facts, CommittedFields
    <3> QED BY <1>2, <3>1 DEF Registered
  <2> QED BY <1>3, <2>1, <2>2
<1>5. /\ faults' \in Nat /\ install' \in {install, state}
      /\ install' = state \/ faults' = faults + 1
  BY FaultAdds, Facts DEF Stuck, WriteFails
<1>6. Sound(install', releases, unhealthy) /\ Registered(configured, install', releases)
  BY <1>2, <1>4, <1>5
<1>7. faults' <= 1 /\ install'.pending = None => configured = install'.active
  BY <1>2, <1>3, <1>5, Facts
<1> QED BY <1>1, <1>5, <1>6, <1>7, Facts, LeaveKeeps DEF service

\* Only what nobody uses is cleaned up.
LEMMA KeptInUse ==
  ASSUME IInv, install.pending = None,
         releases' = releases \cap Keep(install) \/ releases' = releases
  PROVE  /\ releases' \subseteq releases
         /\ \A m \in Menus : lease[m] \in releases => lease[m] \in releases'
         /\ Sound(install, releases', unhealthy)
         /\ Registered(configured, install, releases')
<1>1. Sound(install, releases, unhealthy) /\ Registered(configured, install, releases)
  BY Facts DEF Transaction
<1>2. \A m \in Menus : lease[m] \in Keep(install)
  BY DEF Keep, Leased
<1>3. {install.active, install.previous} \subseteq Keep(install)
  BY DEF Keep
<1>4. Sound(install, releases', unhealthy)
  BY <1>1, <1>3 DEF Sound, On
<1>5. Registered(configured, install, releases')
  BY <1>1, <1>3 DEF Registered, On
<1> QED BY <1>2, <1>4, <1>5

LEMMA CleanKeeps ==
  ASSUME IInv, Clean
  PROVE  IInv'
<1>1. /\ U.pc = "cleaning" /\ Leave("updater")
      /\ releases' \in {releases \cap Keep(state), releases}
      /\ UNCHANGED <<install, state, service, desired, lease, stopped, unhealthy, bounds>>
  BY DEF Clean, At, U
<1>2. NothingPending /\ faults <= 1 => configured = install.active
  BY <1>1, PlainFacts
<1>3. NothingPending
  BY <1>1, PlainFacts
<1>4. /\ Sound(install, releases', unhealthy) /\ Registered(configured, install, releases')
      /\ releases' \subseteq releases
      /\ \A m \in Menus : lease[m] \in releases => lease[m] \in releases'
  BY <1>1, <1>3, KeptInUse DEF NothingPending
<1> QED BY <1>1, <1>2, <1>3, <1>4, Facts, LeaveKeeps DEF service, bounds

LEMMA CrashKeeps ==
  ASSUME IInv, Crash("updater")
  PROVE  IInv'
<1>1. /\ U.pc # "idle" /\ Fault /\ Leave("updater")
      /\ UNCHANGED <<files, service, desired, lease, stopped, unhealthy, commands>>
  BY DEF Crash, At, U
<1>2. faults' \in Nat /\ faults' = faults + 1 /\ faults \in Nat
  BY <1>1, FaultAdds, Facts
<1>3. /\ Sound(install, releases, unhealthy) /\ Registered(configured, install, releases)
      /\ Runs(U, install, state, configured, faults)
  BY Facts DEF Transaction
<1>4. faults' <= 1 /\ install.pending = None => configured = install.active
  <2>1. CASE U.pc \notin Window
    BY <1>2, <1>3, <2>1 DEF Runs
  <2>2. CASE U.pc \in Window
    BY <1>2, <2>2, PendingFacts DEF Pending
  <2> QED BY <2>1, <2>2
<1> QED BY <1>1, <1>2, <1>3, <1>4, Facts, LeaveKeeps DEF files, service

-----------------------------------------------------------------------------
(* Steps of the user, of the service and of the menus.                     *)

\* What every step of the others may use.
LEMMA UserFacts ==
  ASSUME IInv
  PROVE  /\ task["user"] \in Task /\ "user" \in Workers /\ task \in [Workers -> Task]
         /\ U.pc # "idle" => lock["update"] = "updater"
         /\ U.pc \in Window => lock["maintenance"] = "updater"
         /\ task["user"].pc \in {"selecting", "unloading", "loading", "rechecking"} =>
              lock["update"] = "user" /\ U.pc = "idle"
         /\ task["user"].pc \in {"unloading", "loading", "rechecking"} =>
              lock["maintenance"] = "user"
         /\ running \in BOOLEAN /\ desired \in BOOLEAN /\ stopped \in BOOLEAN
         /\ stopped => ~running /\ ~desired
         /\ task["user"].pc = "stopping" => ~desired
         /\ task["user"].pc = "unloading" => task["user"].target = install.active
         /\ configured \in Release /\ install.active \in Release
         /\ commands \in Nat /\ faults \in Nat
         /\ lease \in [Menus -> {None} \cup Release]
BY RecordFields DEF IInv, TypeOK, LockInv, StopInv, MenuInv, At, Workers

\* A step of the user or of the service, which leaves the files alone.
LEMMA UserMoves ==
  ASSUME IInv, NEW u, NEW pc, NEW goal, NEW target, NEW candidate, NEW permanent,
         Moves("user", u, pc, goal, target, candidate, permanent),
         UNCHANGED <<install, state, releases, lease, unhealthy>>,
         lock' \in Locks, configured' \in Release,
         running' \in BOOLEAN, desired' \in BOOLEAN, stopped' \in BOOLEAN,
         commands' \in Nat, faults' \in Nat,
         U.pc # "idle" => lock'["update"] = "updater",
         U.pc \in Window => lock'["maintenance"] = "updater",
         pc \in {"selecting", "unloading", "loading", "rechecking"} => lock'["update"] = "user",
         pc \in {"unloading", "loading", "rechecking"} => lock'["maintenance"] = "user",
         stopped' => ~running' /\ ~desired',
         pc = "stopping" => ~desired',
         pc = "unloading" => target = install.active,
         Transaction(U, install, state, releases, configured', unhealthy, faults')
  PROVE  IInv'
<1>1. /\ task' \in [Workers -> Task] /\ U' = U /\ task'["user"] = u
      /\ u.pc = pc /\ u.target = target
  BY DEF Moves, U, Workers
<1>2. TypeOK'
  BY <1>1 DEF IInv, TypeOK, Locks
<1>3. LockInv'
  BY <1>1 DEF LockInv
<1>4. StopInv'
  BY <1>1 DEF StopInv, At
<1>5. MenuInv'
  BY <1>1 DEF IInv, MenuInv, At, On
<1>6. Transaction(U', install', state', releases', configured', unhealthy', faults')
  BY <1>1
<1> QED BY <1>2, <1>3, <1>4, <1>5, <1>6 DEF IInv

LEMMA OthersStutter ==
  ASSUME IInv, UNCHANGED task
  PROVE  Moves("user", task["user"], task["user"].pc, task["user"].goal, task["user"].target,
               task["user"].candidate, task["user"].permanent)
BY UserFacts DEF Moves

LEMMA SameTransaction ==
  ASSUME IInv, UNCHANGED configured, faults' \in Nat, faults' >= faults
  PROVE  Transaction(U, install, state, releases, configured', unhealthy, faults')
BY Facts, MoreFaults

LEMMA UserLeaves ==
  ASSUME IInv, Leave("user"), UNCHANGED <<files, configured, lease, unhealthy, desired, stopped,
                                          commands>>,
         running' \in BOOLEAN, running' => running, faults' \in Nat, faults' >= faults
  PROVE  IInv'
<1>1. Moves("user", Idle, "idle", None, None, None, TRUE) /\ lock' \in Locks
      /\ \A l \in {"update", "maintenance"} : lock'[l] = IF lock[l] = "user" THEN None ELSE lock[l]
  BY Facts, UserFacts, LeaveMoves DEF Locks
<1>2. stopped' => ~running' /\ ~desired'
  BY UserFacts
<1>3. /\ U.pc # "idle" => lock'["update"] = "updater"
      /\ U.pc \in Window => lock'["maintenance"] = "updater"
  BY <1>1, UserFacts
<1>4. Transaction(U, install, state, releases, configured', unhealthy, faults')
  BY SameTransaction
<1>5. /\ UNCHANGED <<install, state, releases, lease, unhealthy>>
      /\ configured' \in Release /\ desired' \in BOOLEAN /\ stopped' \in BOOLEAN
      /\ commands' \in Nat
  BY UserFacts DEF files
<1> QED BY <1>1, <1>2, <1>3, <1>4, <1>5, UserMoves

LEMMA CommandKeeps ==
  ASSUME IInv, AskStart \/ AskStop
  PROVE  IInv'
<1>1. /\ task["user"].pc = "idle" /\ commands' \in Nat /\ stopped' = FALSE
      /\ UNCHANGED <<files, lock, service, lease, unhealthy, faults>>
  BY UserFacts DEF AskStart, AskStop, Command, At
<1>2. /\ UNCHANGED <<install, state, releases, lease, unhealthy>>
      /\ lock' \in Locks /\ configured' \in Release /\ running' \in BOOLEAN
      /\ stopped' \in BOOLEAN /\ ~stopped' /\ faults' \in Nat
      /\ U.pc # "idle" => lock'["update"] = "updater"
      /\ U.pc \in Window => lock'["maintenance"] = "updater"
  BY <1>1, Facts, UserFacts DEF files, service
<1>3. Transaction(U, install, state, releases, configured', unhealthy, faults')
  BY <1>1, Facts, SameTransaction DEF service
<1>4. CASE AskStart
  <2>1. PICK u : Moves("user", u, "starting", task["user"].goal, task["user"].target,
                       task["user"].candidate, task["user"].permanent)
    BY <1>4, Facts, UserFacts, GotoMoves DEF AskStart, Command, Steps
  <2>2. desired' \in BOOLEAN
    BY <1>4 DEF AskStart, Command
  <2> QED
    BY <1>1, <1>2, <1>3, <2>1, <2>2, UserMoves
<1>5. CASE AskStop
  <2>1. PICK u : Moves("user", u, "stopping", task["user"].goal, task["user"].target,
                       task["user"].candidate, task["user"].permanent)
    BY <1>5, Facts, UserFacts, GotoMoves DEF AskStop, Command, Steps
  <2>2. desired' \in BOOLEAN /\ ~desired'
    BY <1>5 DEF AskStop, Command
  <2> QED
    BY <1>1, <1>2, <1>3, <2>1, <2>2, UserMoves
<1> QED BY <1>4, <1>5

LEMMA TakeUpdateLockKeeps ==
  ASSUME IInv, TakeUpdateLock
  PROVE  IInv'
<1>1. /\ lock["update"] = None /\ Goto("user", "selecting")
      /\ lock' = [lock EXCEPT !["update"] = "user"]
      /\ UNCHANGED <<files, service, desired, lease, stopped, unhealthy, bounds>>
  BY DEF TakeUpdateLock, Free
<1>2. /\ lock' \in Locks /\ lock'["update"] = "user"
      /\ lock'["maintenance"] = lock["maintenance"]
  BY <1>1, Facts DEF Locks
<1>3. U.pc = "idle" /\ "idle" \notin Window
  BY <1>1, Facts, SpecialValues DEF Window
<1>4. PICK u : Moves("user", u, "selecting", task["user"].goal, task["user"].target,
                     task["user"].candidate, task["user"].permanent)
  BY <1>1, Facts, UserFacts, GotoMoves DEF Steps
<1>5. /\ UNCHANGED <<install, state, releases, lease, unhealthy>>
      /\ configured' \in Release /\ running' \in BOOLEAN /\ desired' \in BOOLEAN
      /\ stopped' \in BOOLEAN /\ (stopped' => ~running' /\ ~desired')
      /\ commands' \in Nat /\ faults' \in Nat
  BY <1>1, UserFacts DEF files, service, bounds
<1>6. Transaction(U, install, state, releases, configured', unhealthy, faults')
  BY <1>1, Facts, SameTransaction DEF service, bounds
<1> QED BY <1>2, <1>3, <1>4, <1>5, <1>6, UserMoves

LEMMA SelectKeeps ==
  ASSUME IInv, Select
  PROVE  IInv'
<1>1. /\ task["user"].pc = "selecting" /\ lock["maintenance"] = None
      /\ lock' = [lock EXCEPT !["maintenance"] = "user"]
      /\ task' = [task EXCEPT !["user"].pc = "unloading", !["user"].target = Selected]
      /\ UNCHANGED <<files, service, desired, lease, stopped, unhealthy, bounds>>
  BY DEF Select, Free, At
<1>2. /\ lock' \in Locks /\ lock'["maintenance"] = "user"
      /\ lock'["update"] = lock["update"] /\ lock["update"] = "user"
  BY <1>1, Facts, UserFacts DEF Locks
<1>3. U.pc = "idle" /\ "idle" \notin Window
  BY <1>1, UserFacts DEF Window
<1>4. Selected = install.active
  BY Facts DEF Selected, Transaction, Sound, On
<1>5. PICK u : u = [task["user"] EXCEPT !.pc = "unloading", !.target = install.active]
  OBVIOUS
<1>6. "unloading" \in Steps /\ install.active \in {None} \cup Release
  BY UserFacts DEF Steps, Window
<1>7. u \in Task /\ u.pc = "unloading" /\ u.target = install.active
  BY <1>5, <1>6, UserFacts, TaskFields DEF Task
<1>8. task' = [task EXCEPT !["user"] = u]
  BY <1>1, <1>4, <1>5, UserFacts
<1>9. Moves("user", u, "unloading", u.goal, install.active, u.candidate, u.permanent)
  BY <1>7, <1>8, Facts, UserFacts, TaskMoves
<1>10. /\ UNCHANGED <<install, state, releases, lease, unhealthy>>
       /\ configured' \in Release /\ running' \in BOOLEAN /\ desired' \in BOOLEAN
       /\ stopped' \in BOOLEAN /\ (stopped' => ~running' /\ ~desired')
       /\ commands' \in Nat /\ faults' \in Nat
  BY <1>1, UserFacts DEF files, service, bounds
<1>11. Transaction(U, install, state, releases, configured', unhealthy, faults')
  BY <1>1, Facts, SameTransaction DEF service, bounds
<1> QED BY <1>2, <1>3, <1>9, <1>10, <1>11, UserMoves

\* The user's start registers what is installed.
LEMMA UserUnloadKeeps ==
  ASSUME IInv, Unload("user")
  PROVE  IInv'
<1>1. /\ task["user"].pc = "unloading" /\ Goto("user", "loading")
      /\ running' = FALSE /\ configured' = install.active
      /\ lock' = [lock EXCEPT !["control"] = "user",
                              !["maintenance"] = IF @ = "service" THEN None ELSE @]
      /\ UNCHANGED <<files, desired, lease, stopped, unhealthy, bounds>>
  BY UserFacts DEF Unload, At
<1>2. /\ lock' \in Locks /\ lock'["update"] = "user" /\ lock'["maintenance"] = "user"
      /\ U.pc = "idle" /\ "idle" \notin Window
  BY <1>1, Facts, UserFacts DEF Locks, Window
<1>3. PICK u : Moves("user", u, "loading", task["user"].goal, task["user"].target,
                     task["user"].candidate, task["user"].permanent)
  BY <1>1, Facts, UserFacts, GotoMoves DEF Steps, Window
<1>4. Transaction(U, install, state, releases, install.active, unhealthy, faults)
  <2>1. Transaction(U, install, state, releases, configured, unhealthy, faults)
    BY Facts
  <2>2. Sound(install, releases, unhealthy) /\ Pending(U, install, state, releases, unhealthy, faults)
    BY <2>1 DEF Transaction
  <2>3. Registered(install.active, install, releases)
    BY <2>2 DEF Registered, Sound
  <2>4. /\ Plain(U, install, state, releases, install.active, unhealthy)
        /\ Goal(U, state, install.active)
        /\ Runs(U, install, state, install.active, faults)
    BY <1>2 DEF Plain, Goal, Runs, Window
  <2> QED BY <2>2, <2>3, <2>4 DEF Transaction
<1>5. running' \in BOOLEAN /\ ~running'
  BY <1>1
<1>6. /\ UNCHANGED <<install, state, releases, lease, unhealthy, faults>>
      /\ configured' \in Release /\ desired' \in BOOLEAN /\ stopped' \in BOOLEAN
      /\ commands' \in Nat /\ faults' \in Nat
  BY <1>1, UserFacts DEF files, bounds
<1>7. Transaction(U, install, state, releases, configured', unhealthy, faults')
  BY <1>1, <1>4, <1>6
<1> QED BY <1>1, <1>2, <1>3, <1>5, <1>6, <1>7, UserFacts, UserMoves

LEMMA UserLoadKeeps ==
  ASSUME IInv, Load("user")
  PROVE  IInv'
<1>1. /\ task["user"].pc = "loading" /\ Goto("user", "rechecking") /\ running' = desired
      /\ UNCHANGED <<files, lock, configured, desired, lease, stopped, unhealthy, bounds>>
  BY DEF Load, At, MayRun
<1>2. PICK u : Moves("user", u, "rechecking", task["user"].goal, task["user"].target,
                     task["user"].candidate, task["user"].permanent)
  BY <1>1, Facts, UserFacts, GotoMoves DEF Steps, Window
<1>3. running' \in BOOLEAN /\ (stopped' => ~running' /\ ~desired')
  BY <1>1, UserFacts
<1> QED
  BY <1>1, <1>2, <1>3, UserFacts, Facts, SameTransaction, UserMoves DEF files, bounds

LEMMA UserStops ==
  ASSUME IInv, \/ Recheck("user") \/ StartGivesUp \/ ActivationFails("user") \/ Crash("user")
  PROVE  IInv'
<1>1. /\ Leave("user")
      /\ UNCHANGED <<files, configured, desired, lease, stopped, unhealthy, commands>>
  BY DEF Recheck, StartGivesUp, ActivationFails, Crash, service, bounds
<1>2. faults' \in Nat /\ faults' >= faults
  <2>1. CASE faults' = faults
    BY <2>1, Facts
  <2>2. CASE Fault
    BY <2>2, FaultAdds
  <2> QED BY <2>1, <2>2 DEF Recheck, StartGivesUp, ActivationFails, Crash, bounds
<1>3. running' \in {running, FALSE, running /\ desired}
  BY DEF Recheck, StartGivesUp, ActivationFails, Crash, service, MayRun
<1>4. running' \in BOOLEAN /\ (running' => running)
  <2>1. CASE running' = running
    BY <2>1, UserFacts
  <2>2. CASE running' = FALSE
    BY <2>2
  <2>3. CASE running' = (running /\ desired)
    BY <2>3, UserFacts
  <2> QED BY <1>3, <2>1, <2>2, <2>3
<1> QED BY <1>1, <1>2, <1>4, UserLeaves

LEMMA StopKeeps ==
  ASSUME IInv, Stop
  PROVE  IInv'
<1>1. /\ task["user"].pc = "stopping" /\ running' = FALSE /\ stopped' = TRUE
      /\ lock' = [lock EXCEPT !["maintenance"] = IF @ = "service" THEN None ELSE @]
      /\ task' = [task EXCEPT !["user"] = Idle]
      /\ UNCHANGED <<files, configured, desired, lease, unhealthy, bounds>>
  BY DEF Stop, Stops, At
<1>2. Moves("user", Idle, "idle", None, None, None, TRUE)
  BY <1>1, Facts, UserFacts, IdleTask, TaskMoves
<1>3. /\ lock' \in Locks /\ lock'["update"] = lock["update"]
      /\ lock["maintenance"] = "updater" => lock'["maintenance"] = "updater"
  BY <1>1, Facts DEF Locks
<1>4. /\ running' \in BOOLEAN /\ stopped' \in BOOLEAN /\ ~running'
      /\ desired' \in BOOLEAN /\ ~desired'
  BY <1>1, UserFacts
<1> QED
  BY <1>1, <1>2, <1>3, <1>4, UserFacts, Facts, SameTransaction, UserMoves DEF files, bounds

LEMMA CycleKeeps ==
  ASSUME IInv, BeginCycle \/ EndCycle
  PROVE  IInv'
<1>1. /\ lock["maintenance"] \in {None, "service"}
      /\ lock' \in [{"update", "maintenance", "control"} -> {None, "updater", "user", "service"}]
      /\ lock'["update"] = lock["update"]
      /\ UNCHANGED <<files, task, service, desired, lease, stopped, unhealthy, bounds>>
  BY Facts DEF BeginCycle, EndCycle, CloseWindow, Free, Locks
<1>2. U.pc \notin Window /\ task["user"].pc \notin {"unloading", "loading", "rechecking"}
  BY <1>1, UserFacts, SpecialValues
<1>3. Moves("user", task["user"], task["user"].pc, task["user"].goal, task["user"].target,
            task["user"].candidate, task["user"].permanent)
  BY <1>1, OthersStutter
<1> QED
  BY <1>1, <1>2, <1>3, UserFacts, Facts, SameTransaction, UserMoves
     DEF files, service, bounds, Locks

LEMMA MenuKeeps ==
  ASSUME IInv, NEW m \in Menus, OpenMenu(m) \/ CloseMenu(m)
  PROVE  IInv'
<1>1. /\ lease' = [lease EXCEPT ![m] = Selected] \/ lease' = [lease EXCEPT ![m] = None]
      /\ UNCHANGED <<files, lock, task, service, desired, stopped, unhealthy, bounds>>
  BY DEF OpenMenu, CloseMenu
<1>2. Selected = install.active /\ On(install.active, releases)
  BY Facts DEF Selected, Transaction, Sound, On
<1>3. lease' \in [Menus -> {None} \cup Release]
  BY <1>1, <1>2, UserFacts
<1>4. TypeOK' /\ LockInv' /\ StopInv'
  BY <1>1, <1>3 DEF IInv, TypeOK, LockInv, StopInv, At, U, files, service, bounds
<1>5. MenuInv'
  BY <1>1, <1>2, UserFacts DEF IInv, MenuInv, At, files
<1>6. Transaction(U, install, state, releases, configured, unhealthy, faults)'
  BY <1>1, Facts DEF U, files, service, bounds
<1> QED BY <1>4, <1>5, <1>6 DEF IInv

LEMMA CleanUpKeeps ==
  ASSUME IInv, CleanUp
  PROVE  IInv'
<1>1. /\ lock["update"] = None /\ install.pending = None
      /\ releases' = releases \cap Keep(install)
      /\ UNCHANGED <<install, state, lock, task, service, desired, lease, stopped, unhealthy, bounds>>
  BY DEF CleanUp, Free
<1>2. U.pc = "idle"
  BY <1>1, Facts, SpecialValues
<1>3. /\ releases' \subseteq releases
      /\ \A m \in Menus : lease[m] \in releases => lease[m] \in releases'
      /\ Sound(install, releases', unhealthy) /\ Registered(configured, install, releases')
  BY <1>1, KeptInUse
<1>4. Transaction(U, install, state, releases', configured, unhealthy, faults)
  <2>1. /\ Plain(U, install, state, releases', configured, unhealthy)
        /\ Pending(U, install, state, releases', unhealthy, faults)
        /\ Goal(U, state, configured)
        /\ Runs(U, install, state, configured, faults)
    BY <1>2, Facts DEF Transaction, Plain, Pending, Goal, Window
  <2> QED BY <1>3, <2>1 DEF Transaction
<1>5. TypeOK' /\ LockInv' /\ StopInv'
  BY <1>1, <1>3 DEF IInv, TypeOK, LockInv, StopInv, At, U, service, bounds
<1>6. MenuInv'
  BY <1>1, <1>3 DEF IInv, MenuInv, At, On
<1>7. Transaction(U, install, state, releases, configured, unhealthy, faults)'
  BY <1>1, <1>4 DEF U, service, bounds
<1> QED BY <1>5, <1>6, <1>7 DEF IInv

-----------------------------------------------------------------------------
(* The theorems.                                                           *)

LEMMA InitIInv == Init => IInv
<1> SUFFICES ASSUME Init PROVE IInv
  OBVIOUS
<1>1. install = [active |-> Baseline, previous |-> Baseline, pending |-> None,
                 failed |-> None, highest |-> None]
  BY DEF Init
<1>2. install \in Record /\ state \in Record
  BY <1>1 DEF Init, Record, Release
<1>3. /\ task = [p \in Workers |-> Idle]
      /\ U = Idle /\ task["user"] = Idle /\ task \in [Workers -> Task]
  BY IdleTask DEF Init, U, Workers
<1>4. U.pc = "idle" /\ task["user"].pc = "idle" /\ "idle" \notin Window
  BY <1>3, IdleTask DEF Window
<1>5. TypeOK
  BY <1>2, <1>3 DEF Init, TypeOK, Release
<1>6. LockInv /\ StopInv /\ MenuInv
  BY <1>4 DEF Init, LockInv, StopInv, MenuInv, At
<1>7. Transaction(U, install, state, releases, configured, unhealthy, faults)
  <2>1. Sound(install, releases, unhealthy)
    BY <1>1 DEF Init, Sound, On, Remembers
  <2>2. Registered(configured, install, releases) /\ configured = install.active
    BY <1>1 DEF Init, Registered, On
  <2> QED BY <1>4, <2>1, <2>2 DEF Transaction, Plain, Pending, Goal, Runs, Window
<1> QED BY <1>5, <1>6, <1>7 DEF IInv

LEMMA UpdatingKeeps ==
  ASSUME IInv, Updating
  PROVE  IInv'
BY CheckKeeps, NothingToInstallKeeps, FetchKeeps, StagingFailsKeeps, StageKeeps, JournalKeeps,
   TakeWindowKeeps, AbandonKeeps, RewriteKeeps, RemoveKeeps, UnloadKeeps, LoadKeeps,
   RecheckKeeps, ObserveKeeps, JudgeKeeps, CommitKeeps, RolledBackKeeps, RecoveredKeeps,
   StuckKeeps, CleanKeeps
   DEF Updating, Activating

LEMMA CommandingKeeps ==
  ASSUME IInv, Commanding
  PROVE  IInv'
BY TakeUpdateLockKeeps, SelectKeeps, UserUnloadKeeps, UserLoadKeeps, UserStops, StopKeeps
   DEF Commanding, Activating

LEMMA NextIInv == IInv /\ [Next]_vars => IInv'
<1> SUFFICES ASSUME IInv, [Next]_vars PROVE IInv'
  OBVIOUS
<1>1. CASE UNCHANGED vars
  <2>1. /\ TypeOK' /\ LockInv' /\ StopInv' /\ MenuInv'
    BY <1>1 DEF IInv, TypeOK, LockInv, StopInv, MenuInv, At, U, vars, files, service, bounds
  <2>2. Transaction(U, install, state, releases, configured, unhealthy, faults)'
    BY <1>1, Facts DEF U, vars, files, service, bounds
  <2> QED BY <2>1, <2>2 DEF IInv
<1>2. CASE Updating
  BY <1>2, UpdatingKeeps
<1>3. CASE WindowBusy \/ HealthTimesOut \/ CleanUp
  BY <1>3, WindowBusyKeeps, HealthTimesOutKeeps, CleanUpKeeps
<1>4. CASE AskStart \/ AskStop \/ Commanding
  BY <1>4, CommandKeeps, CommandingKeeps
<1>5. CASE BeginCycle \/ EndCycle
  BY <1>5, CycleKeeps
<1>6. CASE \E m \in Menus : OpenMenu(m) \/ CloseMenu(m)
  BY <1>6, MenuKeeps
<1>7. CASE \E p \in Workers : ActivationFails(p) \/ Crash(p)
  BY <1>7, ActivationFailsKeeps, CrashKeeps, UserStops DEF Workers
<1> QED BY <1>1, <1>2, <1>3, <1>4, <1>5, <1>6, <1>7 DEF Next

\* The invariant of the update transaction.
THEOREM InvHolds == Spec => []IInv
BY InitIInv, NextIInv, PTL DEF Spec

\* What runs, what is installed, and what a recovery or a menu goes back to stay
\* on the disk, at every fault and death in the transaction.
THEOREM InUseIsKept == Spec => []InUseStaysOnDisk
<1>1. IInv => InUseStaysOnDisk
  <2> SUFFICES ASSUME IInv PROVE InUseStaysOnDisk
    OBVIOUS
  <2>1. Sound(install, releases, unhealthy) /\ Registered(configured, install, releases)
    BY DEF IInv, Transaction
  <2> QED BY <2>1 DEF IInv, MenuInv, Sound, Registered, InUseStaysOnDisk, On, OnDisk
<1> QED BY <1>1, InvHolds, PTL

\* A release that failed its health check is never switched to again.
THEOREM TheUnhealthyIsNotRetried == Spec => []UnhealthyNotRetried
<1>1. IInv => UnhealthyNotRetried
  BY DEF IInv, Transaction, Pending, UnhealthyNotRetried, At, U, Window
<1> QED BY <1>1, InvHolds, PTL

\* With at most one fault the service is registered to run what is installed
\* whenever nobody is at work.
THEOREM TheInstalledRuns == Spec => []RunsWhatIsInstalled
<1>1. IInv => RunsWhatIsInstalled
  BY DEF IInv, Transaction, Runs, RunsWhatIsInstalled, At, U, Window
<1> QED BY <1>1, InvHolds, PTL

\* A service that was stopped stays so until it is started.
THEOREM AStopIsFinal == Spec => []StopIsFinal
<1>1. IInv => StopIsFinal
  BY DEF IInv, StopInv, StopIsFinal
<1> QED BY <1>1, InvHolds, PTL

\* An update waits for the end of a cycle.
THEOREM CyclesEndThemselves == Spec => CyclesAreNotCutShort
<1> DEFINE Step == lock["maintenance"] = "service" /\ running /\ ~running' => ~desired
<1>1. IInv /\ [Next]_vars => [Step]_vars
  <2> SUFFICES ASSUME IInv, Next, lock["maintenance"] = "service", ~(running' = running)
               PROVE  ~desired
    OBVIOUS
  <2>1. /\ U.pc \notin {"unloading", "loading", "rechecking"}
        /\ task["user"].pc \notin {"unloading", "loading", "rechecking"}
    BY DEF IInv, LockInv, Window
  <2>2. \A p \in Workers : task[p].pc \notin {"unloading", "loading", "rechecking"}
    BY <2>1 DEF Workers, U
  <2>3. \A p \in Workers : ~ActivationFails(p) /\ ~Activating(p)
    BY <2>2 DEF ActivationFails, Activating, Unload, Load, Recheck, At
  <2>4. Stop
    <3>1. ~Updating
      BY <2>3 DEF Updating, Workers, Check, NothingToInstall, Fetch, StagingFails, Stage,
         PrepareFails, Journal, TakeWindow, Abandon, Rewrite, Remove, Observe, Judge, Commit,
         RolledBack, Recovered, Stuck, Clean, service
    <3>2. ~WindowBusy /\ ~HealthTimesOut /\ ~CleanUp /\ ~AskStart /\ ~AskStop
          /\ ~BeginCycle /\ ~EndCycle
      BY DEF WindowBusy, HealthTimesOut, CleanUp, AskStart, AskStop, Command, BeginCycle,
             EndCycle, service
    <3>3. /\ \A m \in Menus : ~OpenMenu(m) /\ ~CloseMenu(m)
          /\ \A p \in Workers : ~Crash(p)
      BY DEF OpenMenu, CloseMenu, Crash, service
    <3>4. Commanding
      BY <2>3, <3>1, <3>2, <3>3 DEF Next
    <3> QED BY <2>3, <3>4 DEF Commanding, TakeUpdateLock, Select, StartGivesUp, service, Workers
  <2> QED BY <2>4 DEF Stop, IInv, StopInv
<1> QED BY <1>1, InvHolds, PTL DEF Spec, CyclesAreNotCutShort

=============================================================================
