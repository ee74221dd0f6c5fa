---------------------------- MODULE DeviceSetup ----------------------------
(***************************************************************************)
(* The settings of one installation and the terminals that change them     *)
(* (device_setup.py): a setup reads the files, asks, and commits under     *)
(* update.lock, one atomic write per file, with a rollback that may fail   *)
(* too.  Nothing is journalled: a killed setup leaves what it wrote.       *)
(*                                                                         *)
(* A value stands for the bytes of a file.  Input that is refused changes  *)
(* nothing; here only valid values are entered.                            *)
(***************************************************************************)
EXTENDS Naturals, Sequences

CONSTANTS
  Terminals,  \* the shells of the user that may run a setup
  Choices,    \* the values a user may enter, for each file
  MaxFaults,  \* bound of the model on failed writes, interrupts and kills
  None

Files == {"config", "subscription", "token", "proxy"}

ASSUME SetupAssumption ==
  /\ DOMAIN Choices = Files
  /\ MaxFaults \in Nat
  /\ \A f \in Files : None \notin Choices[f] /\ Choices[f] # {}
  /\ {None, "updater"} \cap Terminals = {} /\ None # "updater"

VARIABLES
  files,  \* the settings on disk
  lock,   \* who holds update.lock
  setup,  \* the setup each terminal runs
  base,   \* history: the files when the last commit began to write, and whose
          \* commit it is
  faults  \* the faults so far

setupVars == <<files, lock, setup, base, faults>>

\* pc: what configure_device does.  next is the write, or the restore, it is at,
\* complete whether the rollback is so far, and told what the user reads last.
\* The updater holds the lock as itself.
IdleSetup(told) ==
  [pc |-> "idle", before |-> None, proposed |-> None, next |-> 1, complete |-> TRUE,
   interrupted |-> FALSE, told |-> told]

SetupInit ==
  /\ files = [f \in Files |-> None]
  /\ lock = None
  /\ setup = [t \in Terminals |-> IdleSetup("nothing")]
  /\ base = [files |-> files, by |-> None]
  /\ faults = 0

\* _complete: the values are valid, the proxy may be missing.
Complete(s) == \A f \in Files \ {"proxy"} : s[f] # None

At(t, pc) == setup[t].pc = pc

Become(t, s) == setup' = [setup EXCEPT ![t] = s]

Finish(t, told) == Become(t, IdleSetup(told))

-----------------------------------------------------------------------------

\* A file that cannot be read, or does not parse, refuses the setup.
Unreadable(t) == Finish(t, "refused")

\* _load, and the way out of an initial setup that finds everything there.
Load(t, initial) ==
  /\ \/ Unreadable(t)
     \/ initial /\ Complete(files) /\ Finish(t, "ready")
     \/ /\ ~(initial /\ Complete(files))
        /\ Become(t, [IdleSetup("nothing") EXCEPT !.pc = "asking", !.before = files])
  /\ UNCHANGED <<files, lock, base, faults>>

\* What a user may make of the old value: Enter keeps it, "-" drops a proxy.
Entered(f, old) ==
  Choices[f] \cup (IF f = "proxy" \/ old # None THEN {old} ELSE {})
             \cup (IF f = "proxy" THEN {None} ELSE {})

\* _collect, of a complete answer.
Collect(t) ==
  /\ At(t, "asking")
  /\ \E answer \in {s \in [Files -> {None} \cup UNION {Choices[f] : f \in Files}] :
                      \A f \in Files : s[f] \in Entered(f, setup[t].before[f])} :
       Become(t, [setup[t] EXCEPT !.pc = "committing", !.proposed = answer])
  /\ UNCHANGED <<files, lock, base, faults>>

\* EOF or Ctrl-C at a prompt.
Cancel(t) ==
  /\ At(t, "asking")
  /\ Finish(t, "cancelled")
  /\ UNCHANGED <<files, lock, base, faults>>

\* Mutant: the files are not compared again under the lock.
NeverChanged(t) == TRUE

Unchanged(t) == files = setup[t].before

\* _commit: the lock is tried, and the files must be as they were read.
BeginCommit(t) ==
  /\ At(t, "committing")
  /\ IF lock = None /\ Unchanged(t)
     THEN /\ lock' = t /\ base' = [files |-> files, by |-> t]
          /\ Become(t, [setup[t] EXCEPT !.pc = "writing"])
     ELSE Finish(t, "refused") /\ UNCHANGED <<lock, base>>
  /\ UNCHANGED <<files, faults>>

WriteOrder == <<"subscription", "token", "proxy", "config">>

Put(f, value) == files' = [files EXCEPT ![f] = value]

\* atomic_write, or the unlink of a proxy.
Write(t) ==
  LET f == WriteOrder[setup[t].next] IN
  /\ At(t, "writing") /\ setup[t].next <= Len(WriteOrder)
  /\ Put(f, setup[t].proposed[f])
  /\ Become(t, [setup[t] EXCEPT !.next = @ + 1])
  /\ UNCHANGED <<lock, base, faults>>

\* A write fails, before or after the file is replaced, or Ctrl-C comes.
WriteFails(t) ==
  LET f == WriteOrder[setup[t].next] IN
  /\ At(t, "writing") /\ setup[t].next <= Len(WriteOrder) /\ faults < MaxFaults
  /\ faults' = faults + 1
  /\ Put(f, setup[t].proposed[f]) \/ UNCHANGED files
  /\ \E interrupt \in BOOLEAN :
       Become(t, [setup[t] EXCEPT !.pc = "restoring", !.next = 1, !.interrupted = interrupt])
  /\ UNCHANGED <<lock, base>>

RestoreOrder == <<"proxy", "token", "subscription", "config">>

\* A restore looks at the file, whatever its write said.
Differs(t, f) == files[f] # setup[t].before[f]

Restore(t) ==
  LET f == RestoreOrder[setup[t].next] IN
  /\ At(t, "restoring") /\ setup[t].next <= Len(RestoreOrder)
  /\ IF Differs(t, f) THEN Put(f, setup[t].before[f]) ELSE UNCHANGED files
  /\ Become(t, [setup[t] EXCEPT !.next = @ + 1])
  /\ UNCHANGED <<lock, base, faults>>

\* Also a second Ctrl-C: the rollback goes on with the next file.
RestoreFails(t) ==
  LET f == RestoreOrder[setup[t].next] IN
  /\ At(t, "restoring") /\ setup[t].next <= Len(RestoreOrder) /\ faults < MaxFaults
  /\ faults' = faults + 1
  /\ \/ Differs(t, f) /\ Put(f, setup[t].before[f])
     \/ UNCHANGED files
  /\ Become(t, [setup[t] EXCEPT !.next = @ + 1, !.complete = FALSE])
  /\ UNCHANGED <<lock, base>>

Unlock == lock' = None

\* The lock is released, and the user is told.
EndCommit(t) ==
  /\ At(t, "writing") /\ setup[t].next > Len(WriteOrder)
  /\ Unlock
  /\ \/ Finish(t, "saved") /\ UNCHANGED faults
     \* Ctrl-C after the last write.
     \/ faults < MaxFaults /\ faults' = faults + 1 /\ Finish(t, "cancelled")
  /\ UNCHANGED <<files, base>>

\* Mutant: a rollback is taken to be complete.
AlwaysRestored(t) == IF setup[t].interrupted THEN "cancelled" ELSE "restored"

\* What _CommitFailure, or the KeyboardInterrupt, makes the user read.
Verdict(t) ==
  IF ~setup[t].complete THEN "check" ELSE IF setup[t].interrupted THEN "cancelled" ELSE "restored"

EndRollback(t) ==
  /\ At(t, "restoring") /\ setup[t].next > Len(RestoreOrder)
  /\ Unlock
  /\ Finish(t, Verdict(t))
  /\ UNCHANGED <<files, base, faults>>

\* The kernel releases the lock of a killed setup.
SetupDies(t) ==
  /\ setup[t].pc # "idle" /\ faults < MaxFaults
  /\ faults' = faults + 1
  /\ lock' = IF lock = t THEN None ELSE lock
  /\ Finish(t, "nothing")
  /\ UNCHANGED <<files, base>>

SetupStep(t) ==
  \/ Collect(t) \/ Cancel(t) \/ BeginCommit(t) \/ Write(t) \/ WriteFails(t)
  \/ Restore(t) \/ RestoreFails(t) \/ EndCommit(t) \/ EndRollback(t) \/ SetupDies(t)

\* An update transaction or an activation takes and leaves the lock.
UpdaterLocks ==
  /\ lock = None /\ lock' = "updater"
  /\ UNCHANGED <<files, setup, base, faults>>

UpdaterUnlocks ==
  /\ lock = "updater" /\ Unlock
  /\ UNCHANGED <<files, setup, base, faults>>

=============================================================================
