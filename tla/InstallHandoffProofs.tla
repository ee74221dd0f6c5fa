------------------------ MODULE InstallHandoffProofs ------------------------
(***************************************************************************)
(* Theorems about an installation and its settings: no update is lost, a   *)
(* setup says "saved" or "restored" of what is so, edits of the folder     *)
(* survive, and nobody is left without installer and settings.             *)
(***************************************************************************)
EXTENDS InstallHandoff, SequenceTheorems, TLAPS

Assumptions == SetupAssumption /\ HandoffAssumption

-----------------------------------------------------------------------------
(* The inductive invariant.                                                *)

Values == {None} \cup UNION {Choices[f] : f \in Files}

Settings == [Files -> Values]

SetupRecord ==
  [pc : {"idle", "asking", "committing", "writing", "restoring"},
   before : {None} \cup Settings,
   proposed : {None} \cup Settings,
   next : 1 .. 5,
   complete : BOOLEAN,
   interrupted : BOOLEAN,
   told : {"nothing", "refused", "ready", "cancelled", "saved", "restored", "check"}]

SetupTypeOK ==
  /\ files \in Settings
  /\ lock \in {None, "updater"} \cup Terminals
  /\ setup \in [Terminals -> SetupRecord]
  /\ base \in [files : Settings, by : {None} \cup Terminals]
  /\ faults \in Nat

HandoffTypeOK ==
  /\ source \in [Sources -> {"pristine", "edited", "late", "gone"}]
  /\ launcher \in BOOLEAN
  /\ handoff \in {"idle", "settings", "setup", "installed", "validating", "checking",
                  "unlinking"}
  /\ position \in Nat \ {0}
  /\ offered \subseteq Terminals
  /\ edits \in Nat

\* A setup that asks has read the settings, one that commits has valid ones to
\* write, and neither has told its user anything or written yet.
Ready(s) ==
  /\ s.pc # "idle" => /\ s.before \in Settings /\ s.before["config"] # None
                      /\ s.told = "nothing"
  /\ s.pc \in {"committing", "writing", "restoring"} =>
       s.proposed \in Settings /\ Complete(s.proposed)
  /\ s.pc \in {"asking", "committing"} => s.next = 1

Owner(s) == s.pc \in {"writing", "restoring"}

\* update.lock is held by the terminal that writes or restores, and by no other.
LockInv == \A t \in Terminals : Owner(setup[t]) <=> lock = t

\* The owner s of t began from the files it had read.  The files it has written
\* hold what its user entered, and those it has restored hold what was there.
Committing(t, s, fs, b) ==
  /\ Owner(s) => b.by = t /\ b.files = s.before
  /\ s.pc = "writing" => \A i \in 1 .. 4 : i < s.next =>
       fs[WriteOrder[i]] = s.proposed[WriteOrder[i]]
  /\ s.pc = "restoring" /\ s.complete => \A i \in 1 .. 4 : i < s.next =>
       fs[RestoreOrder[i]] = s.before[RestoreOrder[i]]

CommitInv == \A t \in Terminals : Committing(t, setup[t], files, base)

\* Nobody reads the settings before install.json is there, so that the default
\* settings of the installer never come between a commit and its rollback.
ConfigInv ==
  files["config"] = None =>
    /\ \A t \in Terminals : setup[t].pc = "idle"
    /\ offered = {}
    /\ handoff = "idle"

SetupInv ==
  /\ SetupTypeOK
  /\ \A t \in Terminals : Ready(setup[t])
  /\ LockInv
  /\ CommitInv
  /\ ConfigInv

\* The installer's terminal runs its setup only in that part of the install,
\* and a menu never runs two.
MenuInv ==
  /\ handoff # "setup" => At(Installer, "idle")
  /\ \A t \in offered : t # Installer /\ At(t, "idle")

\* The file about to be unlinked was not edited before its own check.
UnlinkInv ==
  handoff = "unlinking" =>
    Targets[position] \in Sources /\ source[Targets[position]] # "edited"

Gone == \E f \in Sources : source[f] = "gone"

\* The settings are complete, or another terminal has them in its commit, or
\* took them back.
Settled == Complete(files) \/ (base.by # Installer /\ ~Complete(base.files))

\* The archive loses files only after the launcher and the settings are there.
HandoffInv ==
  /\ handoff \in {"settings", "setup", "installed", "validating"} => ~Gone
  /\ Gone \/ handoff \in {"validating", "checking", "unlinking"} => launcher
  /\ Gone \/ handoff \in {"installed", "validating", "checking", "unlinking"} => Settled

IInv == SetupInv /\ HandoffTypeOK /\ MenuInv /\ UnlinkInv /\ HandoffInv

-----------------------------------------------------------------------------
(* The orders of a commit and its rollback: each file has one place.       *)

LEMMA WriteOrderFacts ==
  /\ Len(WriteOrder) = 4
  /\ \A i \in 1 .. 4 : WriteOrder[i] \in Files
  /\ \A f \in Files : \E i \in 1 .. 4 : WriteOrder[i] = f
  /\ \A i, j \in 1 .. 4 : WriteOrder[i] = WriteOrder[j] => i = j
<1>1. /\ Len(WriteOrder) = 4
      /\ WriteOrder[1] = "subscription" /\ WriteOrder[2] = "token"
      /\ WriteOrder[3] = "proxy" /\ WriteOrder[4] = "config"
  BY DEF WriteOrder
<1>2. \A i \in 1 .. 4 : i = 1 \/ i = 2 \/ i = 3 \/ i = 4
  OBVIOUS
<1>3. \A i \in 1 .. 4 : WriteOrder[i] \in Files
  BY <1>1, <1>2 DEF Files
<1>4. \A f \in Files : \E i \in 1 .. 4 : WriteOrder[i] = f
  BY <1>1 DEF Files
<1>5. \A i, j \in 1 .. 4 : WriteOrder[i] = WriteOrder[j] => i = j
  BY <1>1, <1>2
<1> QED BY <1>1, <1>3, <1>4, <1>5

LEMMA RestoreOrderFacts ==
  /\ Len(RestoreOrder) = 4
  /\ \A i \in 1 .. 4 : RestoreOrder[i] \in Files
  /\ \A f \in Files : \E i \in 1 .. 4 : RestoreOrder[i] = f
  /\ \A i, j \in 1 .. 4 : RestoreOrder[i] = RestoreOrder[j] => i = j
<1>1. /\ Len(RestoreOrder) = 4
      /\ RestoreOrder[1] = "proxy" /\ RestoreOrder[2] = "token"
      /\ RestoreOrder[3] = "subscription" /\ RestoreOrder[4] = "config"
  BY DEF RestoreOrder
<1>2. \A i \in 1 .. 4 : i = 1 \/ i = 2 \/ i = 3 \/ i = 4
  OBVIOUS
<1>3. \A i \in 1 .. 4 : RestoreOrder[i] \in Files
  BY <1>1, <1>2 DEF Files
<1>4. \A f \in Files : \E i \in 1 .. 4 : RestoreOrder[i] = f
  BY <1>1 DEF Files
<1>5. \A i, j \in 1 .. 4 : RestoreOrder[i] = RestoreOrder[j] => i = j
  BY <1>1, <1>2
<1> QED BY <1>1, <1>3, <1>4, <1>5

-----------------------------------------------------------------------------
(* A step of one terminal.                                                 *)

\* What one terminal must see to, so that the step that makes its setup s keeps
\* the invariant: it leaves the lock, the files and the history of another's
\* commit alone.
LEMMA OneSetup ==
  ASSUME Assumptions, SetupInv, NEW t \in Terminals, NEW s \in SetupRecord,
         Become(t, s),
         files' \in Settings, files'["config"] # None,
         lock' \in {None, "updater"} \cup Terminals,
         base' \in [files : Settings, by : {None} \cup Terminals],
         faults' \in Nat,
         \A u \in Terminals \ {t} : lock' = u <=> lock = u,
         \/ files' = files /\ base' = base
         \/ \A u \in Terminals \ {t} : lock # u,
         Ready(s),
         Owner(s) <=> lock' = t,
         Committing(t, s, files', base')
  PROVE  SetupInv'
<1>1. /\ setup' \in [Terminals -> SetupRecord]
      /\ setup'[t] = s
      /\ \A u \in Terminals \ {t} : setup'[u] = setup[u]
  BY DEF Become, SetupInv, SetupTypeOK
<1>2. SetupTypeOK'
  BY <1>1 DEF SetupTypeOK
<1>3. \A u \in Terminals : Ready(setup'[u])
  BY <1>1 DEF SetupInv
<1>4. \A u \in Terminals : Owner(setup'[u]) <=> lock' = u
  BY <1>1 DEF SetupInv, LockInv
<1>5. \A u \in Terminals : Committing(u, setup'[u], files', base')
  <2> SUFFICES ASSUME NEW u \in Terminals, u # t
               PROVE  Committing(u, setup[u], files', base')
    BY <1>1
  <2>1. Committing(u, setup[u], files, base)
    BY DEF SetupInv, CommitInv
  <2>2. CASE files' = files /\ base' = base
    BY <2>1, <2>2
  <2>3. CASE lock # u
    <3>1. ~Owner(setup[u])
      BY <2>3 DEF SetupInv, LockInv
    <3> QED BY <3>1 DEF Committing, Owner
  <2> QED BY <2>2, <2>3
<1>6. (\A u \in Terminals : Ready(setup[u]))'
  BY <1>3
<1>7. LockInv'
  BY <1>4 DEF LockInv
<1>8. CommitInv'
  BY <1>5 DEF CommitInv
<1>9. ConfigInv'
  BY DEF ConfigInv
<1> QED BY <1>2, <1>6, <1>7, <1>8, <1>9 DEF SetupInv

\* A setup that ends is idle, whatever it tells.
LEMMA IdleSetupOK ==
  ASSUME Assumptions, NEW t,
         NEW told \in {"nothing", "refused", "ready", "cancelled", "saved", "restored",
                       "check"}
  PROVE  /\ IdleSetup(told) \in SetupRecord
         /\ IdleSetup(told).pc = "idle"
         /\ IdleSetup(told).told = told
         /\ Ready(IdleSetup(told)) /\ ~Owner(IdleSetup(told))
         /\ \A fs, b : Committing(t, IdleSetup(told), fs, b)
<1>1. IdleSetup(told) \in SetupRecord
  BY DEF IdleSetup, SetupRecord
<1>2. IdleSetup(told).pc = "idle" /\ IdleSetup(told).told = told
  BY DEF IdleSetup
<1> QED BY <1>1, <1>2 DEF Ready, Owner, Committing

\* What holds of a terminal whose setup runs.
LEMMA Running ==
  ASSUME Assumptions, SetupInv, NEW t \in Terminals, setup[t].pc # "idle"
  PROVE  /\ setup[t] \in SetupRecord /\ setup[t].before \in Settings
         /\ setup[t].before["config"] # None /\ setup[t].told = "nothing"
         /\ files["config"] # None
         /\ "config" \in Files
         /\ Committing(t, setup[t], files, base)
         /\ Ready(setup[t])
         /\ t # None
<1>1. setup[t] \in SetupRecord /\ Ready(setup[t])
  BY DEF SetupInv, SetupTypeOK
<1>2. files["config"] # None
  BY DEF SetupInv, ConfigInv
<1> QED BY <1>1, <1>2 DEF SetupInv, CommitInv, Ready, Assumptions, SetupAssumption, Files

\* A write, whole or not, leaves proposed values only.
LEMMA ProposedWritten ==
  ASSUME Assumptions, SetupInv, NEW t \in Terminals, At(t, "writing"),
         NEW f \in Files, Put(f, setup[t].proposed[f])
  PROVE  /\ files' \in Settings /\ files'["config"] # None
         /\ files'[f] = setup[t].proposed[f]
         /\ \A g \in Files \ {f} : files'[g] = files[g]
<1>1. files \in Settings /\ setup[t].proposed \in Settings /\ Complete(setup[t].proposed)
  BY DEF SetupInv, SetupTypeOK, Ready, At
<1>2. files["config"] # None
  BY Running DEF At
<1>3. setup[t].proposed["config"] # None
  BY <1>1 DEF Complete, Files
<1> QED BY <1>1, <1>2, <1>3 DEF Put, Settings, Files

LEMMA BeforeRestored ==
  ASSUME Assumptions, SetupInv, NEW t \in Terminals, setup[t].pc # "idle",
         NEW f \in Files, Put(f, setup[t].before[f])
  PROVE  /\ files' \in Settings /\ files'["config"] # None
         /\ files'[f] = setup[t].before[f]
         /\ \A g \in Files \ {f} : files'[g] = files[g]
<1>1. files \in Settings /\ setup[t].before \in Settings
  BY Running DEF SetupInv, SetupTypeOK
<1>2. files["config"] # None /\ setup[t].before["config"] # None
  BY Running
<1> QED BY <1>1, <1>2 DEF Put, Settings, Files

LEMMA CollectKeeps ==
  ASSUME Assumptions, SetupInv, NEW t \in Terminals, Collect(t)
  PROVE  SetupInv'
<1>1. PICK answer \in [Files -> {None} \cup UNION {Choices[f] : f \in Files}] :
        /\ \A f \in Files : answer[f] \in Entered(f, setup[t].before[f])
        /\ Become(t, [setup[t] EXCEPT !.pc = "committing", !.proposed = answer])
  BY DEF Collect
<1>2. /\ At(t, "asking") /\ setup[t].pc # "idle"
      /\ UNCHANGED <<files, lock, base, faults>>
  BY DEF Collect, At
<1>3. PICK s : s = [setup[t] EXCEPT !.pc = "committing", !.proposed = answer]
  OBVIOUS
<1>4. answer \in Settings
  BY DEF Settings, Values
<1>5. Complete(answer)
  <2> SUFFICES ASSUME NEW f \in Files \ {"proxy"}
               PROVE  answer[f] # None
    BY DEF Complete
  <2>1. answer[f] \in Choices[f] \cup (IF setup[t].before[f] # None
                                       THEN {setup[t].before[f]} ELSE {})
    BY <1>1 DEF Entered
  <2> QED BY <2>1 DEF Assumptions, SetupAssumption
<1>6. /\ s \in SetupRecord /\ s.pc = "committing" /\ s.proposed = answer
      /\ s.before = setup[t].before /\ s.told = setup[t].told /\ s.next = setup[t].next
  BY <1>2, <1>3, <1>4, Running DEF SetupRecord
<1>7. Ready(s)
  BY <1>2, <1>4, <1>5, <1>6, Running DEF Ready, At
<1>8. ~Owner(s) /\ lock # t
  BY <1>2, <1>6 DEF SetupInv, LockInv, Owner, At
<1>9. Committing(t, s, files', base')
  BY <1>6 DEF Committing, Owner
<1> QED
  BY <1>1, <1>2, <1>3, <1>6, <1>7, <1>8, <1>9, Running, OneSetup
  DEF SetupInv, SetupTypeOK

\* A setup that ends without the lock.
LEMMA FinishKeeps ==
  ASSUME Assumptions, SetupInv, NEW t \in Terminals, ~Owner(setup[t]),
         files["config"] # None,
         NEW told \in {"nothing", "refused", "ready", "cancelled", "saved", "restored",
                       "check"},
         Finish(t, told),
         UNCHANGED <<files, lock, base>>, faults' \in Nat
  PROVE  SetupInv'
<1>1. PICK s : s = IdleSetup(told)
  OBVIOUS
<1>2. s \in SetupRecord /\ Ready(s) /\ ~Owner(s) /\ Committing(t, s, files', base')
  BY <1>1, IdleSetupOK
<1>3. lock # t
  BY DEF SetupInv, LockInv
<1> QED BY <1>1, <1>2, <1>3, OneSetup DEF Finish, SetupInv, SetupTypeOK

\* A setup that ends and leaves the lock.
LEMMA ReleaseKeeps ==
  ASSUME Assumptions, SetupInv, NEW t \in Terminals, Owner(setup[t]),
         NEW told \in {"nothing", "refused", "ready", "cancelled", "saved", "restored",
                       "check"},
         Finish(t, told), lock' = None,
         UNCHANGED <<files, base>>, faults' \in Nat
  PROVE  SetupInv'
<1>1. PICK s : s = IdleSetup(told)
  OBVIOUS
<1>2. s \in SetupRecord /\ Ready(s) /\ ~Owner(s) /\ Committing(t, s, files', base')
  BY <1>1, IdleSetupOK
<1>3. lock = t
  BY DEF SetupInv, LockInv
<1>4. \A u \in Terminals : u # None
  BY DEF Assumptions, SetupAssumption
<1>5. files["config"] # None
  BY Running DEF Owner
<1> QED BY <1>1, <1>2, <1>3, <1>4, <1>5, OneSetup DEF Finish, SetupInv, SetupTypeOK

LEMMA BeginCommitKeeps ==
  ASSUME Assumptions, SetupInv, NEW t \in Terminals, BeginCommit(t)
  PROVE  SetupInv'
<1>1. /\ setup[t].pc = "committing" /\ ~Owner(setup[t]) /\ UNCHANGED <<files, faults>>
      /\ files["config"] # None
  BY Running DEF BeginCommit, At, Owner
<1>2. CASE lock = None /\ Unchanged(t)
  <2>1. PICK s : s = [setup[t] EXCEPT !.pc = "writing"]
    OBVIOUS
  <2>2. /\ s \in SetupRecord /\ s.pc = "writing" /\ s.proposed = setup[t].proposed
        /\ s.before = setup[t].before /\ s.told = setup[t].told
        /\ s.next = setup[t].next
    BY <1>1, <2>1, Running DEF SetupRecord
  <2>3. /\ lock' = t /\ base' = [files |-> files, by |-> t] /\ Become(t, s)
        /\ files = setup[t].before
    BY <1>2, <2>1 DEF BeginCommit, Unchanged
  <2>4. Ready(s) /\ Owner(s)
    BY <1>1, <2>2, Running DEF Ready, Owner
  <2>5. \A u \in Terminals : u # None
    BY DEF Assumptions, SetupAssumption
  <2>6. \A i \in 1 .. 4 : ~(i < s.next)
    BY <1>1, <2>2, Running DEF Ready
  <2>7. Committing(t, s, files', base')
    BY <2>2, <2>3, <2>6 DEF Committing
  <2> QED
    BY <1>1, <1>2, <2>2, <2>3, <2>4, <2>5, <2>7, OneSetup DEF SetupInv, SetupTypeOK
<1>3. CASE ~(lock = None /\ Unchanged(t))
  BY <1>1, <1>3, FinishKeeps DEF BeginCommit, SetupInv, SetupTypeOK
<1> QED BY <1>2, <1>3

\* Write and WriteFails put the proposed value of one file.
LEMMA WriteKeeps ==
  ASSUME Assumptions, SetupInv, NEW t \in Terminals, Write(t)
  PROVE  SetupInv'
<1> DEFINE n == setup[t].next
           f == WriteOrder[n]
<1>1. /\ setup[t].pc = "writing" /\ Owner(setup[t]) /\ lock = t
      /\ UNCHANGED <<lock, base, faults>>
  BY DEF Write, At, Owner, SetupInv, LockInv
<1>2. n \in 1 .. 4 /\ f \in Files
  BY <1>1, Running, WriteOrderFacts DEF Write, SetupRecord
<1>3. /\ files' \in Settings /\ files'["config"] # None
      /\ files'[f] = setup[t].proposed[f]
      /\ \A g \in Files \ {f} : files'[g] = files[g]
  BY <1>1, <1>2, ProposedWritten DEF Write
<1>4. PICK s : s = [setup[t] EXCEPT !.next = @ + 1]
  OBVIOUS
<1>5. /\ s \in SetupRecord /\ s.pc = "writing" /\ s.next = n + 1
      /\ s.proposed = setup[t].proposed /\ s.before = setup[t].before
      /\ s.told = setup[t].told
  BY <1>1, <1>2, <1>4, Running DEF SetupRecord
<1>6. Ready(s) /\ Owner(s)
  BY <1>1, <1>5, Running DEF Ready, Owner
<1>7. Committing(t, s, files', base')
  <2>1. Committing(t, setup[t], files, base)
    BY <1>1, Running
  <2>2. \A i \in 1 .. 4 : i < n => files[WriteOrder[i]] = setup[t].proposed[WriteOrder[i]]
    BY <1>1, <2>1 DEF Committing
  <2>3. ASSUME NEW i \in 1 .. 4, i < s.next
        PROVE  files'[WriteOrder[i]] = s.proposed[WriteOrder[i]]
    <3>1. CASE i = n
      BY <1>3, <1>5, <3>1
    <3>2. CASE i # n
      BY <1>2, <1>3, <1>5, <2>2, <2>3, <3>2, WriteOrderFacts
    <3> QED BY <3>1, <3>2
  <2> QED BY <1>1, <1>5, <2>1, <2>3 DEF Committing, Owner
<1> QED
  BY <1>1, <1>3, <1>4, <1>5, <1>6, <1>7, OneSetup DEF Write, SetupInv, SetupTypeOK

LEMMA WriteFailsKeeps ==
  ASSUME Assumptions, SetupInv, NEW t \in Terminals, WriteFails(t)
  PROVE  SetupInv'
<1> DEFINE f == WriteOrder[setup[t].next]
<1>1. /\ setup[t].pc = "writing" /\ Owner(setup[t]) /\ lock = t
      /\ UNCHANGED <<lock, base>> /\ faults' = faults + 1
  BY DEF WriteFails, At, Owner, SetupInv, LockInv
<1>2. f \in Files
  BY <1>1, Running, WriteOrderFacts DEF WriteFails, SetupRecord
<1>3. files' \in Settings /\ files'["config"] # None
  <2>1. CASE Put(f, setup[t].proposed[f])
    BY <1>1, <1>2, <2>1, ProposedWritten DEF At
  <2>2. CASE UNCHANGED files
    BY <1>1, <2>2, Running DEF SetupInv, SetupTypeOK
  <2> QED BY <2>1, <2>2 DEF WriteFails
<1>4. PICK interrupt \in BOOLEAN :
        Become(t, [setup[t] EXCEPT !.pc = "restoring", !.next = 1, !.interrupted = interrupt])
  BY DEF WriteFails
<1>5. PICK s : s = [setup[t] EXCEPT !.pc = "restoring", !.next = 1, !.interrupted = interrupt]
  OBVIOUS
<1>6. /\ s \in SetupRecord /\ s.pc = "restoring" /\ s.next = 1
      /\ s.proposed = setup[t].proposed /\ s.before = setup[t].before
      /\ s.told = setup[t].told
  <2>1. setup[t] \in SetupRecord
    BY <1>1, Running
  <2>2. /\ s.pc = "restoring" /\ s.next = 1
        /\ s.proposed = setup[t].proposed /\ s.before = setup[t].before
        /\ s.told = setup[t].told
    BY <1>5, <2>1 DEF SetupRecord
  <2>3. s \in SetupRecord
    <3>1. s = [pc |-> "restoring", before |-> setup[t].before,
               proposed |-> setup[t].proposed, next |-> 1, complete |-> setup[t].complete,
               interrupted |-> interrupt, told |-> setup[t].told]
      BY <1>5, <2>1 DEF SetupRecord
    <3>2. setup[t].complete \in BOOLEAN
      BY <2>1 DEF SetupRecord
    <3>3. /\ setup[t].before \in {None} \cup Settings
          /\ setup[t].proposed \in {None} \cup Settings
          /\ setup[t].told \in {"nothing", "refused", "ready", "cancelled", "saved",
                                "restored", "check"}
      BY <2>1 DEF SetupRecord
    <3>4. /\ "restoring" \in {"idle", "asking", "committing", "writing", "restoring"}
          /\ 1 \in 1 .. 5
      OBVIOUS
    <3> QED BY <1>4, <3>1, <3>2, <3>3, <3>4, Zenon DEF SetupRecord
  <2> QED BY <2>2, <2>3
<1>7. Ready(s) /\ Owner(s)
  BY <1>1, <1>6, Running DEF Ready, Owner
<1>8. Committing(t, s, files', base')
  <2>1. Committing(t, setup[t], files, base)
    BY <1>1, Running
  <2>2. \A i \in 1 .. 4 : ~(i < s.next)
    BY <1>6
  <2> QED BY <1>1, <1>6, <2>1, <2>2 DEF Committing, Owner
<1> QED
  BY <1>1, <1>3, <1>4, <1>5, <1>6, <1>7, <1>8, OneSetup DEF SetupInv, SetupTypeOK

\* What a restore leaves, done or not.
LEMMA RestoreKeeps ==
  ASSUME Assumptions, SetupInv, NEW t \in Terminals, Restore(t) \/ RestoreFails(t)
  PROVE  SetupInv'
<1> DEFINE n == setup[t].next
           f == RestoreOrder[n]
<1>1. /\ setup[t].pc = "restoring" /\ Owner(setup[t]) /\ lock = t
      /\ UNCHANGED <<lock, base>> /\ faults' \in Nat
  BY DEF Restore, RestoreFails, At, Owner, SetupInv, LockInv, SetupTypeOK
<1>2. n \in 1 .. 4 /\ f \in Files
  BY <1>1, Running, RestoreOrderFacts DEF Restore, RestoreFails, SetupRecord
<1>3. /\ files' \in Settings /\ files'["config"] # None
      /\ \A g \in Files \ {f} : files'[g] = files[g]
  <2>1. CASE Put(f, setup[t].before[f])
    BY <1>1, <1>2, <2>1, BeforeRestored
  <2>2. CASE UNCHANGED files
    BY <1>1, <2>2, Running DEF SetupInv, SetupTypeOK
  <2> QED BY <2>1, <2>2 DEF Restore, RestoreFails
<1>4. \E s : /\ Become(t, s) /\ s \in SetupRecord /\ s.pc = "restoring" /\ s.next = n + 1
             /\ s.proposed = setup[t].proposed /\ s.before = setup[t].before
             /\ s.told = setup[t].told
             /\ s.complete => setup[t].complete /\ Restore(t)
  <2>0. setup[t] \in SetupRecord
    BY <1>1, Running
  <2>1. CASE Restore(t)
    <3>1. PICK s : s = [setup[t] EXCEPT !.next = @ + 1]
      OBVIOUS
    <3>2. s.next = n + 1 /\ s.pc = setup[t].pc
          /\ s.proposed = setup[t].proposed /\ s.before = setup[t].before
          /\ s.told = setup[t].told /\ s.complete = setup[t].complete
      BY <2>0, <3>1 DEF SetupRecord
    <3>3. s \in SetupRecord
      BY <1>2, <2>0, <3>1 DEF SetupRecord
    <3> QED BY <1>1, <2>1, <3>1, <3>2, <3>3 DEF Restore
  <2>2. CASE RestoreFails(t)
    <3>1. PICK s : s = [setup[t] EXCEPT !.next = @ + 1, !.complete = FALSE]
      OBVIOUS
    <3>2. s.next = n + 1 /\ s.pc = setup[t].pc
          /\ s.proposed = setup[t].proposed /\ s.before = setup[t].before
          /\ s.told = setup[t].told /\ ~s.complete
      BY <2>0, <3>1 DEF SetupRecord
    <3>3. s \in SetupRecord
      <4>1. setup[t].interrupted \in BOOLEAN /\ n + 1 \in 1 .. 5
        BY <1>2, <2>0 DEF SetupRecord
      <4>2. s = [pc |-> "restoring", before |-> setup[t].before,
                 proposed |-> setup[t].proposed, next |-> n + 1, complete |-> FALSE,
                 interrupted |-> setup[t].interrupted, told |-> setup[t].told]
        BY <1>1, <2>0, <3>1 DEF SetupRecord
      <4>3. /\ setup[t].before \in {None} \cup Settings
            /\ setup[t].proposed \in {None} \cup Settings
            /\ setup[t].told \in {"nothing", "refused", "ready", "cancelled", "saved",
                                  "restored", "check"}
        BY <2>0 DEF SetupRecord
      <4>4. /\ "restoring" \in {"idle", "asking", "committing", "writing", "restoring"}
            /\ FALSE \in BOOLEAN
        OBVIOUS
      <4> QED BY <4>1, <4>2, <4>3, <4>4, Zenon DEF SetupRecord
    <3> QED BY <1>1, <2>2, <3>1, <3>2, <3>3 DEF RestoreFails
  <2> QED BY <2>1, <2>2
<1>5. PICK s : /\ Become(t, s) /\ s \in SetupRecord /\ s.pc = "restoring" /\ s.next = n + 1
               /\ s.proposed = setup[t].proposed /\ s.before = setup[t].before
               /\ s.told = setup[t].told
               /\ s.complete => setup[t].complete /\ Restore(t)
  BY <1>4
<1>6. Ready(s) /\ Owner(s)
  BY <1>1, <1>5, Running DEF Ready, Owner
<1>7. Committing(t, s, files', base')
  <2>1. Committing(t, setup[t], files, base)
    BY <1>1, Running
  <2>2. ASSUME s.complete, NEW i \in 1 .. 4, i < s.next
        PROVE  files'[RestoreOrder[i]] = s.before[RestoreOrder[i]]
    <3>1. setup[t].complete /\ Restore(t)
      BY <1>5, <2>2
    <3>2. \A j \in 1 .. 4 : j < n => files[RestoreOrder[j]] = setup[t].before[RestoreOrder[j]]
      BY <1>1, <2>1, <3>1 DEF Committing
    <3>3. CASE i = n
      <4>1. CASE Differs(t, f)
        <5>1. Put(f, setup[t].before[f])
          BY <3>1, <4>1 DEF Restore
        <5>2. files'[f] = setup[t].before[f]
          BY <1>1, <1>2, <5>1, BeforeRestored
        <5> QED BY <1>5, <3>3, <5>2
      <4>2. CASE ~Differs(t, f)
        BY <1>5, <3>1, <3>3, <4>2 DEF Restore, Differs
      <4> QED BY <4>1, <4>2
    <3>4. CASE i # n
      BY <1>2, <1>3, <1>5, <2>2, <3>2, <3>4, RestoreOrderFacts
    <3> QED BY <3>3, <3>4
  <2> QED BY <1>1, <1>5, <2>1, <2>2 DEF Committing, Owner
<1> QED
  BY <1>1, <1>3, <1>5, <1>6, <1>7, OneSetup DEF SetupInv, SetupTypeOK

LEMMA SetupStepKeeps ==
  ASSUME Assumptions, SetupInv, NEW t \in Terminals, SetupStep(t)
  PROVE  SetupInv'
<1>0. faults \in Nat
  BY DEF SetupInv, SetupTypeOK
<1>1. CASE Collect(t)
  BY <1>1, CollectKeeps
<1>2. CASE Cancel(t)
  <2>1. setup[t].pc # "idle" /\ ~Owner(setup[t])
    BY <1>2 DEF Cancel, At, Owner
  <2> QED BY <1>0, <1>2, <2>1, Running, FinishKeeps DEF Cancel
<1>3. CASE BeginCommit(t)
  BY <1>3, BeginCommitKeeps
<1>4. CASE Write(t)
  BY <1>4, WriteKeeps
<1>5. CASE WriteFails(t)
  BY <1>5, WriteFailsKeeps
<1>6. CASE Restore(t) \/ RestoreFails(t)
  BY <1>6, RestoreKeeps
<1>7. CASE EndCommit(t)
  <2>1. Owner(setup[t]) /\ lock' = None /\ UNCHANGED <<files, base>>
    BY <1>7 DEF EndCommit, At, Owner, Unlock
  <2>2. faults' \in Nat
    BY <1>0, <1>7 DEF EndCommit
  <2> QED BY <1>7, <2>1, <2>2, ReleaseKeeps DEF EndCommit
<1>8. CASE EndRollback(t)
  <2>1. /\ Owner(setup[t]) /\ lock' = None /\ UNCHANGED <<files, base>>
        /\ Finish(t, Verdict(t)) /\ faults' \in Nat
    BY <1>0, <1>8 DEF EndRollback, At, Owner, Unlock
  <2>2. PICK told : told = Verdict(t)
    OBVIOUS
  <2>3. told \in {"check", "cancelled", "restored"}
    BY <2>2 DEF Verdict
  <2> QED BY <2>1, <2>2, <2>3, ReleaseKeeps
<1>9. CASE SetupDies(t)
  <2>1. /\ setup[t].pc # "idle" /\ UNCHANGED <<files, base>> /\ faults' \in Nat
        /\ Finish(t, "nothing")
    BY <1>0, <1>9 DEF SetupDies
  <2>2. CASE Owner(setup[t])
    <3>1. lock' = None
      BY <1>9, <2>2 DEF SetupDies, SetupInv, LockInv
    <3> QED BY <2>1, <2>2, <3>1, ReleaseKeeps
  <2>3. CASE ~Owner(setup[t])
    <3>1. UNCHANGED lock
      BY <1>9, <2>3 DEF SetupDies, SetupInv, LockInv
    <3> QED BY <2>1, <2>3, <3>1, Running, FinishKeeps
  <2> QED BY <2>2, <2>3
<1> QED
  BY <1>1, <1>2, <1>3, <1>4, <1>5, <1>6, <1>7, <1>8, <1>9 DEF SetupStep

\* A load that reads settings that are there.
LEMMA LoadKeeps ==
  ASSUME Assumptions, SetupInv, NEW t \in Terminals, NEW initial \in BOOLEAN,
         setup[t].pc = "idle", files["config"] # None, Load(t, initial)
  PROVE  SetupInv'
<1>1. ~Owner(setup[t]) /\ lock # t /\ UNCHANGED <<files, lock, base, faults>>
  BY DEF Owner, SetupInv, LockInv, Load
<1>2. CASE Finish(t, "refused") \/ Finish(t, "ready")
  BY <1>1, <1>2, FinishKeeps DEF SetupInv, SetupTypeOK
<1>3. CASE Become(t, [IdleSetup("nothing") EXCEPT !.pc = "asking", !.before = files])
  <2>1. PICK s : s = [IdleSetup("nothing") EXCEPT !.pc = "asking", !.before = files]
    OBVIOUS
  <2>2. files \in Settings
    BY DEF SetupInv, SetupTypeOK
  <2>3. s = [pc |-> "asking", before |-> files, proposed |-> None, next |-> 1,
             complete |-> TRUE, interrupted |-> FALSE, told |-> "nothing"]
    BY <2>1 DEF IdleSetup
  <2>4. /\ s.pc = "asking" /\ s.before = files /\ s.next = 1 /\ s.told = "nothing"
        /\ s \in SetupRecord
    BY <2>2, <2>3 DEF SetupRecord
  <2>5. Ready(s) /\ ~Owner(s) /\ Committing(t, s, files', base')
    BY <2>2, <2>4 DEF Ready, Owner, Committing
  <2> QED BY <1>1, <1>3, <2>1, <2>4, <2>5, OneSetup DEF SetupInv, SetupTypeOK
<1> QED BY <1>2, <1>3 DEF Load, Unreadable

\* An installation without a terminal.
LEMMA SkipKeeps ==
  ASSUME Assumptions, SetupInv, NEW t \in Terminals,
         setup[t].pc = "idle", files["config"] # None, Skip(t)
  PROVE  SetupInv'
<1>1. ~Owner(setup[t]) /\ UNCHANGED <<files, lock, base, faults>> /\ Finish(t, "ready")
  BY DEF Owner, Skip
<1> QED BY <1>1, FinishKeeps DEF SetupInv, SetupTypeOK

\* Only the setup of that terminal changes.
LEMMA OthersStay ==
  ASSUME Assumptions, SetupInv, NEW t \in Terminals,
         SetupStep(t) \/ Skip(t) \/ \E initial \in BOOLEAN : Load(t, initial)
  PROVE  \A u \in Terminals \ {t} : setup'[u] = setup[u]
<1>1. setup \in [Terminals -> SetupRecord]
  BY DEF SetupInv, SetupTypeOK
<1>2. \E s : Become(t, s)
  BY DEF SetupStep, Load, Skip, Unreadable, Collect, Cancel, BeginCommit, Write, WriteFails,
         Restore, RestoreFails, EndCommit, EndRollback, SetupDies, Finish
<1> QED BY <1>1, <1>2 DEF Become

-----------------------------------------------------------------------------
(* The installer and the settings.                                         *)

\* While the installer's own setup is idle, the settings stay complete, or are
\* in the hands of a terminal that found them incomplete.
LEMMA SettledStays ==
  ASSUME Assumptions, SetupInv, NEW t \in Terminals, t # Installer, SetupStep(t), Settled
  PROVE  Settled'
<1>1. CASE UNCHANGED <<files, base>>
  BY <1>1 DEF Settled, Complete
<1>2. CASE BeginCommit(t)
  BY <1>2 DEF BeginCommit, Settled, Complete
<1>3. CASE At(t, "writing") /\ UNCHANGED base
           /\ \E f \in Files : Put(f, setup[t].proposed[f])
  <2>1. PICK f \in Files : Put(f, setup[t].proposed[f])
    BY <1>3
  <2>2. \A g \in Files \ {f} : files'[g] = files[g]
    BY <1>3, <2>1, ProposedWritten
  <2>3. files'[f] = setup[t].proposed[f]
    BY <1>3, <2>1, ProposedWritten
  <2>4. Complete(setup[t].proposed)
    BY <1>3, Running DEF Ready, At
  <2> QED BY <1>3, <2>2, <2>3, <2>4 DEF Settled, Complete
<1>4. CASE At(t, "restoring") /\ UNCHANGED base
           /\ \E f \in Files : Put(f, setup[t].before[f])
  <2>1. PICK f \in Files : Put(f, setup[t].before[f])
    BY <1>4
  <2>2. /\ files'[f] = setup[t].before[f]
        /\ \A g \in Files \ {f} : files'[g] = files[g]
    BY <1>4, <2>1, BeforeRestored DEF At
  <2>3. base.by = t /\ base.files = setup[t].before
    BY <1>4, Running DEF Committing, Owner, At
  <2> QED BY <1>4, <2>2, <2>3 DEF Settled, Complete
<1>5. CASE Write(t) \/ WriteFails(t)
  <2>1. WriteOrder[setup[t].next] \in Files
    <3>1. setup[t].pc = "writing" /\ setup[t].next <= Len(WriteOrder)
      BY <1>5 DEF Write, WriteFails, At
    <3>2. setup[t].next \in 1 .. 5
      BY <3>1, Running DEF SetupRecord
    <3> QED BY <3>1, <3>2, WriteOrderFacts
  <2> QED BY <1>1, <1>3, <1>5, <2>1 DEF Write, WriteFails
<1>6. CASE Restore(t) \/ RestoreFails(t)
  <2>1. RestoreOrder[setup[t].next] \in Files
    BY <1>6, Running, RestoreOrderFacts DEF Restore, RestoreFails, At, SetupRecord
  <2> QED BY <1>1, <1>4, <1>6, <2>1 DEF Restore, RestoreFails
<1>7. CASE Collect(t) \/ Cancel(t) \/ EndCommit(t) \/ EndRollback(t) \/ SetupDies(t)
  BY <1>1, <1>7 DEF Collect, Cancel, EndCommit, EndRollback, SetupDies
<1> QED BY <1>2, <1>5, <1>6, <1>7 DEF SetupStep

LEMMA TargetsFacts ==
  ASSUME Assumptions
  PROVE  /\ DOMAIN Targets = 1 .. Len(Targets)
         /\ \A i \in 1 .. Len(Targets) : Targets[i] \in Sources
<1> DEFINE Names == STRING \cup {"manifest"}
<1>1. Payload \in Seq(STRING)
  BY DEF Assumptions, HandoffAssumption
<1>2. Payload \in Seq(Names) /\ "manifest" \in Names
  BY <1>1
<1> HIDE DEF Names
<1>3. Targets \in Seq(Names)
  BY <1>2, AppendProperties DEF Targets
<1> QED BY <1>3 DEF Sources

LEMMA InitIInv ==
  ASSUME Assumptions, Init
  PROVE  IInv
<1>1. SetupInv
  <2>1. files \in Settings /\ \A f \in Files : files[f] = None
    BY DEF Init, SetupInit, Settings, Values
  <2>2. \A t \in Terminals : setup[t] = IdleSetup("nothing")
    BY DEF Init, SetupInit
  <2>3. setup \in [Terminals -> SetupRecord]
    BY IdleSetupOK DEF Init, SetupInit
  <2>4. SetupTypeOK
    BY <2>1, <2>3 DEF Init, SetupInit, SetupTypeOK, Assumptions, SetupAssumption
  <2>5. \A t \in Terminals : t # None /\ setup[t].pc = "idle" /\ Ready(setup[t])
                             /\ ~Owner(setup[t]) /\ Committing(t, setup[t], files, base)
    BY <2>2, IdleSetupOK DEF Assumptions, SetupAssumption
  <2>6. lock = None /\ offered = {} /\ handoff = "idle"
    BY DEF Init, SetupInit
  <2> QED BY <2>4, <2>5, <2>6 DEF SetupInv, LockInv, CommitInv, ConfigInv
<1>2. HandoffTypeOK
  <2>1. source \in [Sources -> {"pristine", "edited", "late", "gone"}]
    BY DEF Init
  <2>2. launcher \in BOOLEAN /\ offered \subseteq Terminals
    BY DEF Init
  <2> QED BY <2>1, <2>2 DEF Init, HandoffTypeOK
<1>3. \A t \in Terminals : At(t, "idle")
  BY IdleSetupOK DEF Init, SetupInit, At
<1>4. MenuInv /\ UnlinkInv
  BY <1>3 DEF Init, MenuInv, UnlinkInv, Assumptions, HandoffAssumption
<1>5. HandoffInv
  BY DEF Init, HandoffInv, Gone
<1> QED BY <1>1, <1>2, <1>4, <1>5 DEF IInv

\* A step that touches neither the setups nor what they work on.
LEMMA SetupUntouched ==
  ASSUME SetupInv, UNCHANGED setupVars,
         UNCHANGED <<handoff, offered>> \/ files["config"] # None
  PROVE  SetupInv'
<1>1. SetupTypeOK'
  BY DEF SetupInv, SetupTypeOK, setupVars
<1>2. (\A t \in Terminals : Ready(setup[t]))' /\ LockInv' /\ CommitInv'
  BY DEF SetupInv, LockInv, CommitInv, setupVars
<1>3. ConfigInv'
  BY DEF SetupInv, ConfigInv, setupVars
<1> QED BY <1>1, <1>2, <1>3 DEF SetupInv

\* The step of a setup, wherever it runs.
LEMMA SetupStepIInv ==
  ASSUME Assumptions, IInv, NEW t \in Terminals, SetupStep(t),
         UNCHANGED <<handoffVars, offered>>
  PROVE  IInv'
<1>1. SetupInv'
  BY SetupStepKeeps DEF IInv
<1>2. HandoffTypeOK'
  BY DEF IInv, HandoffTypeOK, handoffVars
<1>3. \A u \in Terminals \ {t} : setup'[u] = setup[u]
  BY OthersStay DEF IInv
<1>4. setup[t].pc # "idle"
  BY DEF SetupStep, Collect, Cancel, BeginCommit, Write, WriteFails, Restore, RestoreFails,
         EndCommit, EndRollback, SetupDies, At
<1>5. MenuInv'
  BY <1>3, <1>4 DEF IInv, MenuInv, At, handoffVars, Assumptions, HandoffAssumption,
                    HandoffTypeOK
<1>6. UnlinkInv'
  BY DEF IInv, UnlinkInv, handoffVars
<1>7. HandoffInv'
  <2>1. Gone' <=> Gone
    BY DEF Gone, handoffVars
  <2>2. handoff = "setup" => ~Gone
    BY DEF IInv, HandoffInv
  <2>3. handoff # "setup" => t # Installer
    BY <1>4 DEF IInv, MenuInv, At
  <2>4. handoff # "setup" /\ Settled => Settled'
    BY <2>3, SettledStays DEF IInv
  <2> QED BY <2>1, <2>2, <2>4 DEF IInv, HandoffInv, handoffVars
<1> QED BY <1>1, <1>2, <1>5, <1>6, <1>7 DEF IInv

LEMMA NextIInv ==
  ASSUME Assumptions, IInv, [Next]_vars
  PROVE  IInv'
<1> USE DEF IInv
<1>0. CASE UNCHANGED vars
  <2>1. UNCHANGED setupVars /\ UNCHANGED <<source, launcher, handoff, position, edits, offered>>
    BY <1>0 DEF vars, handoffVars
  <2>2. SetupInv'
    BY <2>1, SetupUntouched
  <2>3. HandoffTypeOK' /\ UnlinkInv'
    BY <2>1 DEF HandoffTypeOK, UnlinkInv
  <2>4. MenuInv' /\ HandoffInv'
    BY <2>1 DEF MenuInv, HandoffInv, At, Gone, Settled, setupVars
  <2> QED BY <2>2, <2>3, <2>4
<1>1. CASE Install
  <2>1. /\ UNCHANGED <<lock, setup, base, faults, source, launcher, position, edits, offered>>
        /\ handoff = "idle" /\ handoff' = "settings" /\ Pristine
    BY <1>1 DEF Install
  <2>2. /\ files' \in Settings /\ files'["config"] # None
        /\ files["config"] # None => files' = files
    <3>1. "config" \in Files
      BY DEF Files
    <3>2. CASE files["config"] # None
      BY <1>1, <3>2 DEF Install, DefaultSettings, SetupInv, SetupTypeOK
    <3>3. CASE files["config"] = None
      <4>1. PICK v : v = CHOOSE w \in Choices["config"] : TRUE
        OBVIOUS
      <4>2. v \in Choices["config"] /\ v # None
        BY <3>1, <4>1 DEF Assumptions, SetupAssumption
      <4>3. v \in Values
        BY <3>1, <4>2 DEF Values
      <4>4. files' = [files EXCEPT !["config"] = v]
        BY <1>1, <3>3, <4>1 DEF Install, DefaultSettings
      <4> QED BY <3>1, <3>3, <4>2, <4>3, <4>4 DEF SetupInv, SetupTypeOK, Settings
    <3> QED BY <3>2, <3>3
  <2>3. SetupInv'
    <3>1. SetupTypeOK'
      BY <2>1, <2>2 DEF SetupInv, SetupTypeOK
    <3>2. (\A t \in Terminals : Ready(setup[t]))' /\ LockInv'
      BY <2>1 DEF SetupInv, LockInv
    <3>3. ASSUME NEW t \in Terminals
          PROVE  Committing(t, setup[t], files', base)
      <4>1. CASE files' = files
        BY <4>1 DEF SetupInv, CommitInv
      <4>2. CASE files["config"] = None
        <5>1. setup[t].pc = "idle"
          BY <4>2 DEF SetupInv, ConfigInv
        <5> QED BY <5>1 DEF Committing, Owner
      <4> QED BY <2>2, <4>1, <4>2
    <3>4. CommitInv'
      BY <2>1, <3>3 DEF CommitInv
    <3>5. ConfigInv'
      BY <2>2 DEF ConfigInv
    <3> QED BY <3>1, <3>2, <3>4, <3>5 DEF SetupInv
  <2>4. HandoffTypeOK' /\ MenuInv' /\ UnlinkInv'
    BY <2>1 DEF HandoffTypeOK, MenuInv, UnlinkInv, At
  <2>5. HandoffInv'
    BY <2>1 DEF HandoffInv, Gone, Pristine
  <2> QED BY <2>3, <2>4, <2>5
<1>2. CASE Configure
  <2>1. /\ handoff = "settings" /\ handoff' = "setup"
        /\ Load(Installer, TRUE) \/ Skip(Installer)
        /\ UNCHANGED <<source, launcher, position, edits, offered>>
        /\ UNCHANGED <<files, lock, base, faults>>
        /\ Installer \in Terminals /\ setup[Installer].pc = "idle"
    BY <1>2 DEF Configure, Load, Skip, MenuInv, At, Assumptions, HandoffAssumption
  <2>2. files["config"] # None
    BY <2>1 DEF SetupInv, ConfigInv
  <2>3. SetupInv'
    BY <2>1, <2>2, LoadKeeps, SkipKeeps
  <2>4. \A u \in Terminals \ {Installer} : setup'[u] = setup[u]
    BY <2>1, OthersStay
  <2>5. HandoffTypeOK' /\ UnlinkInv'
    BY <2>1 DEF HandoffTypeOK, UnlinkInv
  <2>6. MenuInv'
    BY <2>1, <2>4 DEF MenuInv, At, HandoffTypeOK
  <2>7. HandoffInv'
    BY <2>1 DEF HandoffInv, Gone
  <2> QED BY <2>3, <2>5, <2>6, <2>7
<1>3. CASE Installed
  <2>1. /\ UNCHANGED setupVars /\ UNCHANGED <<source, launcher, position, edits, offered>>
        /\ handoff = "setup" /\ At(Installer, "idle")
        /\ handoff' = IF MayHandOff THEN "installed" ELSE "idle"
    BY <1>3 DEF Installed, At
  <2>2. files["config"] # None
    BY <2>1 DEF SetupInv, ConfigInv
  <2>3. SetupInv'
    BY <2>1, <2>2, SetupUntouched
  <2>4. HandoffTypeOK' /\ MenuInv' /\ UnlinkInv'
    BY <2>1 DEF HandoffTypeOK, MenuInv, UnlinkInv, At, setupVars
  <2>5. HandoffInv'
    BY <2>1 DEF HandoffInv, Gone, Settled, MayHandOff, setupVars, Complete
  <2> QED BY <2>3, <2>4, <2>5
<1>4. CASE CreateLauncher \/ Validate \/ CheckTarget \/ Cleaned
  <2>1. /\ UNCHANGED setupVars /\ UNCHANGED <<source, edits, offered>>
        /\ handoff \in {"installed", "validating", "checking"}
        /\ handoff' \in {"idle", "validating", "checking", "unlinking"}
        /\ launcher' \in BOOLEAN /\ position' \in Nat \ {0}
    <3>1. launcher \in BOOLEAN /\ position \in Nat \ {0}
      BY DEF HandoffTypeOK
    <3>2. CASE CreateLauncher
      <4>1. launcher' \in BOOLEAN
        BY <3>1, <3>2 DEF CreateLauncher
      <4> QED BY <3>1, <3>2, <4>1 DEF CreateLauncher
    <3>3. CASE Validate
      BY <3>1, <3>3 DEF Validate
    <3>4. CASE CheckTarget
      BY <3>1, <3>4 DEF CheckTarget
    <3>5. CASE Cleaned
      BY <3>1, <3>5 DEF Cleaned
    <3> QED BY <1>4, <3>2, <3>3, <3>4, <3>5
  <2>2. files["config"] # None
    BY <2>1 DEF SetupInv, ConfigInv
  <2>3. SetupInv'
    BY <2>1, <2>2, SetupUntouched
  <2>4. HandoffTypeOK' /\ MenuInv'
    BY <2>1 DEF HandoffTypeOK, MenuInv, At, setupVars
  <2>5. UnlinkInv'
    <3>1. CASE handoff' = "unlinking"
      <4>1. CheckTarget /\ StillPristine /\ UNCHANGED <<source, position>>
        BY <1>4, <3>1 DEF CreateLauncher, Validate, CheckTarget, Cleaned
      <4>2. position \in 1 .. Len(Targets)
        BY <4>1, TargetsFacts DEF CheckTarget, HandoffTypeOK
      <4> QED BY <4>1, <4>2, TargetsFacts DEF StillPristine, UnlinkInv
    <3> QED BY <3>1 DEF UnlinkInv
  <2>6. HandoffInv'
    <3>1. Gone' = Gone /\ Settled' = Settled
      BY <2>1 DEF Gone, Settled, setupVars
    <3> QED BY <1>4, <2>1, <3>1
            DEF HandoffInv, CreateLauncher, Validate, CheckTarget, Cleaned
  <2> QED BY <2>3, <2>4, <2>5, <2>6
<1>5. CASE Unlink
  <2>1. /\ UNCHANGED setupVars /\ UNCHANGED <<launcher, edits, offered>>
        /\ handoff = "unlinking" /\ handoff' \in {"idle", "checking"}
        /\ position' \in Nat \ {0}
        /\ source' = source \/ source' = [source EXCEPT ![Targets[position]] = "gone"]
    BY <1>5 DEF Unlink, HandoffTypeOK
  <2>2. files["config"] # None
    BY <2>1 DEF SetupInv, ConfigInv
  <2>3. SetupInv'
    BY <2>1, <2>2, SetupUntouched
  <2>4. HandoffTypeOK' /\ MenuInv' /\ UnlinkInv'
    BY <2>1 DEF HandoffTypeOK, MenuInv, UnlinkInv, At, setupVars
  <2>5. HandoffInv'
    BY <2>1 DEF HandoffInv, Settled, setupVars
  <2> QED BY <2>3, <2>4, <2>5
<1>6. CASE InstallerDies
  <2>1. /\ UNCHANGED <<files, lock, setup, base, source, launcher, position, edits, offered>>
        /\ handoff \notin {"idle", "setup"} /\ handoff' = "idle" /\ faults' = faults + 1
    BY <1>6 DEF InstallerDies
  <2>2. SetupInv'
    BY <2>1 DEF SetupInv, SetupTypeOK, LockInv, CommitInv, ConfigInv
  <2>3. HandoffTypeOK' /\ MenuInv' /\ UnlinkInv'
    BY <2>1 DEF HandoffTypeOK, MenuInv, UnlinkInv, At
  <2>4. HandoffInv'
    BY <2>1 DEF HandoffInv, Gone, Settled
  <2> QED BY <2>2, <2>3, <2>4
<1>7. ASSUME NEW f \in Sources, EditSource(f)
      PROVE  IInv'
  <2>1. /\ UNCHANGED setupVars /\ UNCHANGED <<launcher, handoff, position, offered>>
        /\ source[f] # "gone" /\ edits' = edits + 1
        /\ source' = [source EXCEPT ![f] =
             IF handoff = "unlinking" /\ f = Targets[position] THEN "late" ELSE "edited"]
    BY <1>7 DEF EditSource
  <2>2. SetupInv'
    BY <2>1, SetupUntouched
  <2>3. HandoffTypeOK' /\ MenuInv'
    BY <2>1 DEF HandoffTypeOK, MenuInv, At, setupVars
  <2>4. UnlinkInv'
    BY <2>1 DEF UnlinkInv, HandoffTypeOK
  <2>5. Gone' <=> Gone
    BY <2>1 DEF Gone, HandoffTypeOK
  <2>6. HandoffInv'
    BY <2>1, <2>5 DEF HandoffInv, Settled, setupVars
  <2> QED BY <2>2, <2>3, <2>4, <2>6
<1>8. ASSUME NEW t \in Terminals, OfferSettings(t)
      PROVE  IInv'
  <2>1. /\ UNCHANGED setupVars /\ UNCHANGED <<source, launcher, handoff, position, edits>>
        /\ offered' = offered \cup {t} /\ t # Installer /\ At(t, "idle")
        /\ files["config"] # None
    BY <1>8 DEF OfferSettings, handoffVars
  <2>2. SetupInv'
    BY <2>1, SetupUntouched
  <2>3. HandoffTypeOK' /\ MenuInv' /\ UnlinkInv'
    BY <2>1 DEF HandoffTypeOK, MenuInv, UnlinkInv, At, setupVars
  <2>4. HandoffInv'
    BY <2>1 DEF HandoffInv, Gone, Settled, setupVars
  <2> QED BY <2>2, <2>3, <2>4
<1>9. ASSUME NEW t \in Terminals, OpenSettings(t)
      PROVE  IInv'
  <2>1. /\ UNCHANGED <<source, launcher, handoff, position, edits>>
        /\ UNCHANGED <<files, lock, base, faults>>
        /\ t \in offered /\ offered' = offered \ {t} /\ Load(t, FALSE)
        /\ t # Installer /\ setup[t].pc = "idle"
    BY <1>9 DEF OpenSettings, Load, handoffVars, MenuInv, At
  <2>2. files["config"] # None
    BY <2>1 DEF SetupInv, ConfigInv
  <2>3. SetupInv'
    BY <2>1, <2>2, LoadKeeps
  <2>4. \A u \in Terminals \ {t} : setup'[u] = setup[u]
    BY <2>1, OthersStay
  <2>5. HandoffTypeOK' /\ UnlinkInv'
    BY <2>1 DEF HandoffTypeOK, UnlinkInv
  <2>6. MenuInv'
    BY <2>1, <2>4 DEF MenuInv, At, HandoffTypeOK, Assumptions, HandoffAssumption
  <2>7. HandoffInv'
    BY <2>1 DEF HandoffInv, Gone, Settled
  <2> QED BY <2>3, <2>5, <2>6, <2>7
<1>10. CASE (UpdaterLocks \/ UpdaterUnlocks) /\ UNCHANGED <<handoffVars, offered>>
  <2>1. /\ UNCHANGED <<files, setup, base, faults>>
        /\ UNCHANGED <<source, launcher, handoff, position, edits, offered>>
        /\ lock \in {None, "updater"} /\ lock' \in {None, "updater"}
    BY <1>10 DEF UpdaterLocks, UpdaterUnlocks, Unlock, handoffVars
  <2>2. SetupInv'
    <3>1. SetupTypeOK' /\ (\A t \in Terminals : Ready(setup[t]))' /\ CommitInv' /\ ConfigInv'
      BY <2>1 DEF SetupInv, SetupTypeOK, CommitInv, ConfigInv
    <3>2. \A t \in Terminals : lock # t /\ lock' # t
      BY <2>1 DEF Assumptions, SetupAssumption
    <3>3. LockInv'
      BY <2>1, <3>2 DEF SetupInv, LockInv
    <3> QED BY <3>1, <3>3 DEF SetupInv
  <2>3. HandoffTypeOK' /\ MenuInv' /\ UnlinkInv'
    BY <2>1 DEF HandoffTypeOK, MenuInv, UnlinkInv, At
  <2>4. HandoffInv'
    BY <2>1 DEF HandoffInv, Gone, Settled
  <2> QED BY <2>2, <2>3, <2>4
<1>11. ASSUME NEW t \in Terminals, SetupStep(t) /\ UNCHANGED <<handoffVars, offered>>
       PROVE  IInv'
  BY <1>11, SetupStepIInv
<1> HIDE DEF IInv
<1> QED
  BY <1>0, <1>1, <1>2, <1>3, <1>4, <1>5, <1>6, <1>7, <1>8, <1>9, <1>10, <1>11 DEF Next

-----------------------------------------------------------------------------
(* Theorems.                                                               *)

\* The type invariant, who holds update.lock, and what a commit, its rollback
\* and the handoff have done so far (device_setup.py, install_handoff.py), at
\* every reachable state.
THEOREM InvHolds == Spec => []IInv
<1>1. Assumptions
  BY SetupAssumption, HandoffAssumption DEF Assumptions
<1>2. Init => IInv
  BY <1>1, InitIInv
<1>3. IInv /\ [Next]_vars => IInv'
  BY <1>1, NextIInv
<1> QED BY <1>2, <1>3, PTL DEF Spec

\* Once the installer's files begin to go, the launcher is there, and the
\* settings are complete or another terminal has taken back what it completed.
THEOREM NobodyIsStranded == Spec => []NeverStranded
<1>1. IInv => NeverStranded
  BY DEF IInv, HandoffInv, Gone, Settled, NeverStranded
<1> QED BY <1>1, InvHolds, PTL

\* A step that tells the user of a commit is the last step of that commit.
LEMMA TellingSteps ==
  ASSUME Assumptions, IInv, Next, NEW t \in Terminals, Owner(setup[t]),
         setup'[t].told # "nothing"
  PROVE  EndCommit(t) \/ EndRollback(t)
<1>1. setup[t].told = "nothing" /\ setup[t] \in SetupRecord
  BY Running DEF IInv, Owner
<1>2. SetupInv /\ setup \in [Terminals -> SetupRecord]
  BY DEF IInv, SetupInv, SetupTypeOK
<1>3. setup'[t] # setup[t]
  BY <1>1
<1>4. ASSUME NEW u \in Terminals, SetupStep(u)
      PROVE  EndCommit(t) \/ EndRollback(t)
  <2>1. u = t
    BY <1>2, <1>3, <1>4, OthersStay
  <2>2. SetupStep(t)
    BY <1>4, <2>1
  <2>3. ~(Collect(t) \/ Cancel(t) \/ BeginCommit(t))
    BY DEF Collect, Cancel, BeginCommit, At, Owner
  <2>4. ~(Write(t) \/ WriteFails(t) \/ Restore(t) \/ RestoreFails(t))
    <3>1. \A s : Become(t, s) => setup'[t] = s
      BY <1>2 DEF Become
    <3>2. /\ ~Write(t) /\ ~Restore(t)
      <4>1. [setup[t] EXCEPT !.next = @ + 1].told = "nothing"
        BY <1>1 DEF SetupRecord
      <4> QED BY <3>1, <4>1 DEF Write, Restore
    <3>3. ~RestoreFails(t)
      <4>1. [setup[t] EXCEPT !.next = @ + 1, !.complete = FALSE].told = "nothing"
        BY <1>1 DEF SetupRecord
      <4> QED BY <3>1, <4>1 DEF RestoreFails
    <3>4. ~WriteFails(t)
      <4>1. \A interrupt \in BOOLEAN :
              [setup[t] EXCEPT !.pc = "restoring", !.next = 1, !.interrupted = interrupt].told
                = "nothing"
        BY <1>1 DEF SetupRecord
      <4> QED BY <3>1, <4>1 DEF WriteFails
    <3> QED BY <3>2, <3>3, <3>4
  <2>5. ~SetupDies(t)
    <3>1. Finish(t, "nothing") => setup'[t].told = "nothing"
      BY <1>2, IdleSetupOK DEF Finish, Become
    <3> QED BY <3>1 DEF SetupDies
  <2> QED BY <2>2, <2>3, <2>4, <2>5 DEF SetupStep
<1>5. ~Configure
  <2>1. Configure => handoff = "settings" /\ (Load(Installer, TRUE) \/ Skip(Installer))
    BY DEF Configure
  <2>2. Configure => setup[Installer].pc = "idle" /\ Installer \in Terminals
    BY <2>1 DEF IInv, MenuInv, At, Assumptions, HandoffAssumption
  <2> QED BY <1>2, <1>3, <2>1, <2>2, OthersStay DEF Owner
<1>6. ASSUME NEW u \in Terminals
      PROVE  ~OpenSettings(u)
  <2>1. OpenSettings(u) => setup[u].pc = "idle" /\ Load(u, FALSE)
    BY DEF OpenSettings, IInv, MenuInv, At
  <2> QED BY <1>2, <1>3, <2>1, OthersStay DEF Owner
<1>7. ~(Install \/ Installed \/ CreateLauncher \/ Validate \/ CheckTarget \/ Unlink \/ Cleaned
          \/ InstallerDies \/ UpdaterLocks \/ UpdaterUnlocks)
  BY <1>3 DEF Install, Installed, CreateLauncher, Validate, CheckTarget, Unlink, Cleaned,
              InstallerDies, UpdaterLocks, UpdaterUnlocks, setupVars
<1>8. /\ \A f \in Sources : ~EditSource(f)
      /\ \A u \in Terminals : ~OfferSettings(u)
  BY <1>3 DEF EditSource, OfferSettings, setupVars
<1> QED BY <1>4, <1>5, <1>6, <1>7, <1>8 DEF Next

\* What the end of a commit tells, and of which files.
LEMMA TellsTheTruth ==
  ASSUME Assumptions, IInv, Next, NEW t \in Terminals, Owner(setup[t]),
         setup'[t].told # "nothing"
  PROVE  /\ files' = files
         /\ \/ /\ setup[t].pc = "writing" /\ setup'[t].told \in {"saved", "cancelled"}
               /\ files = setup[t].proposed
            \/ /\ setup[t].pc = "restoring" /\ setup'[t].told = "check"
            \/ /\ setup[t].pc = "restoring" /\ setup'[t].told \in {"restored", "cancelled"}
               /\ files = base.files
<1>0. /\ SetupInv /\ setup \in [Terminals -> SetupRecord]
      /\ files \in Settings /\ setup[t].before \in Settings
      /\ Ready(setup[t]) /\ Committing(t, setup[t], files, base)
  BY Running DEF IInv, SetupInv, SetupTypeOK, Owner
<1>1. setup[t].next \in 1 .. 5
  BY <1>0 DEF SetupRecord
<1>2. \A told : Finish(t, told) => setup'[t].told = told
  BY <1>0 DEF Finish, Become, IdleSetup
<1>3. CASE EndCommit(t)
  <2>1. setup[t].pc = "writing" /\ setup[t].next = 5 /\ files' = files
    BY <1>1, <1>3, WriteOrderFacts DEF EndCommit, At
  <2>2. \A i \in 1 .. 4 : files[WriteOrder[i]] = setup[t].proposed[WriteOrder[i]]
    BY <1>0, <2>1 DEF Committing
  <2>3. setup[t].proposed \in Settings
    BY <1>0, <2>1 DEF Ready
  <2>4. \A f \in Files : files[f] = setup[t].proposed[f]
    BY <2>2, WriteOrderFacts
  <2>5. files = setup[t].proposed
    BY <1>0, <2>3, <2>4 DEF Settings
  <2> QED BY <1>2, <1>3, <2>1, <2>5 DEF EndCommit
<1>4. CASE EndRollback(t)
  <2>1. /\ setup[t].pc = "restoring" /\ setup[t].next = 5 /\ files' = files
        /\ setup'[t].told = Verdict(t)
    BY <1>1, <1>2, <1>4, RestoreOrderFacts DEF EndRollback, At
  <2>2. CASE ~setup[t].complete
    BY <2>1, <2>2 DEF Verdict
  <2>3. CASE setup[t].complete
    <3>1. \A i \in 1 .. 4 : files[RestoreOrder[i]] = setup[t].before[RestoreOrder[i]]
      BY <1>0, <2>1, <2>3 DEF Committing
    <3>2. \A f \in Files : files[f] = setup[t].before[f]
      BY <3>1, RestoreOrderFacts
    <3>3. files = setup[t].before
      BY <1>0, <3>2 DEF Settings
    <3>4. base.files = setup[t].before
      BY <1>0 DEF Committing
    <3> QED BY <2>1, <2>3, <3>3, <3>4 DEF Verdict
  <2> QED BY <2>2, <2>3
<1> QED BY <1>3, <1>4, TellingSteps

\* Between its questions and its commit a setup loses nothing another terminal
\* saved: what its user left alone is as it was when it began to write.
THEOREM NoUpdateIsLost == Spec => NoLostUpdate
<1> DEFINE Step == \A t \in Terminals : setup'[t].told = "saved" /\ setup[t].pc = "writing" =>
             \A f \in Files : setup[t].proposed[f] = setup[t].before[f] => files'[f] = base.files[f]
<1>1. Assumptions
  BY SetupAssumption, HandoffAssumption DEF Assumptions
<1>2. IInv /\ [Next]_vars => [Step]_vars
  <2> SUFFICES ASSUME IInv, Next, NEW t \in Terminals,
                      setup'[t].told = "saved", setup[t].pc = "writing",
                      NEW f \in Files, setup[t].proposed[f] = setup[t].before[f]
               PROVE  files'[f] = base.files[f]
    OBVIOUS
  <2>1. Owner(setup[t])
    BY DEF Owner
  <2>2. files' = setup[t].proposed
    BY <1>1, <2>1, TellsTheTruth
  <2>3. base.files = setup[t].before
    BY <1>1, <2>1 DEF IInv, SetupInv, CommitInv, Committing
  <2> QED BY <2>2, <2>3
<1> QED BY <1>2, InvHolds, PTL DEF Spec, NoLostUpdate

\* A commit that says "saved" has saved every file, and a rollback that says
\* "restored" or "cancelled" has left every file as it was, whatever failed before.
\* Nothing is said of Ctrl-C after the last write (device_setup.py:437), where the
\* message is wrong: CancelledSavesNothing.
THEOREM TheOutcomeIsTrue == Spec => OutcomeIsTrue
<1> DEFINE Step == \A t \in Terminals :
             /\ At(t, "writing") /\ setup'[t].told = "saved" => files' = setup[t].proposed
             /\ At(t, "restoring") /\ setup'[t].told \in {"restored", "cancelled"} =>
                  files' = base.files
<1>1. Assumptions
  BY SetupAssumption, HandoffAssumption DEF Assumptions
<1>2. IInv /\ [Next]_vars => [Step]_vars
  <2>1. ASSUME IInv, Next, NEW t \in Terminals, At(t, "writing"), setup'[t].told = "saved"
        PROVE  files' = setup[t].proposed
    <3>1. Owner(setup[t]) /\ setup[t].pc = "writing" /\ setup'[t].told # "nothing"
      BY <2>1 DEF Owner, At
    <3> QED BY <1>1, <2>1, <3>1, TellsTheTruth
  <2>2. ASSUME IInv, Next, NEW t \in Terminals, At(t, "restoring"),
               setup'[t].told \in {"restored", "cancelled"}
        PROVE  files' = base.files
    <3>1. Owner(setup[t]) /\ setup[t].pc = "restoring" /\ setup'[t].told # "nothing"
      BY <2>2 DEF Owner, At
    <3> QED BY <1>1, <2>2, <3>1, TellsTheTruth
  <2> QED BY <2>1, <2>2
<1> QED BY <1>2, InvHolds, PTL DEF Spec, OutcomeIsTrue

\* A file the user changed before its own check is never removed.
THEOREM TheEditsSurvive == Spec => EditsSurvive
<1> DEFINE Step == \A f \in Sources : source[f] = "edited" => source'[f] = "edited"
<1>1. IInv /\ [Next]_vars => [Step]_vars
  <2> SUFFICES ASSUME IInv, Next, NEW f \in Sources, source[f] = "edited"
               PROVE  source'[f] = "edited"
    OBVIOUS
  <2>1. CASE Unlink
    <3>1. f # Targets[position]
      BY <2>1 DEF Unlink, IInv, UnlinkInv
    <3> QED BY <2>1, <3>1 DEF Unlink, IInv, HandoffTypeOK
  <2>2. ASSUME NEW g \in Sources, EditSource(g)
        PROVE  source'[f] = "edited"
    BY <2>2 DEF EditSource, IInv, HandoffTypeOK, UnlinkInv
  <2>3. CASE Install \/ Configure \/ Installed \/ CreateLauncher \/ Validate \/ CheckTarget
               \/ Cleaned \/ InstallerDies
    BY <2>3 DEF Install, Configure, Installed, CreateLauncher, Validate, CheckTarget, Cleaned,
                InstallerDies
  <2>4. CASE UNCHANGED handoffVars
    BY <2>4 DEF handoffVars
  <2> QED BY <2>1, <2>2, <2>3, <2>4 DEF Next, OfferSettings, OpenSettings
<1> QED BY <1>1, InvHolds, PTL DEF Spec, EditsSurvive

=============================================================================
