--------------------------- MODULE InstallHandoff ---------------------------
(***************************************************************************)
(* A native installation from the folder of an unpacked archive: default   *)
(* settings (native_install.py), the initial setup (DeviceSetup), and the  *)
(* handoff (install_handoff.py), which leaves a launcher in that folder    *)
(* and removes the installer's own files if nobody touched them.  The user *)
(* may edit the files of the folder, open the settings from another menu,  *)
(* and kill the installation and run it again.                             *)
(***************************************************************************)
EXTENDS DeviceSetup

CONSTANTS
  Installer,  \* the terminal that installs
  Payload,    \* the files of the archive, in the order of their removal
  MaxEdits    \* bound of the model on edits of those files

ASSUME HandoffAssumption ==
  /\ Installer \in Terminals
  /\ Payload \in Seq(STRING)
  /\ MaxEdits \in Nat

VARIABLES
  source,    \* the files in the folder
  launcher,  \* LiteChecker.command is there
  handoff,   \* what the installer does besides its setup
  position,  \* the target _cleanup is at
  offered,   \* terminals whose menu offers the settings
  edits      \* the edits so far

handoffVars == <<source, launcher, handoff, position, edits>>
vars == <<setupVars, handoffVars, offered>>

\* The manifest goes last.
Targets == Append(Payload, "manifest")

Sources == {Targets[i] : i \in DOMAIN Targets}

Init ==
  /\ SetupInit
  /\ source = [f \in Sources |-> "pristine"]
  /\ launcher = FALSE
  /\ handoff = "idle" /\ position = 1
  /\ offered = {}
  /\ edits = 0

Pristine == \A f \in Sources : source[f] = "pristine"

-----------------------------------------------------------------------------

\* _write_settings: what is there stays.
DefaultSettings ==
  IF files["config"] # None THEN files
  ELSE [files EXCEPT !["config"] = CHOOSE v \in Choices["config"] : TRUE]

\* The archive is verified and copied, and the initial setup begins.
Install ==
  /\ handoff = "idle" /\ Pristine
  /\ handoff' = "settings"
  /\ files' = DefaultSettings
  /\ UNCHANGED <<lock, setup, base, faults, source, launcher, position, edits, offered>>

\* Without a terminal nothing is asked, and the installation goes on as after a
\* setup that finds everything there.
Skip(t) ==
  /\ Finish(t, "ready")
  /\ UNCHANGED <<files, lock, base, faults>>

Configure ==
  /\ handoff = "settings"
  /\ handoff' = "setup"
  /\ Load(Installer, TRUE) \/ Skip(Installer)
  /\ UNCHANGED <<source, launcher, position, edits, offered>>

\* Mutant: the handoff is content with the proof it makes itself.
SettingsThere == files["config"] # None

\* install.sh goes on after exit code 0, and with settings the service can load.
MayHandOff == setup[Installer].told \in {"ready", "saved"} /\ Complete(files)

Installed ==
  /\ handoff = "setup" /\ setup[Installer].pc = "idle"
  /\ handoff' = IF MayHandOff THEN "installed" ELSE "idle"
  /\ UNCHANGED <<setupVars, source, launcher, position, edits, offered>>

\* _create_launcher, which never overwrites.
CreateLauncher ==
  /\ handoff = "installed"
  /\ IF launcher THEN handoff' = "idle" /\ UNCHANGED launcher
     ELSE handoff' = "validating" /\ launcher' = TRUE
  /\ UNCHANGED <<setupVars, source, position, edits, offered>>

\* _validate_bundle.  An edit during it is one before or after it.
Validate ==
  /\ handoff = "validating"
  /\ handoff' = IF Pristine THEN "checking" ELSE "idle"
  /\ position' = 1
  /\ UNCHANGED <<setupVars, source, launcher, edits, offered>>

\* Mutant: the inventory is trusted.
Inventoried == TRUE

StillPristine == source[Targets[position]] = "pristine"

\* The digest of the next target, then its unlink.
CheckTarget ==
  /\ handoff = "checking" /\ position <= Len(Targets)
  /\ handoff' = IF StillPristine THEN "unlinking" ELSE "idle"
  /\ UNCHANGED <<setupVars, source, launcher, position, edits, offered>>

\* It fails, or is interrupted, with the file kept.
Unlink ==
  /\ handoff = "unlinking"
  /\ \/ /\ source' = [source EXCEPT ![Targets[position]] = "gone"]
        /\ handoff' = "checking" /\ position' = position + 1
     \/ handoff' = "idle" /\ UNCHANGED <<source, position>>
  /\ UNCHANGED <<setupVars, launcher, edits, offered>>

\* Directories that are not empty stay.
Cleaned ==
  /\ handoff = "checking" /\ position > Len(Targets)
  /\ handoff' = "idle"
  /\ UNCHANGED <<setupVars, source, launcher, position, edits, offered>>

InstallerDies ==
  /\ handoff \notin {"idle", "setup"} /\ faults < MaxFaults
  /\ faults' = faults + 1
  /\ handoff' = "idle"
  /\ UNCHANGED <<files, lock, setup, base, source, launcher, position, edits, offered>>

\* The user changes or replaces a file of the folder.
EditSource(f) ==
  /\ source[f] # "gone" /\ edits < MaxEdits
  /\ edits' = edits + 1
  /\ source' = [source EXCEPT ![f] =
       IF handoff = "unlinking" /\ f = Targets[position] THEN "late" ELSE "edited"]
  /\ UNCHANGED <<setupVars, launcher, handoff, position, offered>>

\* The menu of an installation offers the settings, and stops the service first.
OfferSettings(t) ==
  /\ t # Installer /\ At(t, "idle") /\ t \notin offered
  /\ \A f \in {"config", "token", "subscription"} : files[f] # None
  /\ offered' = offered \cup {t}
  /\ UNCHANGED <<setupVars, handoffVars>>

OpenSettings(t) ==
  /\ t \in offered
  /\ offered' = offered \ {t}
  /\ Load(t, FALSE)
  /\ UNCHANGED handoffVars

Next ==
  \/ Install \/ Configure \/ Installed \/ CreateLauncher \/ Validate
  \/ CheckTarget \/ Unlink \/ Cleaned \/ InstallerDies
  \/ \E f \in Sources : EditSource(f)
  \/ \E t \in Terminals : OfferSettings(t) \/ OpenSettings(t)
  \/ (UpdaterLocks \/ UpdaterUnlocks) /\ UNCHANGED <<handoffVars, offered>>
  \/ \E t \in Terminals : SetupStep(t) /\ UNCHANGED <<handoffVars, offered>>

Spec == Init /\ [][Next]_vars

-----------------------------------------------------------------------------
(* Properties.                                                             *)

\* A setup that says "saved" changed only what its user entered: what another
\* terminal saved between its questions and its commit is still there.
NoLostUpdate ==
  [][\A t \in Terminals : setup'[t].told = "saved" /\ setup[t].pc = "writing" =>
       \A f \in Files : setup[t].proposed[f] = setup[t].before[f] => files'[f] = base.files[f]]_vars

\* A commit that says "saved" has saved every file, and a rollback that says
\* "restored" or "cancelled" has left every file as it was, whichever writes and
\* restores failed or were interrupted on the way.
OutcomeIsTrue ==
  [][\A t \in Terminals :
       /\ At(t, "writing") /\ setup'[t].told = "saved" => files' = setup[t].proposed
       /\ At(t, "restoring") /\ setup'[t].told \in {"restored", "cancelled"} =>
            files' = base.files]_vars

\* A cancelled setup saves nothing, as its message says (device_setup.py:456): also
\* one that is interrupted during its commit.
CancelledSavesNothing ==
  [][\A t \in Terminals :
       (At(t, "writing") \/ At(t, "restoring")) /\ setup'[t].told = "cancelled" =>
         files' = base.files]_vars

\* Once the installer's files begin to go the user has the launcher, and the
\* installation has its settings, whatever is killed or fails meanwhile.  One
\* way out is left: the installer may have seen another terminal complete them,
\* without the lock, and that terminal may take them back.
NeverStranded ==
  (\E f \in Sources : source[f] = "gone") =>
    /\ launcher
    /\ Complete(files) \/ (base.by # Installer /\ ~Complete(base.files))

\* A file changed before its own check is never removed, also when that change
\* comes after the inventory has found the folder pristine.
EditsSurvive ==
  [][\A f \in Sources : source[f] = "edited" => source'[f] = "edited"]_vars

=============================================================================
