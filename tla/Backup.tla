-------------------------------- MODULE Backup --------------------------------
(***************************************************************************)
(* Backup and restore of the daemon's directory. A restore moves the       *)
(* directory away, extracts the archive in its place, makes the system     *)
(* match the new state (applications, recovery keys) and reboots; on an    *)
(* error it puts back what there is of the old directory. Power may be     *)
(* lost anywhere, and a removal may stop with any of the files gone.       *)
(*                                                                         *)
(* The directory holds the state file (a configuration, the applications   *)
(* and the recovery keys it lists), the key of the local pool and the      *)
(* files that unlock the volumes; the last two belong to an installation.  *)
(***************************************************************************)
EXTENDS Integers, FiniteSets, Sequences

CONSTANTS
    Volumes,      \* the encrypted volumes, root and swap
    Primary,      \* primary applications
    Skips,        \* the sets of things a restore may be told to skip
    OtherArchives,\* archives a user has from elsewhere
    MaxRestores,  \* how many restores are tried
    RestoreLosses \* how often the power may be lost

ASSUME BackupAssumption ==
    /\ MaxRestores \in Nat /\ RestoreLosses \in Nat /\ "incus" \in Primary

VARIABLES
    dir,      \* /var/lib/incus-os
    bak,      \* /var/lib/incus-os.bak
    held,     \* the state the daemon holds
    slotKeys, \* recovery keys enrolled in each volume
    archive,  \* the last backup a user took
    restore,  \* the restore under way
    old,      \* the directory a restore moved away and has not yet made up for or put back
    faithful, \* no restore failed, lost power or skipped the recovery keys
    restores, lossesLeft

backupVars == <<dir, bak, held, slotKeys, archive, restore, old, faithful, restores, lossesLeft>>

\* Files are absent (0, or a state with configuration -1) or there.
NoState == [conf |-> -1, macs |-> FALSE, apps |-> {}, keys |-> {}]
Dir(state, local, unlock) == [state |-> state, local |-> local, unlock |-> unlock]
Missing == Dir(NoState, -1, -1)
Empty == Dir(NoState, 0, 0)
FirstState == [conf |-> 0, macs |-> FALSE, apps |-> {}, keys |-> {}]
Ours == 1

SupportedApps ==
    {"debug", "gpu-support", "incus", "incus-lts-7.0", "incus-ceph", "incus-linstor",
     "migration-manager", "openfga", "operations-center"}
SkipNames == {"encryption-recovery-keys", "local-data-encryption-key", "network-macs"}
\* What a state file holds when there is one, and what the directory is when it is there.
RecoveryKeys == {"k1", "k2", "k3"}
SavedStates == [conf : 0 .. 3, macs : BOOLEAN, apps : SUBSET SupportedApps, keys : SUBSET RecoveryKeys]
Directories == [state : SavedStates \cup {NoState}, local : 0 .. 2, unlock : 0 .. 2]

ASSUME ArchiveAssumption == OtherArchives \subseteq Directories /\ Skips \subseteq SUBSET SkipNames

\* What a removal that fails or is cut off may leave of a directory.
Parts(d) == {Dir(state, local, unlock) : state \in {d.state, NoState}, local \in {d.local, 0}, unlock \in {d.unlock, 0}}

NoRestore == [at |-> "idle", from |-> Empty, skip |-> {}, files |-> <<>>, new |-> NoState, vols |-> {}]
RestoreAt(step) == restore.at = step
RestoreGo(step) == restore' = [restore EXCEPT !.at = step]
\* An error: the deferred reverter runs.
RestoreFails == RestoreGo("revert") /\ faithful' = FALSE
---------------------------------------------------------------------------
(* Backups and changes by other requests *)

\* GET of a backup saves the state first; the archive has every file of the directory.
GetOSBackup ==
    /\ RestoreAt("idle")
    /\ dir' = [dir EXCEPT !.state = held]
    /\ archive' = dir'
    /\ UNCHANGED <<bak, held, slotKeys, restore, old, faithful, restores, lossesLeft>>

\* A request changes the configuration and saves the state.
ChangeConfig ==
    /\ RestoreAt("idle") /\ held.conf < 2
    /\ held' = [held EXCEPT !.conf = @ + 1, !.macs = TRUE]
    /\ dir' = [dir EXCEPT !.state = held']
    /\ UNCHANGED <<bak, slotKeys, archive, restore, old, faithful, restores, lossesLeft>>

\* A recovery key is enrolled in every volume, listed and saved (SecureBoot has the steps).
EnrolKey(k) ==
    /\ RestoreAt("idle") /\ k \notin held.keys /\ dir.unlock = Ours /\ faithful
    /\ slotKeys' = [v \in Volumes |-> slotKeys[v] \cup {k}]
    /\ held' = [held EXCEPT !.keys = @ \cup {k}]
    /\ dir' = [dir EXCEPT !.state = held']
    /\ UNCHANGED <<bak, archive, restore, old, faithful, restores, lossesLeft>>
---------------------------------------------------------------------------
(* ApplyOSBackup *)

\* The directory cannot be renamed when an earlier restore left files in its backup.
ApplyOSBackup(from, skip) ==
    /\ RestoreAt("idle") /\ restores < MaxRestores
    /\ restores' = restores + 1
    /\ IF bak \notin {Missing, Empty}
       THEN UNCHANGED <<dir, bak, restore, old>>
       ELSE /\ bak' = dir /\ dir' = Empty /\ old' = dir
            /\ restore' = [NoRestore EXCEPT !.at = "extract", !.from = from, !.skip = skip, !.files = <<"unlock", "state", "local">>]
    /\ UNCHANGED <<held, slotKeys, archive, faithful, lossesLeft>>

\* One file after the other; an archive may end early or be damaged. The local pool's key
\* is only kept when the archive has one.
RestoreExtract ==
    LET file == Head(restore.files)
        kept == "local-data-encryption-key" \in restore.skip /\ restore.from.local # 0
    IN  /\ RestoreAt("extract") /\ restore.files # <<>>
        /\ \/ /\ dir' = CASE file = "unlock" -> [dir EXCEPT !.unlock = restore.from.unlock]
                          [] file = "state" -> [dir EXCEPT !.state = restore.from.state]
                          [] OTHER -> [dir EXCEPT !.local = IF kept THEN bak.local ELSE restore.from.local]
              /\ restore' = [restore EXCEPT !.files = Tail(@), !.at = IF Len(restore.files) = 1 THEN "check" ELSE @]
              /\ UNCHANGED faithful
           \/ RestoreFails /\ UNCHANGED dir
        /\ UNCHANGED <<bak, held, slotKeys, archive, old, restores, lossesLeft>>

\* processNewState: without a state file a new one is created. The TPM may not be usable.
RestoreCheck ==
    LET new == IF dir.state = NoState THEN FirstState ELSE dir.state
    IN  /\ RestoreAt("check")
        /\ dir' = [dir EXCEPT !.state = new]
        /\ \/ /\ new.keys # {} /\ new.apps \cap Primary # {}
              /\ restore' = [restore EXCEPT !.at = "uninstall", !.new = new]
              /\ UNCHANGED faithful
           \/ RestoreFails
        /\ UNCHANGED <<bak, held, slotKeys, archive, old, restores, lossesLeft>>

\* Each application that is removed or installed saves the daemon's state, which is still
\* the old one but for the applications, over the extracted file.
RestoreApps(step, apps, complete, next) ==
    /\ RestoreAt(step)
    /\ held' = [held EXCEPT !.apps = apps]
    /\ dir' = IF apps # held.apps THEN [dir EXCEPT !.state = held'] ELSE dir
    /\ IF complete THEN RestoreGo(next) /\ UNCHANGED faithful ELSE RestoreFails
    /\ UNCHANGED <<bak, slotKeys, archive, old, restores, lossesLeft>>

RestoreUninstall ==
    \E left \in SUBSET (held.apps \ restore.new.apps) :
        RestoreApps("uninstall", (held.apps \cap restore.new.apps) \cup left, left = {}, "install")

RestoreInstall ==
    \E left \in SUBSET (restore.new.apps \ held.apps) :
        RestoreApps("install", restore.new.apps \ left, left = {}, "copy")

\* The configuration of the new state becomes the daemon's.
RestoreCopy ==
    /\ RestoreAt("copy")
    /\ held' = [held EXCEPT !.conf = restore.new.conf, !.keys = restore.new.keys,
                            !.macs = restore.new.macs /\ "network-macs" \notin restore.skip]
    /\ restore' = IF "encryption-recovery-keys" \in restore.skip
                  THEN [restore EXCEPT !.at = "names"] ELSE [restore EXCEPT !.at = "wipe", !.vols = Volumes]
    /\ UNCHANGED <<dir, bak, slotKeys, archive, old, faithful, restores, lossesLeft>>

\* The unlock file that was extracted must open the volume.
RestoreWipe(v) ==
    /\ RestoreAt("wipe") /\ v \in restore.vols
    /\ \/ /\ dir.unlock = Ours
          /\ slotKeys' = [slotKeys EXCEPT ![v] = {}]
          /\ restore' = [restore EXCEPT !.vols = @ \ {v}, !.at = IF restore.vols = {v} THEN "enrol" ELSE @]
          /\ held' = IF restore.vols = {v} THEN [held EXCEPT !.keys = {}] ELSE held
          /\ UNCHANGED faithful
       \/ RestoreFails /\ UNCHANGED <<slotKeys, held>>
    /\ UNCHANGED <<dir, bak, archive, old, restores, lossesLeft>>

\* Mutant: every key is enrolled in the first volume only.
RestoreEnrolOne(k) ==
    /\ RestoreAt("enrol") /\ k \in restore.new.keys \ held.keys
    /\ slotKeys' = [slotKeys EXCEPT !["root"] = @ \cup {k}]
    /\ held' = [held EXCEPT !.keys = @ \cup {k}]
    /\ RestoreGo(IF held'.keys = restore.new.keys THEN "names" ELSE "enrol")
    /\ UNCHANGED <<dir, bak, archive, old, faithful, restores, lossesLeft>>

\* AddEncryptionKey for each key; a volume may fail after another succeeded.
RestoreEnrol(k) ==
    /\ RestoreAt("enrol") /\ k \in restore.new.keys \ held.keys
    /\ \E done \in SUBSET Volumes :
          /\ slotKeys' = [v \in Volumes |-> IF v \in done THEN slotKeys[v] \cup {k} ELSE slotKeys[v]]
          /\ IF done = Volumes
             THEN /\ held' = [held EXCEPT !.keys = @ \cup {k}]
                  /\ RestoreGo(IF held'.keys = restore.new.keys THEN "names" ELSE "enrol")
                  /\ UNCHANGED faithful
             ELSE RestoreFails /\ UNCHANGED held
    /\ UNCHANGED <<dir, bak, archive, old, restores, lossesLeft>>

\* The hostname and the time zone: the system now matches the new state.
RestoreNames ==
    /\ RestoreAt("names")
    /\ \/ old' = Missing /\ RestoreGo("remove") /\ UNCHANGED faithful
       \/ RestoreFails /\ UNCHANGED old
    /\ UNCHANGED <<dir, bak, held, slotKeys, archive, restores, lossesLeft>>

\* The old directory is removed; after an error the reverter puts back what is left of it.
RestoreRemove ==
    /\ RestoreAt("remove")
    /\ \/ /\ bak' = Missing
          /\ faithful' = (faithful /\ "encryption-recovery-keys" \notin restore.skip)
          /\ RestoreGo("reboot")
       \/ bak' \in Parts(bak) /\ RestoreFails
    /\ UNCHANGED <<dir, held, slotKeys, archive, old, restores, lossesLeft>>

\* The shutdown saves the daemon's state.
RestoreReboot ==
    /\ RestoreAt("reboot")
    /\ dir' = [dir EXCEPT !.state = held]
    /\ restore' = NoRestore
    /\ UNCHANGED <<bak, held, slotKeys, archive, old, faithful, restores, lossesLeft>>

\* The reverter: the new directory is removed, the old one put back; errors are ignored, and
\* a directory is not renamed over files. The state the daemon holds stays what it is.
RevertRemove ==
    /\ RestoreAt("revert")
    /\ dir' \in {Missing} \cup Parts(dir)
    /\ RestoreGo("putback")
    /\ UNCHANGED <<bak, held, slotKeys, archive, old, faithful, restores, lossesLeft>>

RevertRename ==
    /\ RestoreAt("putback")
    /\ IF dir \in {Missing, Empty}
       THEN dir' = bak /\ bak' = Missing /\ old' = Missing
       ELSE UNCHANGED <<dir, bak, old>>
    /\ restore' = NoRestore
    /\ UNCHANGED <<held, slotKeys, archive, faithful, restores, lossesLeft>>

\* The next start creates the directory and the state file when they are missing.
RestorePowerLoss ==
    /\ lossesLeft > 0 /\ lossesLeft' = lossesLeft - 1
    /\ LET state == IF dir.state = NoState THEN FirstState ELSE dir.state
       IN  /\ held' = state
           /\ dir' = IF dir = Missing THEN Dir(state, 0, 0) ELSE [dir EXCEPT !.state = state]
    /\ bak' \in IF RestoreAt("remove") THEN {Missing} \cup Parts(bak) ELSE {bak}
    /\ faithful' = (faithful /\ RestoreAt("idle"))
    /\ restore' = NoRestore
    /\ UNCHANGED <<slotKeys, archive, old, restores>>

BackupInit ==
    LET state == [conf |-> 1, macs |-> TRUE, apps |-> {"incus"}, keys |-> {"k1"}]
    IN  /\ dir = Dir(state, Ours, Ours) /\ bak = Missing /\ old = Missing
        /\ held = state /\ slotKeys = [v \in Volumes |-> {"k1"}]
        /\ archive = dir /\ restore = NoRestore /\ faithful = TRUE
        /\ restores = 0 /\ lossesLeft = RestoreLosses

BackupNext ==
    \/ GetOSBackup \/ ChangeConfig \/ EnrolKey("k2")
    \/ \E skip \in Skips, from \in OtherArchives \cup {archive} : ApplyOSBackup(from, skip)
    \/ RestoreExtract \/ RestoreCheck \/ RestoreUninstall \/ RestoreInstall \/ RestoreCopy
    \/ \E v \in Volumes : RestoreWipe(v)
    \/ \E k \in RecoveryKeys : RestoreEnrol(k)
    \/ RestoreNames \/ RestoreRemove \/ RestoreReboot \/ RevertRemove \/ RevertRename \/ RestorePowerLoss

BackupSpec == BackupInit /\ [][BackupNext]_backupVars
---------------------------------------------------------------------------
(* Properties *)

BackupTypeOK ==
    /\ held.conf \in 0 .. 3 /\ held.keys \subseteq RecoveryKeys
    /\ dir.local \in -1 .. 2 /\ dir.unlock \in -1 .. 2 /\ bak.unlock \in -1 .. 2
    /\ slotKeys \in [Volumes -> SUBSET RecoveryKeys]

\* Until the system matches the new state, or the old directory was put back, that directory
\* with the keys of the pools and volumes is on disk as it was: after an error of any step, a
\* power loss anywhere, in the middle of the reverter too, a restart and another restore. From
\* then on its removal (backup.go:233) may fail half way: what the reverter puts back is what
\* is left of it.
OldDirectoryKept ==
    old # Missing => bak = old

\* Before the old directory is removed, and until the reboot, the new one unlocks every volume
\* and each volume has just the listed recovery keys, at least one: whatever failed in
\* restores before this one. A restore that skips the recovery keys does not look.
NewKeysOpen ==
    restore.at \in {"remove", "reboot"} /\ "encryption-recovery-keys" \notin restore.skip =>
        dir.unlock = Ours /\ held.keys # {} /\ \A v \in Volumes : slotKeys[v] = held.keys

\* A recovery key the system lists opens every volume, and no other does, after any number
\* of successful restores, of archives with other keys and applications.
ListedKeysEnrolled ==
    RestoreAt("idle") /\ faithful => \A v \in Volumes : slotKeys[v] = held.keys

\* The data of the system stays accessible through a restore: until the system matches the
\* new state the old keys are still there, then the new ones open the volumes.
RestoreKeepsKeys == OldDirectoryKept /\ NewKeysOpen /\ ListedKeysEnrolled
=============================================================================
