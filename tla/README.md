# IncusOS: a TLA+ verification project

IncusOS is an immutable OS image with one daemon, `incus-osd`, that brings the
system up, applies OS and application updates, and is configured over a REST
API. This directory models the parts of the daemon, and of the tools around it,
whose correctness depends on the order of steps: steps of goroutines and request
handlers, of an update and a power loss, of a boot and the boot before it. TLC
checks the models on small instances; TLAPS proves most of the safety properties for
all instances.

All paths below are relative to `src/incus-osd/`; `doc/` is `src/doc/`.

## 1. The system

### 1.1 Components

| Component | State | Operations | Hard behaviour | What makes it correct | Module |
|---|---|---|---|---|---|
| Daemon (`cmd/incus-osd/main.go`, `internal/rest/api_system.go`) | goroutines, trigger channels of capacity 1, `SystemIsReady` | `run`, `startup`, `shutdown`, action loop, `startFallbackListener` | goroutines that wait for each other, nil channels during startup, restart at any time | startup never blocks, requests are carried out, the fallback listener is tried when it is needed | `Daemon` |
| Network changes (`internal/rest/api_system_network.go`, `internal/systemd/networkd.go`) | configuration in memory and on disk, prior configuration, pending flag, in-process flag, confirmation channel | PUT, GET, `:confirm`, watcher with timeout, `applyNetworkConfiguration` | no lock anywhere; timeout against confirmation; crash before confirmation | an unconfirmed change never survives a crash or a timeout; a pending change is settled | `NetworkConfirm` |
| Network devices (`internal/systemd/networkd.go`, `networkd_validate.go`) | files of udev and networkd, virtual devices, ports of bridges | validation, clean up of stale devices, generation of files, restart of networkd | failure after devices were removed; names and cards that move between devices | the devices are the ones configured and reach their cards | `NetworkFiles` |
| OS update (`internal/update/update.go`, `internal/systemd/sysupdate.go`) | A/B images, boot counters, `NextRelease`, `NeedsReboot`, state file | check, download, install, record, notify, reboot, fall back | interruption at every step, broken releases, downgrades of the state format | a working image stays, the system ends on the newest working release | `OSUpdate`, `ReleaseHistory` |
| Update schedule (`api/system_update.go`, `Checker`) | last check, windows, frequency | sleep, check, manual check, PUT | midnight, end of the week, several windows | checks inside of the windows only, none missed | `UpdateSchedule` |
| Applications (`internal/applications`, `internal/systemd/sysext.go`, `internal/rest/api_applications.go`) | images on disk, symlinks, recorded and available versions | install, update, switch, remove, `RefreshExtensions`, clean up, corruption | versions follow OS roll backs; interruption between unlink and relink | a roll back finds and selects its images; the record matches the image in use | `Applications` |
| Secure Boot, TPM, recovery keys (`internal/secureboot`, `internal/systemd/cryptenroll.go`) | EFI variables, boot stubs, bindings and keys per volume | certificate update, key change, rebinding, adding and removing keys | several reboots, loops over volumes that fail half way | the next boot unlocks, the listed keys work, the firmware accepts the images | `SecureBoot` |
| Storage and ZFS (`internal/storage`, `internal/zfs`, `internal/rest/api_system_storage.go`) | pools, drives, datasets, key files | create, update, delete, import, wipe, encrypt, scrub | several commands per request, key and pool written separately | no drive of a pool is destroyed, no key is lost | `Storage` |
| Services (`internal/services`, `internal/rest/api_services.go`) | recorded configuration, units, files | update, start, stop, reset, seed | a failing step between old and new configuration | what is recorded is in effect | `Services` |
| Ceph (`internal/ceph`) | containers, volumes, images, fsid | initialise, add and remove OSDs, refresh | some twenty calls that are never undone | one cluster | `Ceph` |
| State file (`internal/state`) | one encoded text file with a version | load, upgrade, save, refusal to save | older image reads and saves a newer format, crash in a save | nothing saved is lost | `StateFile`, and the record in the modules above |
| Backup and restore (`internal/backup`) | the daemon's directory, keys of volumes | backup, restore, reverter | the directory is moved away and rebuilt in steps | keys stay available | `Backup` |
| Factory reset (`internal/reset`) | seed partition, TPM, partitions 9 to 11 | reset | destructive steps that are repeated after failures | a system that starts over has its seed | `FactoryReset` |
| Recovery (`internal/recovery`) | rescue medium, provider | script, update from the medium | provider replaced in the shared state | the provider is put back | `Recovery` |
| Install, seed (`internal/install`, `internal/seed`) | target disk, media, seed, EFI variable | checks, choice of the target, a dozen writing steps | interruption, retries, media moved and seeds edited | nothing removed without consent; complete means bootable | `Install` |
| Image publisher (`cmd/image-publisher`) | tree of releases, `update.json`, `index.json` and signed copies | sync, promote, demote, severity, prune | processes without a lock that die between writes | a listed file exists, the index heals | `Publisher` |
| Providers, proxy, nftables | cached release, generated files | `Load`, `Get*Update`, `Notify`, `ApplyHwaddrFilters` | calls that fail half way through an operation | a failure leaves the caller consistent | as failing steps of the modules above |
| Command line client, flasher, image customizer, TUI, kernel settings, keyring, tokens, job table, manifests, certificates, build files | see section 7 | | | | not modelled |

### 1.2 Interactions

`main` loads the state, clears `NeedsReboot`, restores a prior network
configuration and calls `run`, which serves the API on a socket and then calls
`startup`. From that moment request handlers run beside startup. Startup runs a
recovery medium if there is one, sets up keys and TPM bindings, applies the network
configuration, refreshes the extensions, starts services and pools, runs one blocking
update check, starts the applications, spawns the periodic checker, and finally
makes the trigger channels and starts the action loop. Components share one
`state.State` without a lock of its own; only `CheckAndDownloadUpdate` takes a
mutex. Reboot, shutdown, suspend and update requests reach the action loop over
channels of capacity one; an update check calls into providers, Secure Boot,
`systemd-sysupdate`, the applications, and again the fallback listener's channel.
systemd restarts the daemon when it ends and stops it when the system goes down;
systemd-boot counts boot attempts and falls back to the other image.

## 2. Modules

| Module | What it is |
|---|---|
| `NetworkConfirm` / `MCNetworkConfirm` / `NetworkConfirmProofs` | network changes with a confirmation timeout |
| `OSUpdate` / `MCOSUpdate` / `OSUpdateProofs` | OS updates on A/B images |
| `ReleaseHistory` | what OS updates promise; implemented by `OSUpdate` |
| `Applications` / `MCApplications` / `ApplicationsProofs` | application images and versions |
| `Daemon` / `MCDaemon` / `DaemonProofs` | startup, action loop, channels, restarts |
| `SecureBoot`, `Storage`, `Services`, `Ceph`, `StateFile`, `Backup`, `FactoryReset`, `Recovery` / `MCHost` | parts of a host that change it in several steps |
| `Publisher`, `Install`, `NetworkFiles`, `UpdateSchedule` / `MCSetup` | from a published release to a host on its network that updates itself |
| `SecureBootProofs` | theorems about `SecureBoot` |
| `MaintenanceProofs` | theorems about `FactoryReset`, `Backup`, `StateFile` and `Services` |
| `StorageProofs` | theorems about `Storage` and `Ceph` |
| `SetupProofs` | theorems about `Publisher`, `Install`, `NetworkFiles` and `UpdateSchedule` |

Each `MC` module gives the constants their values; each `Proofs` module holds the
theorems of its components. The parts of `MCHost` and `MCSetup` share no state, so
a behaviour of them is about one part, chosen in the initial state, and the
product of the parts is never explored. Definitions named in a `Mutant:` comment are plausible
bugs; they are not part of any specification and only show that a property can
fail.

### 2.1 NetworkConfirm

State: `config`, `prior`, `pending`, `inProcess`, `channel` are the fields of
`state.State` named in the comments, `disk` what the last save wrote, `stage` and
`target` the program counter and argument of each goroutine (one PUT handler and
one watcher per request, and startup).

`PutCheck` is the handler up to its check of the pending flag (with `Serial`, when the
previous PUT was answered; its watcher may be anywhere), `PutStart` and
`PutArm` what follows without and with a timeout (remember the prior
configuration, set the flag, save, start the watcher). `ApplyBegin`, `ApplySet`,
`ApplyOnline`, `ApplySave` are `applyNetworkConfiguration`, cut where it blocks;
`ApplyFault` is an error return of each part (which parts is the constant
`Faults`). `WatchReceive`, `WatchTimeout`, `WatchReset`, `WatchClearPrior` are the
watcher; `ConfirmCheck` and `ConfirmSend` the confirmation. `Get` is the refresh
that replaces the whole network state. `Crash` and `BootFailed` restart the
daemon from `disk`, and `Panic` is a watcher with a nil configuration.

Abstracted: a configuration is a model value; files, DNS, time and proxy are
success or failure. What happens to files and devices is `NetworkFiles`.

### 2.2 OSUpdate and ReleaseHistory

Releases are numbers in the order of `IsNewerThan`. `installed`, `blessed` and
`tries` are the images and boot counters; `next`, `needsReboot`, `unrecognized`
the daemon's memory, `disk` the state file with its format number.
`CheckFinds` is `CheckAndDownloadUpdate` up to the decision, `Download`,
`Vacate`, `Install`, `Record`, `Notify`, `Reboot` the steps of `applyUpdate`, with
`DownloadFault` and `NotifyFault` the error returns. `SecureBootUpdate` is the check for
certificates as far as the OS update sees it: it sets `NeedsReboot` too (`certs`). `Shutdown` saves the state,
`PowerLoss` does not. `BootImage` counts the attempt; a release in `Broken` never
comes up. `LoadState` upgrades an older format and marks a newer one as
unrecognised, after which `Save` writes nothing (`SavedAs`).

systemd-sysupdate, systemd-boot and systemd-bless-boot are external and modelled
from the transfer and boot configuration under `mkosi.images/base`.

`ReleaseHistory` says what a user may rely on: the system only runs releases that
were offered, and an older one only if it ran before. `OSUpdate` implements it
with `current <- running`.

### 2.3 Applications

`images`, `corrupt`, `link` are the disk, `version` and `avail` the record in
memory, `saved` the record on disk. One operation runs at a time; `pc` and `phase`
say which and where. `RefreshExtensions` is `Unlink`, `Relink`, `Activate`
(activation, new prior release, clean up), with `RemoveCorruptSysext` and
`RefreshFault` for activation errors; `Expected` and `BestVersion` are
`getApplicationsVersions` and `bestApplicationVersion`. A check is `Plan`, one of
`PickNothing`/`PickUpdate` per application, `FetchEnd`, `FetchFault` or
`NotifyFault`, `PickDone`, the refresh, `StageOS` or `OSCurrent`, `Start`. Requests
are `UserInstall`, `UserUpdate`, `UserSwitch`, `UserRemove`. Reboots, power losses,
corruption and new releases fall between any two steps. Two history variables
feed the properties: `paired` holds the images that were there when an OS release
was ready, `unlinked` the applications whose new version was recorded without a
refresh.

`UserInstall` excludes replacing `incus` by `incus-lts`, and the run has no
application with a dependency (dependencies are covered by the proofs, which hold
for every relation `Needs`).

### 2.4 Daemon

`at` is where each goroutine is: `main`, the action loop, the periodic and the
delayed check and every request. `made` are the channels that are not nil,
`token` those that hold a value. `behind` is `RunningFromBackup()`. Startup is one
action per part that matters: `Prepare` (keys, recovery, encryption, migrations),
`MakeChannel`, `BackupTrigger`, `Configure`, `InitialCheck`, `StartApplications`,
`StartupTrigger`, `SpawnChecker`, `Register`, `StartActions`, `Ready`;
`StartupFault` is an error return of any of them. `LoopTake` is the `select`.
`Check` is the part of `Checker`, `InstallUpdateApp` or an OS-only check that
stages an OS update and reloads applications; `Send` is the channel send a failed
reload or a request makes. `Receive` is a request; while its channel is nil the
handler hangs. `Signal`, `StopDaemon`, `KillDaemon`, `RestartDaemon`, `StartDaemon`,
`Boot` are systemd (`Restart=always`, `TimeoutStopSec=30s`).

### 2.5 The parts of a host (`MCHost`)

- `SecureBoot`: a measurement is a record of what it measures. `efi`, `stub`, `ukis`
  and `log` are firmware, boot stubs, images and this boot's event log; `bound` what
  each volume's TPM slot accepts; `keyFile`, `keySlots`, `listed`, `savedKeys` the
  recovery keys. `op` is the step the daemon is at: a certificate update variable by
  variable, the replacement of the two boot stubs, the prediction and the rebinding
  of one volume at a time, a PUT that adds and removes keys volume by volume. `Fault`
  is an error return of the current step, `PowerLoss`, `BootOlder`,
  `SwitchSecureBoot` and `ReplaceTPM` are what may happen outside of it.
- `Storage`: every `zpool`, `cryptsetup` and `blkdiscard` command and every change of a
  key file is a step of a request. `zpool replace` begins a replacement (`pool[p].swap`) and
  returns; the pool is rebuilt meanwhile (`ResilverDone`), shows `replacing-0` for the two
  drives, and the old drive is wiped by the request (`UpdateDevice`). A start imports the
  known pools and may fail at any (`LoadPools`, `LoadPoolsFails`), and replaces the missing
  half of a mirror "local" (`RecoverLocalPool`, `RecoverEnds`). Log, cache and special
  devices take the path of the data devices; sizes and SMART data are left out.
- `Services`: each of the ten services has its own `Stop`, `Start` and configuration,
  as a set of outcomes of commands that may fail, under the common handlers
  (`ServicePut`, `UpdateStop`, `UpdateStart`, `UpdateSave`, `ServiceReset`) and start up.
  `sys.traces` are the revisions of which files under `/etc/ceph` or iSCSI sessions may be
  left: `/etc` is on the persistent root, so `Rebooted` keeps all of Ceph. The daemon may end
  alone or with the system (`Ends`). `cut` notes that something stayed of an update whose
  deferred save did not happen.
- `Ceph`: a job is a sequence of calls, each of which may fail and end the job; only the
  check for an existing service goes on without the members that do not answer it
  (`InitChecks`, `missed`).
- `StateFile`: lines are settings in the form of a format version; the eight
  upgrades rename, retype or add lines. Saving is a write and a rename.
- `Backup`, `FactoryReset`, `Recovery`: one action per step of the operation, with
  failures, the restore's reverter, repeated requests and power losses. A removal of a
  directory that fails leaves any of its files (`Parts`); a write of the seed archive that
  does not end leaves something unreadable or a mix of new, old and torn entries that a
  later request reads (`HalfWritten`, `Mixes`).

### 2.6 From a release to a host (`MCSetup`)

- `Publisher`: each command is a process; downloads, changelogs, truncating, encoding
  and signing a file are steps, after any of which it may die. `hurt` notes the files a
  prune or a demotion took away, until they are written again or a command that ran alone
  has written an index, or metadata, without them. `linked` holds the commands whose open
  `update.json` is still the one in the directory: what the others write is lost. An
  extraction makes a directory again that a prune removed (`MkdirAll`).
- `Install`: a start decides from the seed, the media and the disks, then takes the
  steps of `performInstall`; users move media, edit seeds and switch off.
- `NetworkFiles`: validation, stale devices, generated files, udev and networkd, cut
  where `ApplyNetworkConfiguration` may fail. An address is a value and how it is
  written; a device name is a prefix and what follows. `networkctl delete` may fail for any
  stale device, which the code ignores, and the daemon may restart at any step; `strays`
  notes the devices that stay because of it.
- `UpdateSchedule`: a clock in minutes of a scaled week, the loop of `Checker` and the
  arithmetic of `TimeUntilActiveReference`, next to what a window means (`Inside`).

## 3. Runs

| Run | Instance | Shows |
|---|---|---|
| `net_serial` | 2 PUTs one at a time, 1 confirmation, 2 configurations, faults in two parts, 2 restarts | `TypeOK`, `CrashRestores`, `NoChangeWhilePending` |
| `net_concurrent` | 2 overlapping PUTs, 1 restart | `PendingHasWatcher` |
| `net_settles` | 2 PUTs, faults everywhere, fair | `PendingSettles` |
| `net_rollback_lost` | 1 PUT | violation of `RolledBackUnlessConfirmed` |
| `net_vlan_untagged` | the network part of `setup_safe` | violation of `TagsPass` |
| `os_update_safe` | 4 releases, one broken, two state formats, one each of certificate update, power loss, daemon restart, reboot, boot menu choice | `TypeOK`, `NeverBricked`, `PendingIsNewer`, `KeepsPromise` (refinement) |
| `os_update_settles` | 3 releases, the newest broken, a certificate update, a power loss, automatic reboots, fair | `ComesUp`, `Settles` |
| `apps_safe` | 2 applications, 2 releases, 2 events, notifications may fail | `TypeOK`, `FallbackImageKept`, `RollbackRestores`, `RecordsMatchDisk`, `NoSilentDowngrade` |
| `daemon_serves` | 2 requests, 1 fault or service restart, fair | `TypeOK`, `StartupNeverBlocks`, `RequestsHonoured`, `FallbackServed` |
| `host_safe` | the eight parts of `MCHost` | see below |
| `setup_safe` | the four parts of `MCSetup` | see below |
| `update_window_wrap` | the schedule with windows over the end of the week | violation of `WindowsHonoured` |

`host_safe`, besides the types: whatever single command of a key or certificate change
fails, and wherever power is lost, the next boot is unlocked by the TPM or a key the
user has (`NeverLockedOut`); without trouble the predicted PCR values are the measured
ones (`PredictionsHold`), the listed keys are those of the volumes (`ListedKeysWork`);
the firmware accepts what is installed (`ImagesAccepted`). Drives that pools in use count on are
never wiped or given away, but for the one a mirror is to be rid of (`PoolsIntact`), what is
open now opens at the next boot
(`KeysKept`). A service does what is recorded, unless something is left of an update cut off
before its save (`RecordedInEffect`), there is one Ceph
cluster among the members that answered when asked (`OneCluster`), no saved setting is lost over upgrades and fallbacks
(`SettingsKept`), a restore keeps the old keys until the new ones open
the volumes (`RestoreKeepsKeys`), and a reset system has the seeds it was given
(`ResetSeeded`).

`setup_safe`, besides the types: a command that ran alone leaves a complete index
(`IndexHeals`); clients are sent to a missing image only from the moment a prune begins to
remove that release until an index without it is signed, and after a command that ran alone
everything listed is there but what a removal took away that was cut short or did not run
alone (`ListedFilesThere`); pruning
removes exactly what the retention allows (`PruneKeepsNewest`); partitions are removed
only with the seed's consent (`PartitionsKept`), and an installation marked complete
starts (`CompleteIsBootable`); devices are as configured after any sequence of
applications, failures and restarts of the daemon, but for those that could not be deleted or
were forgotten and the devices whose names they hold (`Wired`); checks run inside of the windows and none is missed
(`WindowsHonoured`).

`CHECK_DEADLOCK FALSE` is set throughout: bounded budgets of requests, releases
and restarts run out, and a system nobody talks to does nothing.

**Bounds.** Two requests are what it takes for one to meet the other's leftovers
(a token in a channel, a prior configuration, a full trigger). Two restarts let a
crash meet the recovery of an earlier one. Four releases give an installed, a
broken, a pending and a newer one; three attempts are what systemd-boot is
configured with. In `os_update_settles` a certificate update and a power loss cut two boots
short; a third one would use up the attempts of a working release (section 6). Two application releases and two events make an OS roll back
after an update with one more thing going wrong; the theorems cover the rest.
In `host_safe`, four releases and two certificates are a whole change of the signing key
with a release on each side; one trouble (`Trouble`) is what the design promises to
survive. Three drives make a mirror with a replacement, three requests
(`MaxStorageCalls`) a creation, a change and a destruction or a new encryption. `WipesNew = FALSE` and
`WrongKeys = FALSE` leave out two requests by which users break a property (section 6). Four
calls
take a service through enabling, a change, disabling and a restart. Four Ceph members
are one more than the control servers need; two failing calls (`CephFaults`) end one
deployment and keep a member from answering the next; with one tag a container is rebuilt
from a newer image of it, and another tag would only be another image. From formats 4 and 5 an update crosses
upgrades that rename, add and retype settings, a fallback to 4 does not start and one to
5 starts with settings it does not know; four calls are an update, a restart, the
fallback and a change that is saved there. Four resets (`MaxResets`) repeat a failed one
three times: one tears the archive, one merges it, one fails, one ends. In `setup_safe`, two processes and three commands let one command
overtake another and a third one heal; two disks and two interventions are a wrong disk
and a change of mind; three network applications are one to fail in the middle of two, and
`FailedDeletes` lets each leave one device it should have deleted.
A day of three minutes has windows that start, end and wrap at each point of a day, with
single and several windows and checks that are rarer and more frequent than they are.

**Symmetry** is used for the configurations and requests of `NetworkConfirm` and
the processes of `Publisher`, in runs that check no liveness property.

**Fairness.** The Go scheduler runs every goroutine that can run, so internal
steps are weakly fair. `select` picks at random among ready channels, so taking
from one that is ready again and again is strongly fair. systemd restarts the
daemon and carries out a reboot (weak). A download that is retried for ever
succeeds eventually (strong, `Applications` only; it is an assumption on the
provider). Periodic checks need not find anything: only their send is fair. No
fairness is assumed of users, faults, releases, or power losses.

## 4. Proofs

All theorems are for arbitrary constants that satisfy the named assumptions of the
modules: any number of requests, releases, drives, failures and power losses. Each
`THEOREM Spec => []P` rests on an inductive invariant that TLC checked on a run's
instance before it was proved; `P` alone is never inductive, and the list says what had
to be added.

- `NetworkConfirmProofs`: `TypeCorrect` for any number of concurrent requests.
  `CrashSafe` proves `CrashRestores` when PUTs come one at a time (`Serial`: each client
  waits for the answer to the previous one, but not for its watcher); it needs to
  know that a prior configuration in memory and on disk is one from before the change
  at every stage of handler, watcher and startup, and that only one watcher has yet to reset
  the flag (`OneWatcher`). The exception, a PUT that is armed while an earlier watcher still
  has to clear its copy (`overtaken`), is real: see section 6.
  `PendingExcludesChanges` proves `NoChangeWhilePending` under the same assumption: while
  a watcher waits, the handlers of all other requests are at rest (`WaitAlone`).
  `PendingIsWatched` proves `PendingHasWatcher` however requests overlap: the flag is
  set together with the start of a watcher, and a watcher clears it on every way out
  (`Settling`).
- `OSUpdateProofs`: `TypeCorrect`, `AlwaysBootable`, `RebootLeadsForward`, and
  `KeepsReleasePromise`, the refinement of `ReleaseHistory`. The invariant adds where
  each image comes from (`Provenance`: it ran, or it was offered and is newer), that
  there are at most two images (`TwoImages`, `RoomMade`), and that the update under
  way is to a newer release (`UpdateSound`; a reboot may be for certificates, which is what
  `PendingIsNewer` exempts): a boot may pick any image, and only
  provenance tells that this is an advance or a fall back.
- `ApplicationsProofs`: `TypeCorrect`, `FallbackKept`, `RollbackIsRestored`. The
  invariant says that an image that matched an OS release is good (`PairedGood`),
  that this release is the running one or is recognised as the other one
  (`PairedBootable`), that it is on the list of images to keep when the clean up runs
  (`PairedExpected`), and what a refresh knows at each step of a boot
  (`PriorFromJournal`, `LinksGone`, `RestoreSelected`). That a non-empty set of
  releases has a newest one comes from `WFMin`.
  `RecordsAgree` (`RecordsMatchDisk`) and `DowngradesAreChosen` (`NoSilentDowngrade`) rest
  on a second invariant, `Records`. Its core, `RecordGood`, says that a recorded version
  whose image is corrupt, or which is published and has no image, is not newer than any
  image on disk: a removal that was not saved, followed by an interrupted installation,
  is the one way to such a record. `JobNewer` and `JobOnDisk` say the same of the version
  an operation is about to record, `Cleaned` and `NewestListed` what the clean up left,
  and `Fresh` exempts the applications a check has changed since the last refresh.
  Like the property, it claims nothing of the disk once an image has gone bad (`spoiled`).
- `DaemonProofs`: `TypeCorrect`, `StartupGoesOn`. The invariant says that before the
  periodic checks exist nobody else uses the listener's channel (`EarlyQuiet`) and
  that a value in it means that the system runs from its backup image
  (`EarlyToken`), which later updates cannot undo. Both theorems assume that no
  application update is requested during startup; without that a failed reload
  would fill the channel first.
- `SecureBootProofs`: `PredictionsAreRight` (`PredictionsHold`), `ListedKeysOpen`
  (`ListedKeysWork`), and for at most one trouble `OneTroubleLocksNobodyOut`
  (`NeverLockedOut`), for every history of releases, signing keys and archives of
  certificates. They share one invariant. As long as nothing has gone wrong (`QuietInv`)
  both the bindings and the keys are right, and each needs the other: a volume is bound
  again with a recovery key, and the first recovery keys are enrolled by a TPM that
  unlocks. `BindingsGood` says that the event log still tells what the next boot measures
  (`LogGood`), that images and stub are those of the newest or of the coming release
  (`Images`, `StubGood`), and that each volume is bound to the release it will boot
  (`BoundGood`). `Keyed` says which volumes have which keys at each step of a request and
  that the user knows one of them; before that it is the first boot (`FirstBoot`), whose
  keys are saved when startup ends (`Saved`). After one trouble (`TroubledInv`) the keys are
  still right; or the bindings are, and every volume has its key file or gets a new one
  (`Enrolled`, `Generating`); or the first boot did not get as far as the property asks:
  the swap volume has no key file and never gets one (`SwapLost`), or the keys were never
  saved and nobody can have retrieved one (`Stuck`).
  `ImagesStayAccepted` (`ImagesAccepted`), also for at most one trouble, adds `AcceptedInv`:
  one copy of the stub is complete unless a copy is under way that nothing can interrupt any
  more, and a stub signed by the first key comes with images and a public key that are, so it
  is not revoked either (`StubFound`); what is installed is in `db` and not in `dbx`
  (`VariablesMatch`); and a system that never ran with Secure Boot has the variables it was
  installed with (`AsInstalled`). Its hypothesis `FirstKeyReplaced` is about the published
  history: every release embeds the certificates of all, none goes back to the first key, and
  of the keys that sign releases only the first is revoked. The history of `host_safe`
  satisfies it. TLC finds `ImagesAccepted` violated without any one of the three clauses: an
  image that does not embed the stub's certificate is refused without Secure Boot; a
  release installed with Secure Boot disabled may be signed by a key that is not in `db`,
  and is refused once a newer one is signed by the first key again and Secure Boot is
  enabled; and a stub left by a failed
  change to a key that is then revoked is not looked at (section 6). Two troubles can tear both
  copies of the stub.
- `MaintenanceProofs`: `ResetIsSeeded` (`ResetSeeded`): the seeds are written before the
  first partition goes, and an archive that never was partial has one file for each name
  (`SeedsFirst`); a retry cannot get past a partition that is
  gone already, so the last one is deleted by the attempt that deleted the others
  (`LastDeletedLast`). `RestoreKeepsTheKeys` (`RestoreKeepsKeys`): while nothing goes wrong
  the keys in memory, on disk and in the volumes follow each other (`KeysFollow`); whatever
  went wrong before, a restore replaces the keys of each volume completely and only with an
  unlock file that opens it (`KeysReplaced`); and the old directory is the backup directory,
  as it was, until then or until it is put back (`OldDirectoryKept`, `MadeUpFor`). `SettingsAreKept` (`SettingsKept`): an image that may save knows
  every setting that was saved (`SavedIsKnown`; one that met a setting it does not know
  refuses), and the temporary file is either incomplete or what memory holds
  (`SaveInProgress`). `RecordedRuns` (`RecordedInEffect`) goes service by service, since the
  ten differ in which commands they run and in what they leave behind when one fails.
  Between the change and the save nothing is known to be left of another configuration than
  the one in the state (`Tidy`), of Ceph neither units nor files (`CephFit`), unless an update
  was cut off.
- `StorageProofs`: `PoolsStayIntact` (`PoolsIntact`) for requests that come one at a time
  (`OneRequest`) and if nobody wipes a drive a pool is being rebuilt onto (`~WipesNew`),
  `OpenOpensAgain` (`KeysKept`) if besides nobody imports with a wrong key
  (`~WrongKeys`); section 6 says what happens otherwise. Drives may be lost at any time, also
  in the middle of a replacement. The labels of the drives agree with
  the pools' configurations (`LabelsAgree`), the key files with the pools and headers
  (`KeysMatch`), and each stage of a request knows what the stages before it checked
  (`RequestHolds`): it is this knowledge that a second request would make stale.
  `LocalFirst` is the order of key file and pool on the first boot.
  `OneFsid` (`OneCluster`) for one Ceph job at a time (`OneJob`): every container and member
  carries the fsid of the project (`FsidOfProject`), and so does the job under way
  (`JobHolds`), but for the members a start-over could not ask (`missed`).
- `SetupProofs`: `IndexIsHealed` (`IndexHeals`): what a command read of the releases is
  still so if it has been alone since (`AloneKnows`), and nobody is at work on a tidy tree
  (`TidyRests`). `ListedAreThere` (`ListedFilesThere`) needs no command to be alone: metadata
  that decodes lists all images and only files that are there or noted as taken away
  (`ReleasesThere`), a command writes only metadata of that kind (`WritesThere`), and every
  index, read, written or signed, lists only releases whose images are there or noted
  (`Lists`). Whatever order the steps of several commands and their deaths take, no step
  takes a file without a note (`NothingLost`), and notes are dropped only where no other
  command runs and no image that is listed is meant (`ImagesStay`).
  `PruneRemovesUnused` (`PruneKeepsNewest`) uses from the same invariant that an index that decodes
  lists releases from the newest down (`InOrder`), which rests on `Ranked`: in a finite set
  of numbers each rank up to its size is taken. The countdown is a recursive function over
  the index; that it is defined (`CountdownDefined`) and what it has counted after each entry
  (`CountdownRight`) are proved for every index by contradiction at the first entry that
  fails, with `WFMin`, since the induction theorems of the library cannot be used.
  `PartitionsStay` (`PartitionsKept`) and `CompleteMeansBootable`
  (`CompleteIsBootable`) share one invariant: the marks on a disk for a missing TPM and for
  disabled Secure Boot are true of the machine (`FlagsTrue`), one that
  wipes a disk has found no installed system that unlocks (`NoneToLose`), the software TPM
  the machine needs waits to be moved to the target (`TPMAtHand`), and at each step the earlier steps' writes
  are still on the target (`Written`).
  `WiredAlways` (`Wired`) holds for any configurations, any number of applications and
  restarts of machine and daemon, and failures at every step, those of `networkctl delete`
  included. `NetInv` says that what is not of the configuration in the state (`Mismatched`) is
  among the `strays` (`Matches`; between the clean up and `SetConfig` also for the one under
  way): `cleanupStaleDevices` asks to remove what the new one does not describe exactly, so the
  devices of an application that failed are known to the next. Besides, what was validated
  is (`Valid`), and the files are those of the state from the step that writes them
  (`FileSteps`). That networkd leaves a device of the same name alone is then harmless where no
  stray is in the way (`Blocked`), because a valid configuration describes one device of a name
  (`DescribedSingle`), one veth with a given end (`VethsSingle`) and one file per port
  (`PortsSingle`); what networkd adds is of the configuration whatever is there (`AllCreated`).
  One hypothesis, which fails in the code: bonds write their own address in lower case
  (`LowerCase`); otherwise two devices may have the same address and fight for one name
  (`AddressesUnique`, section 6).
  `WindowsAreHonoured` (`WindowsHonoured`) holds for every day length, every set of windows
  and all frequencies. `ScheduleInv` says that the windows the loop slept into are still
  open, that a loop about to sleep has checked since its last skip or is outside of all
  windows, and that one asleep wakes in time for the check that is due or for each window
  (`Awaited`). The arithmetic is in lemmas: the time
  `TimeUntilActiveReference` returns is the wait until a window begins (`TimeUntilIsWait`),
  zero exactly inside of one (`WaitsRight`), and goes down minute by minute. Remainders are
  by constants the solver does not know, so `DivMod` and `ModUnique` give it what it needs.
  The hypothesis is `WrapWeek = FALSE`: no window over the end of the week, for which the
  code is wrong (`update_window_wrap`).

Only model-checked:

- the liveness properties (`PendingSettles`, `ComesUp`, `Settles`, `RequestsHonoured`,
  `FallbackServed`), which are beyond the prover;
- the types that `MCHost` and `MCSetup` put together.

## 5. Findings

Each is a violation run with the statement it contradicts quoted in
`PROJECT.json`.

1. `net_rollback_lost`: a timeout that fires while the change is still being
   applied does not roll it back; the unconfirmed configuration stays.
2. `net_vlan_untagged`: of several VLANs on one device only the first one's tag passes
   the bridge.
3. `update_window_wrap`: a window over the end of the week counts as active again on
   its last day, at the time of day it starts, and a check runs.

## 6. Other disagreements met while modelling

They have no run of their own. Where a definition or a constant of a module shows one,
it is named; the property then fails under that setting.

- Network changes: the watcher resets the pending flag before it clears the prior
  configuration. The copy a timed PUT makes in between is cleared instead: the change is then
  not undone by a reboot before it is confirmed, and its roll back ends the daemon with
  a nil pointer (`KeptUntilSettled` in `NetSerial.cfg`; `api_system_network.go:189`, 192 against
  the comment at 155). Two overlapping PUTs both pass the pending check, and the later watcher
  may roll back to nothing. A GET clears `ConfigurationInProcess`. A change without a
  timeout is not undone on failure. A confirmation that arrives during the roll back is
  answered with success and cancels nothing (`ConfirmCancelsRollback`;
  `api_system_network.go:266` against the comment at line 245).
- Network devices: a restarted daemon takes the saved configuration for the one in effect
  and leaves devices of an unconfirmed or half applied one; so does a `networkctl delete`
  that fails (`networkd.go:83`, 2174-2181, `main.go:161`). Nobody deletes them later unless a
  configuration with their name is changed; networkd keeps a device of that name as it is, and
  makes no veth whose end they hold (`Wired` without its exceptions, `strays` and `Blocked`).
  Addresses are compared as they are written, so a bond
  may ask for the address of an interface in upper case, and both are then named after the
  same lower-case address (`AddressesUnique` with the configurations `MCBorrowedAddress`;
  `networkd.go:244`, 1393, 1453 against the comment at line 218). An address of a card in
  upper case passes validation and fails after devices and files were removed
  (`networkd.go:2252`, 989). An update that names a configured interface as
  `hwaddr` resolves to its bridge and fails after the clean up (2225). A failed
  generation leaves no files. A card removed from a bridge in use stays a port.
- OS update: a reboot between the installation of an image and the save of
  `NextRelease` makes a broken release be tried a second time. An update of the startup
  check is not followed by a reboot when the list of encrypted volumes or a
  notification fails. A working release whose boots are cut short three times before they are
  blessed (the startup check for certificates reboots, too: `update.go:521`) counts as problematic
  from then on. An update that fails after `systemd-sysupdate` made room leaves `NeedsReboot`
  set for a staged release whose image is gone. After an update is staged, `RunningFromBackup()` holds on the
  newest image that ever ran. After an older release has read a newer state file nothing
  is saved, and a release that does not boot is installed and rebooted into for ever
  (`StopsRebooting` with two formats; `file.go:60`, `update.go:402`).
- Update schedule: the loop wakes one minute after a window starts, so a window of a single
  minute is never used. A new configuration does not wake a loop that sleeps. A window that
  is active counts as zero minutes away and is ignored, so with a frequency longer than
  the windows' period occurrences are skipped. The loop ends for good when `GetPrimary`
  returns an error.
- Applications: a power loss between unlink and relink leaves nothing installed, and
  nothing to download while the recorded version is the published one. A failing
  notification leaves the new version recorded and the old image in use, and a corrupt
  image whose download fails again is removed while the list of available versions still
  has it (the exceptions in `RecordsMatchDisk`). A corrupt image of the recorded version is
  never downloaded again until a newer one is published (`CorruptRecovers`; `update.go:422`
  against the comment at `sysext.go:159`). Two primary applications, which a PUT and a
  startup check may install at the same time, make all later checks fail.
  `RefreshExtensions` takes no lock. An automatic fall back finds no ready line in the
  journal of the failed boot, so versions are not reset. Applications of weight 0 are
  started in both loops of `startApplications`.
- Daemon: requests during startup hang on nil channels. The action loop can wait for
  itself: its own check fails to reload the primary application while a value is
  already in the listener's channel. `SIGTERM` during startup ends the daemon without
  a save. A failing notification after "System is ready" ends the daemon. An OS update
  staged at startup without its reboot leaves a failing primary application without
  fallback listener (`FallbackServed` with `RebootFails`; `main.go:1271` against
  `doc/reference/recovery.md:9`). A crash while an application's directory is moved into
  its dataset is never completed (`main.go:1037`).
- Secure Boot: a certificate update that revokes the old key before a release signed by
  the new one is installed can never be applied, and keeps every check from reaching
  that release (`RotationCompletes` with `SecureBootFairSpec` and `MCAtOnce`;
  `efi_vars.go:402`, `update.go:139`). Key generation that fails half way on the first boot
  is not repeated, and `NeverLockedOut` starts after it (`main.go:444`, 469). A retry after a failed
  rebinding skips it, because the public key or the variable is written first
  (`secureboot.go:118`). A PUT that fails returns without a save. An update after an older
  image was started predicts from its key. The check of revocations ignores the signer
  of the boot stub.
- Storage: importing an encrypted drive with a wrong key replaces its key file
  (`KeysKept` with `WrongKeys`; `luks.go:80`, 187), and importing a pool with one replaces and then
  removes the pool's. Two creations of one pool at a time: the loser removes the winner's
  key. Membership of a drive is read well before it is wiped. A scrub waits for ever for
  a pool that was destroyed (`zfs.go:1061`). An update with special devices
  dereferences nil. `zpool replace` returns before the pool is rebuilt, and the
  old device of a mirror is wiped half a second later all the same, be it the only one online
  (`zfs.go:756`, 772, against the comment at 768; the exception in `PoolsIntact`). Meanwhile
  `zpool` shows `replacing-0` instead of the two drives, so the new one passes for unused and
  may be wiped by a user (`PoolsIntact` with `WipesNew`; `storage.go:463`); the listing of a
  pool without redundancy fails until then, and the wipe of its old device, the list of
  pools and the scrub job with it. When the recovery of a mirror "local" is interrupted, the next
  start asks to replace `replacing-0` and fails; a retry finds the pool imported and goes on
  with a degraded pool. A power loss between the local key file and the
  creation of the pool makes every later start fail (`zfs.go:180`).
- Services: disabling multipath is lost at the next boot (`UpdateKept`;
  `service_multipath.go:155`). An LVM update after a failed start only reconfigures. A
  failed Tailscale update leaves its unit running. USB/IP never detaches. The identity
  file of iSCSI and NVMe is created before its content. Ceph writes `/etc/ceph` before the
  deferred save and it survives a reboot: after a power loss in between it is in effect while
  recorded as disabled, and `Stop` does nothing for it (`service_ceph.go:61`, 83; `cut` in
  `RecordedInEffect`). Its start never clears the directory (102), so what a failed removal
  leaves of other clusters stays. An iSCSI logout that fails is ignored
  (`service_iscsi.go:93`), and the session goes on. Netbird and Tailscale are applied
  before they are saved. Concurrent PUTs take no lock.
- Ceph: a refresh looks up the image once it has been replaced and skips the remaining
  containers (`AllRefreshed`; `ceph.go:992` against
  `doc/tutorials/storage-create-ceph-cluster.md:58`). An initialisation skips members that do
  not answer whether they have a Ceph service (`ceph.go:120`), so two fsids can be in use once
  a failed deployment is started over (`missed` in `OneCluster`). The number of OSDs is checked before
  and apart from a removal. A failed deployment leaves a data volume that makes retries
  fail, a failed refresh a container that stays stopped. Two initialisations at a time
  may mix their fsids.
- State file: concurrent saves share one temporary file and may rename a half written one
  (`file.go:76`). An older image that sets a renamed field saves it under the old name with
  the newer version, after which the newest image refuses to save. A changed type under
  the same name makes an older image's daemon exit. Zero elements of slices and a literal
  `\n` do not survive a round trip.
- Backup: when the removal of the old directory fails half way, the reverter deletes the new
  directory and puts back what is left of the old one, so the keys in both are gone
  (`RestoreRemove`; `backup.go:233` against the comment at 108; `OldDirectoryKept` stops
  where the removal starts). The reverter ignores its own errors. It assigns the old state
  to a local variable (`backup.go:115`). Skipping
  `encryption-recovery-keys` still replaces the listed keys. Installing applications
  during a restore saves the old state over the extracted one. A leftover backup
  directory makes every later restore fail. Keys of pools created after the backup are
  deleted.
- Factory reset: a retry after some partitions were deleted always fails at the first one,
  and rewrites the seed in place with the TPM already cleared. A write that does not end
  leaves an archive that may be read as one of new entries followed by old ones: a retry
  without `wipe_existing_seeds` goes on with seeds that are torn, lost or there under two
  extensions (`reset.go:92`, 174; the exception in `ResetSeeded`).
- Recovery: an update check that reboots saves the temporary provider (`ProviderKept`;
  `recovery.go:271` against the comment at 268).
- Publisher: a sync that failed after it made the directory counts as imported. Metadata is
  emptied before it is written: a crash in between leaves an `update.json` that makes every
  later index fail, or an `index.json` that promote, prune and sync cannot read. demote
  removes changelogs before the metadata forgets them. prune decides from an index
  that may be old. prune removes the directories before the index forgets them
  (`main_prune.go:81` before 89): until it is signed, clients are sent to files that are gone,
  and they stay so until another command ends well if the prune dies in between. A removal
  cut short leaves a listed release without files. Two commands on one release lose a
  change; a sync whose release a prune removes goes on in a directory it makes again and
  lists the images that were lost. A retention of zero removes everything.
- Install: an interrupted installation leaves a partition table, so a retry needs
  `force_install`. A second attempt in one start fails to unmount `/boot`. The deletion of
  partitions 9 to 11 of the media is not resumed. A disk with data and without a GPT is
  overwritten without force (`api/seed/install.go:7`). A system of the same version that
  does not unlock may lose partitions without force (the exception in `PartitionsKept`).
  With force and an immediate restart, media left in place install for ever.
- Image customizer (not modelled): a request is read and deleted in two steps, the index is
  read while the publisher rewrites it, status 200 is sent before files are opened, and
  versions are compared as strings.

## 7. Not modelled

- Flasher tool, command line client, console, manifests, certificates, build files: no
  decision of a running system depends on them, or they are one pass of one process.
- Image customizer: streams a published image with a seed written into it; its only state
  is a table of requests with a time to live.
- Job table (`internal/scheduling`): a map in front of a library, read and written without
  a lock.
- Tokens, keyring, kernel settings, proxy and nftables text: generated or read files; where
  they are a step of an operation, the step may fail.
- Registration with a provider and its cache of releases: HTTP requests to a service outside
  of this repository.
- Hashing of firmware logs and parsing of signature lists, of the output of `lsblk`, `zpool`
  and `smartctl`, and of seeds: conversions without state, represented by their results.
- The rebuild after `zpool attach`: a device added to a mirror counts as one of the pool at
  once, and no property asks what is on it.
- Two operations on applications at a time, concurrent saves of the state file and
  concurrent requests to storage and services: their modules take them one after the other
  (what overlapping ones do is listed in section 6).

## 8. Plan

Modelled so far, in this order: `NetworkConfirm`, `OSUpdate` with `ReleaseHistory`,
`Applications`, `Daemon`, because a wrong step in them loses access to a machine; then
`SecureBoot`, `Storage`, `Services`, `Ceph`, `StateFile`, `Backup`, `FactoryReset`,
`Recovery`, `Publisher`, `Install`, `NetworkFiles`, `UpdateSchedule`.

Left:

1. A version of `Applications` with two operations at a time, composed with `Daemon`.
2. `StateFile` with two savers.
