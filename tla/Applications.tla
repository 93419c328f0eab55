---------------------------- MODULE Applications ----------------------------
(***************************************************************************)
(* Applications: which ones a system installs, the versions of their       *)
(* system extension images it keeps on disk, the one each of them runs,    *)
(* and how updates, version switches, OS roll backs, power losses and      *)
(* corrupt images change that.                                             *)
(*                                                                         *)
(* An image of version v is /var/lib/incus-os-extensions/v/app.raw; the    *)
(* one in use is what the symlink /var/lib/extensions/app.raw points at.   *)
(* The release of an application image is the OS release it was built      *)
(* with, so one set of Releases names both.                                *)
(*                                                                         *)
(* One operation on applications runs at a time (startup, an update check, *)
(* a request of the operator), step by step; reboots, power losses, new    *)
(* releases and corruption fall between any two of its steps.              *)
(***************************************************************************)
EXTENDS Naturals, FiniteSets

CONSTANTS
    Apps,         \* the supported applications
    Primary,      \* the primary ones
    Default,      \* "incus"
    Seed,         \* the applications named by the seed
    Needs,        \* the alternatives an application depends on
    MaxRelease,   \* releases are 1..MaxRelease
    NotifyFails,  \* providers.Notify may fail
    Events        \* how many reboots, power losses, bad images and requests

Releases == 1..MaxRelease
None == 0    \* the empty version string

ASSUME AppAssumption ==
    /\ Primary \subseteq Apps /\ Default \in Primary /\ Seed \subseteq Apps
    /\ Needs \in [Apps -> SUBSET Apps]
ASSUME ReleaseAssumption == MaxRelease \in Nat \ {0}
ASSUME EventAssumption == NotifyFails \in BOOLEAN /\ Events \in Nat

VARIABLES
    images,     \* the versions on disk of each application
    corrupt,    \* those of them that do not verify
    link,       \* the version its symlink points at
    version,    \* app.Version()
    avail,      \* app.AvailableVersions()
    saved,      \* both of them as the state file has them
    running,    \* s.OS.RunningRelease
    other,      \* the release of the other UKI
    counted,    \* the other UKI's file name carries a boot counter
    next,       \* s.OS.NextRelease
    needsReboot,\* s.System.Update.State.NeedsReboot
    prior,      \* priorBootRelease
    journal,    \* util.PriorBootRelease: the release that was ready a boot ago
    published,  \* the version the provider offers
    pc,         \* where the operation under way is
    phase,      \* which operation that is
    todo,       \* the applications it has yet to check
    got,        \* appsUpdated
    job,        \* the application it is downloading, and the version
    left,       \* how many events are left
    spoiled,    \* history: an image has gone bad
    unlinked,   \* history: versions recorded with no refresh since
    paired      \* history: images that were there when the OS release was ready

history == <<spoiled, unlinked, paired>>
disk == <<images, corrupt, link>>
os == <<running, other, counted, next, needsReboot>>
boot == <<prior, journal>>
vars == <<images, corrupt, link, version, avail, saved, running, other, counted,
          next, needsReboot, prior, journal, published, pc, phase, todo, got, job,
          left, spoiled, unlinked, paired>>

NoJob == [app |-> Default, version |-> None]
Now == [version |-> version, avail |-> avail]
Labels == {"idle", "refresh", "relink", "activate", "plan", "pick", "fetch", "os",
           "start", "reboot", "failed"}
Phases == {"boot", "startup", "check", "app", "switch", "remove"}

TypeOK ==
    /\ images \in [Apps -> SUBSET Releases]
    /\ corrupt \in [Apps -> SUBSET Releases]
    /\ link \in [Apps -> Releases \cup {None}]
    /\ version \in [Apps -> Releases \cup {None}]
    /\ avail \in [Apps -> SUBSET Releases]
    /\ saved \in [version : [Apps -> Releases \cup {None}],
                  avail : [Apps -> SUBSET Releases]]
    /\ running \in Releases
    /\ other \in Releases \cup {None} /\ next \in Releases \cup {None}
    /\ counted \in BOOLEAN /\ needsReboot \in BOOLEAN
    /\ prior \in Releases \cup {None} /\ journal \in Releases \cup {None}
    /\ published \in Releases
    /\ pc \in Labels /\ phase \in Phases
    /\ todo \in SUBSET Apps /\ got \in SUBSET Apps
    /\ job \in [app : Apps, version : Releases \cup {None}]
    /\ left \in Nat /\ spoiled \in BOOLEAN
    /\ unlinked \in SUBSET Apps
    /\ paired \in SUBSET (Apps \X Releases)

\* A freshly installed system boots for the first time.
Init ==
    /\ images = [a \in Apps |-> {}] /\ corrupt = [a \in Apps |-> {}]
    /\ link = [a \in Apps |-> None]
    /\ version = [a \in Apps |-> None] /\ avail = [a \in Apps |-> {}]
    /\ saved = [version |-> [a \in Apps |-> None], avail |-> [a \in Apps |-> {}]]
    /\ running = 1 /\ other = None /\ counted = FALSE
    /\ next = None /\ needsReboot = FALSE
    /\ prior = None /\ journal = None
    /\ published = 1
    /\ pc = "refresh" /\ phase = "boot"
    /\ todo = {} /\ got = {} /\ job = NoJob
    /\ left = Events /\ spoiled = FALSE
    /\ unlinked = {} /\ paired = {}

-----------------------------------------------------------------------------
(* What is installed.                                                      *)

\* isInstalled: a version is recorded, a symlink is there (wherever it points),
\* and so is the image of the recorded version.
Installed(a) == version[a] # None /\ link[a] # None /\ version[a] \in images[a]
InstalledApps == {a \in Apps : Installed(a)}

RunningFromBackup == next # None /\ running # next

\* "System is ready" has been logged, and the signal handler is in place.
Ready == phase \notin {"boot", "startup"}

\* Mutant: the default application is added without checking that it is known.
InstallApplicationsUnknown ==
    IF InstalledApps = {} THEN Seed \cup {"default"} ELSE InstalledApps

\* GetInstallApplications: the installed applications or else the seed's, the
\* default primary one if there is none, and missing dependencies.
InstallApplications ==
    LET base == IF InstalledApps = {} THEN Seed ELSE InstalledApps
        list == IF base \cap Primary = {} THEN base \cup {Default} ELSE base
        Lacks(a) == Needs[a] # {} /\ Needs[a] \cap list = {}
    IN  IF \E a \in list : Lacks(a) THEN list \cup {Default} ELSE list

MayInstall(S) == Cardinality(S \cap Primary) <= 1

Spend ==
    /\ left > 0
    /\ left' = left - 1

-----------------------------------------------------------------------------
(* RefreshExtensions.                                                      *)

Newest(S) == CHOOSE v \in S : \A w \in S : w <= v

\* getApplicationsVersions: the versions of an installed application that count.
\* The other UKI is not recognised while its name has a boot counter.
CurrentOSVersion(a) == {running} \cap images[a]
OtherOSVersion(a) == IF counted THEN {} ELSE {other} \cap images[a]

\* Mutant: the other OS release does not count.
ExpectedNoOther(a) == {version[a], Newest(images[a])} \cup CurrentOSVersion(a)

\* The versions that stay: the recorded one, the newest and those of the two UKIs.
Expected(a) ==
    {version[a], Newest(images[a])} \cup CurrentOSVersion(a) \cup OtherOSVersion(a)

\* Mutant: after a roll back the recorded version goes first.
BestVersionRecorded(a) ==
    IF prior = None \/ prior >= running THEN version[a] ELSE Newest(images[a])

\* Mutant: without a prior release the version of the running OS goes first.
BestVersionOS(a) ==
    IF prior # running /\ running \in images[a] THEN running
    ELSE IF prior < running THEN Newest(images[a])
    ELSE version[a]

\* bestApplicationVersion, for an application whose recorded version is on disk.
BestVersion(a) ==
    IF prior = None \/ prior = running THEN version[a]
    ELSE IF prior < running THEN Newest(images[a])
    ELSE IF running \in images[a] THEN running
    ELSE version[a]

\* The operation goes on at a label; an idle system is between checks.
Goto(label) ==
    /\ pc' = label
    /\ phase' = IF label = "idle" THEN "check"
                ELSE IF label = "plan" /\ phase = "boot" THEN "startup" ELSE phase

\* Where an operation goes when a refresh it asked for is done.
AfterRefresh ==
    CASE phase = "boot" -> "plan"
      [] phase \in {"startup", "check"} -> "os"
      [] phase = "app" -> "start"
      [] phase \in {"switch", "remove"} -> "idle"

\* A check that fails ends; at startup the applications are started all the same.
AfterFailure == IF phase = "startup" THEN "start" ELSE "idle"

\* Nothing is installed: RefreshExtensions returns at once.
RefreshNothing ==
    /\ pc = "refresh" /\ InstalledApps = {}
    /\ Goto(AfterRefresh)
    /\ UNCHANGED <<disk, version, avail, saved, os, boot, published, todo, got, job,
                   left, history>>

\* Remove corrupt images other than the current version's, look the prior
\* release up, and remove every symlink.
Unlink ==
    /\ pc = "refresh" /\ InstalledApps # {}
    /\ images' = [a \in Apps |-> IF Installed(a)
                                   THEN images[a] \ (corrupt[a] \ {version[a]})
                                   ELSE images[a]]
    /\ corrupt' = [a \in Apps |-> corrupt[a] \cap images'[a]]
    /\ prior' = IF prior = None THEN journal ELSE prior
    /\ link' = [a \in Apps |-> None]
    \* The operation goes on with the applications that were installed.
    /\ todo' = InstalledApps
    /\ pc' = "relink"
    /\ UNCHANGED <<version, avail, saved, os, journal, published, phase, got, job,
                   left, history>>

\* Mutant: the version that was selected is not recorded.
RelinkUnrecorded ==
    /\ pc = "relink"
    /\ link' = [a \in Apps |-> IF a \in todo THEN BestVersion(a) ELSE link[a]]
    /\ avail' = [a \in Apps |-> IF a \in todo THEN Expected(a) ELSE avail[a]]
    /\ unlinked' = {}
    /\ pc' = "activate"
    /\ UNCHANGED <<images, corrupt, version, saved, os, boot, published, phase, todo,
                   got, job, left, spoiled, paired>>

\* Link the best version of each of them and record it.
Relink ==
    /\ pc = "relink"
    /\ link' = [a \in Apps |-> IF a \in todo THEN BestVersion(a) ELSE link[a]]
    /\ version' = [a \in Apps |-> IF a \in todo THEN BestVersion(a) ELSE version[a]]
    /\ avail' = [a \in Apps |-> IF a \in todo THEN Expected(a) ELSE avail[a]]
    /\ unlinked' = {}
    /\ pc' = "activate"
    /\ UNCHANGED <<images, corrupt, saved, os, boot, published, phase, todo, got,
                   job, left, spoiled, paired>>

LinkedCorrupt(a) == link[a] \in corrupt[a]

\* systemd-sysext loads the images; then the versions that do not count go.
\* After a removal there are none, and the state is saved.
Activate ==
    /\ pc = "activate"
    /\ \A a \in Apps : ~LinkedCorrupt(a)
    /\ prior' = IF phase = "remove" THEN prior ELSE running
    /\ saved' = IF phase = "remove" THEN Now ELSE saved
    /\ images' = [a \in Apps |-> IF a \in todo THEN images[a] \cap avail[a] ELSE images[a]]
    /\ corrupt' = [a \in Apps |-> corrupt[a] \cap images'[a]]
    /\ todo' = {}
    /\ Goto(AfterRefresh)
    /\ UNCHANGED <<link, version, avail, os, journal, published, got, job, left,
                   history>>

\* systemd-sysext meets a corrupt image: every corrupt image of that
\* application is deleted and the system reboots.
RemoveCorruptSysext ==
    /\ pc = "activate"
    /\ \E a \in Apps :
        /\ LinkedCorrupt(a)
        /\ images' = [images EXCEPT ![a] = @ \ corrupt[a]]
        /\ corrupt' = [corrupt EXCEPT ![a] = {}]
    /\ todo' = {}
    /\ pc' = "reboot"
    /\ UNCHANGED <<link, version, avail, saved, os, boot, published, phase, got,
                   job, left, history>>

\* systemd-sysext fails in another way, and with it the operation.  During
\* startup that ends the daemon.
RefreshFault ==
    /\ pc = "activate"
    /\ todo' = {} /\ got' = {}
    /\ Goto(IF phase = "boot" THEN "failed" ELSE AfterFailure)
    /\ UNCHANGED <<disk, version, avail, saved, os, boot, published, job, left,
                   history>>

-----------------------------------------------------------------------------
(* Checker and InstallUpdateApp.                                           *)

\* The periodic check, or one the operator asked for.
CheckBegin ==
    /\ pc = "idle"
    /\ pc' = "plan" /\ phase' = "check"
    /\ UNCHANGED <<disk, version, avail, saved, os, boot, published, todo, got, job,
                   left, history>>

\* What follows the application part of a check.
AfterApps(updated) ==
    IF updated # {} THEN "refresh" ELSE IF phase = "app" THEN "idle" ELSE "os"

Plan ==
    /\ pc = "plan"
    /\ got' = {}
    /\ IF MayInstall(InstallApplications)
         THEN todo' = InstallApplications /\ Goto("pick")
         ELSE todo' = {} /\ Goto(AfterFailure)
    /\ UNCHANGED <<disk, version, avail, saved, os, boot, published, job, left,
                   history>>

\* The applications are checked in a fixed order.
NextApp == CHOOSE a \in todo : TRUE

\* The next application is up to date.  An update that is not newer is an
\* error, which ends the loop over the applications.
PickNothing ==
    /\ pc = "pick" /\ todo # {}
    /\ \/ published = version[NextApp] /\ todo' = todo \ {NextApp}
       \/ published < version[NextApp] /\ todo' = {}
    /\ UNCHANGED <<disk, version, avail, saved, os, boot, published, pc, phase, got,
                   job, left, history>>

\* The next application has an update: its download puts an incomplete image in
\* place, unless a good one is there.
PickUpdate ==
    /\ pc = "pick" /\ todo # {}
    /\ published > version[NextApp]
    /\ todo' = todo \ {NextApp}
    /\ job' = [app |-> NextApp, version |-> published]
    /\ images' = [images EXCEPT ![NextApp] = @ \cup {published}]
    /\ corrupt' = IF published \in images[NextApp] THEN corrupt
                  ELSE [corrupt EXCEPT ![NextApp] = @ \cup {published}]
    /\ pc' = "fetch"
    /\ UNCHANGED <<link, version, avail, saved, os, boot, published, phase, got,
                   left, history>>

\* The loop over the applications is done.
PickDone ==
    /\ pc = "pick" /\ todo = {}
    /\ Goto(AfterApps(got))
    /\ UNCHANGED <<disk, version, avail, saved, os, boot, published, todo, got, job,
                   left, history>>

\* An installed application is not updated while the OS runs from its backup image.
Held(a) ==
    /\ version[a] # None /\ version[a] \in images[a]
    /\ ~needsReboot /\ RunningFromBackup

\* applyUpdate for an application, up to the notification: the image verifies,
\* the symlink is made if there is none, and the version is recorded, or only
\* listed when the OS runs from its backup image.
Recorded(a, v) ==
    /\ corrupt' = [corrupt EXCEPT ![a] = @ \ {v}]
    /\ link' = [link EXCEPT ![a] = IF @ = None THEN v ELSE @]
    /\ version' = IF Held(a) THEN version ELSE [version EXCEPT ![a] = v]
    /\ avail' = [avail EXCEPT ![a] = IF Held(a) THEN @ \cup {v} ELSE {}]

\* The application part is done for this one.
FetchEnd ==
    /\ pc = "fetch"
    /\ Recorded(job.app, job.version)
    /\ got' = got \cup {job.app}
    /\ job' = NoJob
    /\ pc' = "pick"
    /\ UNCHANGED <<images, saved, os, boot, published, phase, todo, left, history>>

\* The download fails (what was downloaded is removed) or does not verify (and
\* stays).  The loop over the applications ends.
FetchFault ==
    /\ pc = "fetch"
    /\ \/ /\ job.version \in corrupt[job.app]
          /\ images' = [images EXCEPT ![job.app] = @ \ {job.version}]
          /\ corrupt' = [corrupt EXCEPT ![job.app] = @ \ {job.version}]
       \/ UNCHANGED <<images, corrupt>>
    /\ todo' = {} /\ job' = NoJob
    /\ pc' = "pick"
    /\ UNCHANGED <<link, version, avail, saved, os, boot, published, phase, got,
                   left, history>>

\* The provider cannot be told: the version is recorded, and the loop ends.
NotifyFault ==
    /\ NotifyFails
    /\ pc = "fetch" /\ ~Held(job.app)
    /\ Recorded(job.app, job.version)
    /\ unlinked' = unlinked \cup {job.app}
    /\ todo' = {} /\ job' = NoJob
    /\ pc' = "pick"
    /\ UNCHANGED <<images, saved, os, boot, published, phase, got, left, spoiled,
                   paired>>

\* There is no OS update to apply, or it fails.
OSCurrent ==
    /\ pc = "os"
    /\ pc' = "start"
    /\ UNCHANGED <<disk, version, avail, saved, os, boot, published, phase, todo,
                   got, job, left, history>>

\* An OS update replaces the other UKI; the state is saved.  At startup, or if
\* configured, the system then reboots.
StageOS ==
    /\ pc = "os"
    /\ published > running /\ published # next
    /\ other' = published /\ counted' = TRUE
    /\ next' = published
    /\ saved' = Now
    /\ \E auto \in BOOLEAN :
        /\ phase = "startup" => auto
        /\ needsReboot' = (needsReboot \/ ~auto)
        /\ pc' = IF auto THEN "reboot" ELSE "start"
    /\ paired' = {p \in paired : p[2] = running}
    /\ UNCHANGED <<disk, version, avail, running, boot, published, phase, todo, got,
                   job, left, spoiled, unlinked>>

\* Some application is started that did not run before, for certain.
StartsOne == \/ phase = "startup" /\ InstalledApps # {}
             \/ \E a \in got : saved.version[a] = None

\* Applications are started (at startup) or reloaded: an application that is not
\* running yet is started, which saves the state.
Start ==
    /\ pc = "start"
    /\ saved' \in IF StartsOne THEN {Now} ELSE {Now, saved}
    /\ got' = {}
    /\ Goto("idle")
    /\ paired' = paired \cup
         {<<a, running>> : a \in {b \in InstalledApps : running \in images[b] \ corrupt[b]}}
    /\ UNCHANGED <<disk, version, avail, os, boot, published, todo, job, left,
                   spoiled, unlinked>>

-----------------------------------------------------------------------------
(* The operator's requests.                                                *)

\* POST /1.0/applications
UserInstall ==
    /\ pc = "idle" /\ Spend
    /\ \E a \in Apps :
        /\ ~Installed(a)
        /\ ~(a \in Primary /\ InstalledApps \cap Primary # {})
        /\ todo' = {a}
    /\ got' = {}
    /\ pc' = "pick" /\ phase' = "app"
    /\ UNCHANGED <<disk, version, avail, saved, os, boot, published, job, history>>

\* POST /1.0/applications/{name}/:check-update
UserUpdate ==
    /\ pc = "idle" /\ Spend
    /\ \E a \in InstalledApps : todo' = {a}
    /\ got' = {}
    /\ pc' = "pick" /\ phase' = "app"
    /\ UNCHANGED <<disk, version, avail, saved, os, boot, published, job, history>>

\* POST /1.0/applications/{name}/:switch-version
UserSwitch ==
    /\ pc = "idle" /\ Spend
    /\ \E a \in InstalledApps : \E v \in avail[a] :
        /\ Cardinality(avail[a]) # 1
        /\ version' = [version EXCEPT ![a] = v]
    /\ pc' = "refresh" /\ phase' = "switch"
    /\ UNCHANGED <<disk, avail, saved, os, boot, published, todo, got, job, history>>

\* POST /1.0/applications/{name}/:remove
UserRemove ==
    /\ pc = "idle" /\ Spend
    /\ \E a \in InstalledApps \ Primary :
        /\ version' = [version EXCEPT ![a] = None]
        /\ avail' = [avail EXCEPT ![a] = {}]
        /\ link' = [link EXCEPT ![a] = None]
        /\ images' = [images EXCEPT ![a] = {}]
        /\ corrupt' = [corrupt EXCEPT ![a] = {}]
        /\ paired' = {p \in paired : p[1] # a}
    /\ todo' = {}
    /\ pc' = "activate" /\ phase' = "remove"
    /\ UNCHANGED <<saved, os, boot, published, got, job, spoiled, unlinked>>

\* Other parts of the daemon save the state at any time.
OtherSave ==
    /\ pc \notin {"failed", "reboot"}
    /\ saved' = Now
    /\ UNCHANGED <<disk, version, avail, os, boot, published, pc, phase, todo, got,
                   job, left, history>>

-----------------------------------------------------------------------------
(* Reboots and the surroundings.                                           *)

\* The daemon starts with a state it reads.
StartFrom(state) ==
    /\ prior' = None
    /\ version' = state.version /\ avail' = state.avail /\ saved' = state
    /\ needsReboot' = FALSE
    /\ pc' = "refresh" /\ phase' = "boot"
    /\ todo' = {} /\ got' = {} /\ job' = NoJob

\* systemd starts a daemon that failed again.
DaemonRestart ==
    /\ pc = "failed"
    /\ StartFrom(saved)
    /\ UNCHANGED <<disk, running, other, counted, next, journal, published, left, history>>

\* The system comes up again, from either UKI, with the state that was saved.
\* The journal of the boot before has its release if that boot was ready, and
\* does not if a failed boot or a lost journal lies between.
BootFrom(state) ==
    /\ \E r \in {running, other} \ {None} :
        /\ running' = r
        /\ other' = IF r = running THEN other ELSE running
        /\ counted' = (r = running /\ counted)
    /\ journal' \in {None} \cup (IF Ready THEN {running} ELSE {})
    /\ StartFrom(state)

\* The state is saved on the way down once startup is over.
GoDown == BootFrom(IF Ready THEN Now ELSE saved)

\* The reboot an operation asked for.
Reboot ==
    /\ pc = "reboot"
    /\ GoDown
    /\ UNCHANGED <<disk, next, published, left, history>>

UserReboot ==
    /\ Spend
    /\ GoDown
    /\ UNCHANGED <<disk, next, published, history>>

PowerLoss ==
    /\ Spend
    /\ BootFrom(saved)
    /\ UNCHANGED <<disk, next, published, history>>

\* An image goes bad.
Corrupt ==
    /\ Spend
    /\ \E a \in Apps : \E v \in images[a] :
        /\ corrupt' = [corrupt EXCEPT ![a] = @ \cup {v}]
        /\ paired' = paired \ {<<a, v>>}
    /\ spoiled' = TRUE
    /\ UNCHANGED <<images, link, version, avail, saved, os, boot, published, pc,
                   phase, todo, got, job, unlinked>>

Publish ==
    /\ published < MaxRelease
    /\ published' = published + 1
    /\ UNCHANGED <<disk, version, avail, saved, os, boot, pc, phase, todo, got, job,
                   left, history>>

Refresh == RefreshNothing \/ Unlink \/ Relink \/ Activate \/ RemoveCorruptSysext
Check == CheckBegin \/ Plan \/ PickNothing \/ PickUpdate \/ PickDone \/ StageOS \/ Start
Request == UserInstall \/ UserUpdate \/ UserSwitch \/ UserRemove

Next ==
    \/ Refresh \/ RefreshFault
    \/ Check \/ FetchEnd \/ FetchFault \/ NotifyFault \/ OSCurrent
    \/ Request \/ OtherSave
    \/ DaemonRestart \/ Reboot \/ UserReboot \/ PowerLoss \/ Corrupt \/ Publish

Spec == Init /\ [][Next]_vars

-----------------------------------------------------------------------------
(* Properties.                                                             *)

\* What the daemon does goes on (its goroutines run, systemd restarts it and
\* carries out a reboot), and a download or a refresh that is tried for ever
\* succeeds in the end.
FairSpec ==
    /\ Spec
    /\ WF_vars(Refresh \/ Check \/ OSCurrent \/ FetchFault \/ DaemonRestart
               \/ Reboot)
    /\ SF_vars(FetchEnd) /\ SF_vars(Activate)

\* An OS roll back needs application images that match the older release: an
\* image that was there when an OS release had started, of an application that
\* is still installed, stays as long as that release can be booted, whatever
\* updates, switches and clean ups do in between (RefreshExtensions with
\* getApplicationsVersions and removeStaleSysextImages).
FallbackImageKept ==
    \A a \in Apps, r \in Releases : <<a, r>> \in paired => r \in images[a]

\* After booting an older OS release, an application whose image of that release
\* was there when the release ran is back at that version, and that is the one
\* its symlink selects (bestApplicationVersion).
RollbackRestores ==
    pc = "plan" /\ phase = "startup" /\ journal > running =>
        \A a \in InstalledApps :
            <<a, running>> \in paired => version[a] = running /\ link[a] = running

\* Between operations, every version offered for a switch is on disk, so that
\* SwitchVersion never selects an image that is gone.  A bad image that a later
\* download removes and fails to replace is the exception.
AvailableOnDisk ==
    pc = "idle" /\ ~spoiled =>
        \A a \in InstalledApps : avail[a] \subseteq images[a]

\* Between operations, the image in use is the one of the recorded version.  A
\* notification that failed ends a check before its refresh and is the exception.
LinkMatchesVersion ==
    pc = "idle" => \A a \in InstalledApps \ unlinked : link[a] = version[a]

\* Between operations the records and the disk agree: what is offered is on disk, and what
\* is recorded is in use (RefreshExtensions records, links and prunes one after the other).
RecordsMatchDisk == AvailableOnDisk /\ LinkMatchesVersion

\* An application moves to an older version only because the operator chose one,
\* because the system restarted with an older state, or because an older OS
\* release was booted.
NoSilentDowngrade ==
    [][\A a \in Apps :
        version'[a] # None /\ version'[a] < version[a] =>
            \/ pc = "idle" /\ phase' = "switch"
            \/ phase' = "boot" /\ pc' = "refresh"
            \/ prior > running]_vars

\* removeCorruptSysext: "even if all on-disk images were corrupt and deleted, the
\* system will automatically download a known-good application image [...] to
\* guarantee that the system remains operational": once bad images have been
\* removed and the system reboots, a primary application is installed again.
CorruptRecovers == spoiled /\ pc = "reboot" ~> InstalledApps \cap Primary # {}
=============================================================================
