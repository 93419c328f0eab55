------------------------------ MODULE OSUpdate ------------------------------
(***************************************************************************)
(* Updating the OS image: the update checks of the daemon, the record they *)
(* keep in the state file, and the A/B images the machine boots from.      *)
(*                                                                         *)
(* CheckAndDownloadUpdate holds UpdateMutex from end to end, so at most    *)
(* one check is under way whatever started it (startup, the periodic       *)
(* checker, a user); its steps interleave with releases being published,   *)
(* with reboots, power losses and restarts of the daemon alone.            *)
(*                                                                         *)
(* systemd-sysupdate, systemd-boot and systemd-bless-boot are external.    *)
(* They are modelled as mkosi.images/base configures them: two images, the *)
(* running one protected, boot counting for a new one.                     *)
(***************************************************************************)
EXTENDS Naturals

CONSTANTS
    MaxVersion,    \* releases are 1..MaxVersion, in the order of IsNewerThan
    Broken,        \* releases that never get as far as starting the daemon
    Format,        \* the state file format each release writes
    AutoReboot,    \* s.System.Update.Config.AutoReboot
    Tries,         \* TriesLeft of a newly installed image
    NotifyFails,   \* providers.Notify and SystemReboot may fail
    Budget         \* bounds on how often the surroundings act

Versions == 1..MaxVersion

\* What the provider (of releases and of Secure Boot certificates), the operator and the
\* power supply do.
Surroundings == {"publish", "certs", "powerloss", "restart", "reboot", "select"}

ASSUME VersionAssumption == MaxVersion \in Nat \ {0}
\* The release a system was installed with works.
ASSUME BrokenAssumption == Broken \subseteq Versions \ {1}
ASSUME FormatAssumption == Format \in [Versions -> Nat]
ASSUME SwitchAssumption ==
    AutoReboot \in BOOLEAN /\ NotifyFails \in BOOLEAN
ASSUME BoundAssumption ==
    Tries \in Nat \ {0} /\ Budget \in [Surroundings -> Nat]

None == 0    \* the empty release string

VARIABLES
    published,     \* the release the provider offers
    installed,     \* the releases that have an image (UKI and usr partition)
    blessed,       \* the images that completed a boot
    tries,         \* boot attempts an image that is not blessed has left
    up,            \* an image is running, with the daemon
    running,       \* s.OS.RunningRelease; while down, the release that ran last
    starting,      \* the daemon is still in startup()
    next,          \* s.OS.NextRelease
    needsReboot,   \* s.System.Update.State.NeedsReboot, cleared at start
    unrecognized,  \* len(s.UnrecognizedFields) > 0
    certs,         \* an EFI variable was updated since the daemon started
    disk,          \* NextRelease and the format of the state file
    step,          \* where the update under way is
    ver,           \* the release it installs
    atStartup,     \* isStartupCheck of the update under way
    left,          \* what is left of the budget
    \* History, read by the properties only:
    offered,       \* releases the provider ever offered
    ran            \* releases that ever ran

image == <<installed, blessed, tries>>
memory == <<next, needsReboot, unrecognized, certs>>
update == <<step, ver, atStartup>>
history == <<offered, ran>>
vars == <<published, installed, blessed, tries, up, running, starting, next,
          needsReboot, unrecognized, certs, disk, step, ver, atStartup, left, offered, ran>>

Steps == {"idle", "download", "vacate", "install", "record", "notify", "reboot", "rebooting"}

TypeOK ==
    /\ published \in Versions \cup {None}
    /\ installed \in SUBSET Versions
    /\ blessed \in SUBSET Versions
    /\ tries \in [Versions -> 0..Tries]
    /\ up \in BOOLEAN /\ starting \in BOOLEAN
    /\ running \in Versions
    /\ next \in Versions \cup {None}
    /\ needsReboot \in BOOLEAN /\ unrecognized \in BOOLEAN /\ certs \in BOOLEAN
    /\ disk \in [next : Versions \cup {None}, format : Nat]
    /\ step \in Steps
    /\ ver \in Versions \cup {None}
    /\ atStartup \in BOOLEAN
    /\ left \in [Surroundings -> Nat]
    /\ offered \in SUBSET Versions
    /\ ran \in SUBSET Versions

\* A freshly installed system that has started up once.
Init ==
    /\ published = None
    /\ installed = {1} /\ blessed = {1}
    /\ tries = [v \in Versions |-> 0]
    /\ up = TRUE /\ starting = FALSE /\ running = 1
    /\ next = None /\ needsReboot = FALSE /\ unrecognized = FALSE /\ certs = FALSE
    /\ disk = [next |-> None, format |-> Format[1]]
    /\ step = "idle" /\ ver = None /\ atStartup = FALSE
    /\ left = Budget
    /\ offered = {} /\ ran = {1}

\* The surroundings act, as often as their budget allows.
Spend(what) ==
    /\ left[what] > 0
    /\ left' = [left EXCEPT ![what] = @ - 1]

-----------------------------------------------------------------------------
(* The state file.                                                         *)

\* Save refuses to write a state it could not read in full.
SavedAs(n) == IF unrecognized THEN disk
              ELSE [next |-> n, format |-> Format[running]]

\* Mutant: NextRelease is not part of what is read back.
LoadStateForgets(v, d) ==
    /\ next' = None
    /\ needsReboot' = FALSE /\ certs' = FALSE
    /\ unrecognized' = (d.format > Format[v])
    /\ disk' = IF d.format < Format[v] THEN [d EXCEPT !.format = Format[v]] ELSE d
    /\ starting' = TRUE

\* The daemon starts on image v: it loads the state file, upgrades it to its
\* own format (and saves that), and clears the reboot flag.
LoadState(v, d) ==
    /\ next' = d.next
    /\ needsReboot' = FALSE /\ certs' = FALSE
    /\ unrecognized' = (d.format > Format[v])
    /\ disk' = IF d.format < Format[v] THEN [d EXCEPT !.format = Format[v]] ELSE d
    /\ starting' = TRUE

\* state.OS.RunningFromBackup
RunningFromBackup == next # None /\ running # next

-----------------------------------------------------------------------------
(* CheckAndDownloadUpdate for TypeOS.                                      *)

\* "Identified as problematic": the release this image fell back from.
Problematic(v) == ~needsReboot /\ RunningFromBackup /\ next = v

UpdateNeeded(v) == v # running /\ v # next

\* The update under way ends, with or without an error.  The startup check is
\* the last part of startup that matters here.
Finish ==
    /\ step' = "idle" /\ ver' = None /\ atStartup' = FALSE
    /\ starting' = FALSE

\* Mutant: a release that is not newer is applied too.
CheckFindsAny ==
    /\ up /\ step = "idle"
    /\ published # None
    /\ ~Problematic(published)
    /\ UpdateNeeded(published)
    /\ step' = "download"
    /\ ver' = published
    /\ atStartup' = starting
    /\ UNCHANGED <<published, image, up, running, starting, memory, disk, left, history>>

\* A check takes the mutex and finds an update to apply.
CheckFinds ==
    /\ up /\ step = "idle"
    /\ published # None
    /\ ~Problematic(published)
    /\ UpdateNeeded(published)
    /\ published > running
    /\ step' = "download"
    /\ ver' = published
    /\ atStartup' = starting
    /\ UNCHANGED <<published, image, up, running, starting, memory, disk, left, history>>

\* The startup check is off, finds nothing to do or fails.
StartupCheckEnds ==
    /\ up /\ starting /\ step = "idle"
    /\ starting' = FALSE
    /\ UNCHANGED <<published, image, up, running, memory, disk, update, left, history>>

\* A check for Secure Boot certificates (SecureBoot has the steps) updates an EFI variable:
\* nothing more is done to the certificates before a reboot, which the startup check starts.
SecureBootUpdate ==
    /\ up /\ step = "idle" /\ ~needsReboot
    /\ Spend("certs")
    /\ needsReboot' = TRUE /\ certs' = TRUE
    /\ IF starting THEN step' \in {"idle", "rebooting"} ELSE UNCHANGED step
    /\ UNCHANGED <<published, image, up, running, starting, next, unrecognized, disk, ver,
                   atStartup, history>>

\* A boot is complete, and blessed, long before an image is downloaded.
Download ==
    /\ up /\ step = "download"
    /\ running \in blessed
    /\ step' = "vacate"
    /\ UNCHANGED <<published, image, up, running, starting, memory, disk, ver,
                   atStartup, left, history>>

\* The download fails, ApplySystemUpdate does not accept the files, or
\* systemd-sysupdate fails.
DownloadFault ==
    /\ up /\ step \in {"download", "vacate", "install"}
    /\ Finish
    /\ UNCHANGED <<published, image, up, running, memory, disk, left, history>>

\* Mutant: the oldest image makes room, whether or not it is the running one.
VacateOldest ==
    /\ up /\ step = "vacate"
    /\ installed' = IF ver \in installed THEN installed
                    ELSE {v \in installed : \A w \in installed : w <= v}
    /\ blessed' = blessed \cap installed'
    /\ step' = "install"
    /\ UNCHANGED <<published, tries, up, running, starting, memory, disk, ver,
                   atStartup, left, history>>

\* systemd-sysupdate first makes room for one image, sparing the running one.
\* An image that is already there is left as it is.
Vacate ==
    /\ up /\ step = "vacate"
    /\ installed' = IF ver \in installed THEN installed ELSE {running}
    /\ blessed' = blessed \cap installed'
    /\ step' = "install"
    /\ UNCHANGED <<published, tries, up, running, starting, memory, disk, ver,
                   atStartup, left, history>>

Install ==
    /\ up /\ step = "install"
    /\ installed' = installed \cup {ver}
    /\ tries' = IF ver \in installed THEN tries ELSE [tries EXCEPT ![ver] = Tries]
    /\ step' = "record"
    /\ UNCHANGED <<published, blessed, up, running, starting, memory, disk, ver,
                   atStartup, left, history>>

\* NextRelease is recorded and saved once the image is in place.
Record ==
    /\ up /\ step = "record"
    /\ needsReboot' = (needsReboot \/ (~AutoReboot /\ ~atStartup))
    /\ next' = ver
    /\ disk' = SavedAs(ver)
    /\ step' = "notify"
    /\ UNCHANGED <<published, image, up, running, starting, unrecognized, certs, ver,
                   atStartup, left, history>>

\* The provider is told; without an automatic reboot the check ends here.
Notify ==
    /\ up /\ step = "notify"
    /\ IF AutoReboot \/ atStartup
         THEN step' = "reboot" /\ UNCHANGED <<starting, ver, atStartup>>
         ELSE Finish
    /\ UNCHANGED <<published, image, up, running, memory, disk, left, history>>

\* The second notification, then the reboot itself.
Reboot ==
    /\ up /\ step = "reboot"
    /\ step' = "rebooting"
    /\ UNCHANGED <<published, image, up, running, starting, memory, disk, ver,
                   atStartup, left, history>>

\* Listing the encrypted volumes, a notification or the reboot fails: the check
\* returns the error and nothing else happens.
NotifyFault ==
    /\ NotifyFails
    /\ up /\ step \in {"notify", "reboot"}
    /\ Finish
    /\ UNCHANGED <<published, image, up, running, memory, disk, left, history>>

-----------------------------------------------------------------------------
(* The machine.                                                            *)

\* The daemon's memory and the update under way are gone.
GoDown(d) ==
    /\ up' = FALSE
    /\ starting' = FALSE
    /\ next' = None /\ needsReboot' = FALSE /\ unrecognized' = FALSE /\ certs' = FALSE
    /\ disk' = d
    /\ step' = "idle" /\ ver' = None /\ atStartup' = FALSE

\* A reboot the daemon knows of: by an update of the OS or of certificates, or by a user
\* through the API (the action loop that takes the latter runs once startup is over).
Shutdown ==
    /\ up
    /\ \/ step = "rebooting" /\ UNCHANGED left
       \/ ~starting /\ needsReboot /\ UNCHANGED left
       \/ ~starting /\ Spend("reboot")
    /\ GoDown(SavedAs(next))
    /\ UNCHANGED <<published, image, running, offered, ran>>

PowerLoss ==
    /\ up
    /\ Spend("powerloss")
    /\ GoDown(disk)
    /\ UNCHANGED <<published, image, running, offered, ran>>

\* The daemon alone ends and systemd restarts it.
DaemonRestart ==
    /\ up
    /\ Spend("restart")
    /\ step' = "idle" /\ ver' = None /\ atStartup' = FALSE
    /\ LoadState(running, disk)
    /\ UNCHANGED <<published, image, up, running, offered, ran>>

Bootable(v) == v \in blessed \/ tries[v] > 0

\* The order of the boot menu: images with no attempts left come last, then the
\* newest release first.
BootsFirst(v) ==
    /\ v \in installed
    /\ \A w \in installed \ {v} :
          \/ Bootable(v) /\ ~Bootable(w)
          \/ (Bootable(v) <=> Bootable(w)) /\ v > w

\* Mutant: boot attempts are not counted.
BootImageUncounted(v) ==
    /\ ~up
    /\ UNCHANGED tries
    /\ IF v \in Broken
         THEN UNCHANGED <<up, running, starting, memory, disk, ran>>
         ELSE /\ up' = TRUE
              /\ running' = v
              /\ ran' = ran \cup {v}
              /\ LoadState(v, disk)
    /\ UNCHANGED <<published, installed, blessed, update, offered>>

\* Mutant: the count goes on below zero.
BootImageUnderflow(v) ==
    /\ ~up
    /\ tries' = [tries EXCEPT ![v] = IF v \in blessed THEN @ ELSE @ - 1]
    /\ IF v \in Broken
         THEN UNCHANGED <<up, running, starting, memory, disk, ran>>
         ELSE /\ up' = TRUE
              /\ running' = v
              /\ ran' = ran \cup {v}
              /\ LoadState(v, disk)
    /\ UNCHANGED <<published, installed, blessed, update, offered>>

\* systemd-boot counts the attempt; a broken image does not get any further and
\* the machine is reset.
BootImage(v) ==
    /\ ~up
    /\ tries' = [tries EXCEPT ![v] = IF v \in blessed \/ @ = 0 THEN @ ELSE @ - 1]
    /\ IF v \in Broken
         THEN UNCHANGED <<up, running, starting, memory, disk, ran>>
         ELSE /\ up' = TRUE
              /\ running' = v
              /\ ran' = ran \cup {v}
              /\ LoadState(v, disk)
    /\ UNCHANGED <<published, installed, blessed, update, offered>>

Boot == \E v \in installed : BootsFirst(v) /\ BootImage(v) /\ UNCHANGED left

\* The operator picks another image at the boot menu.
BootSelected == \E v \in installed : ~BootsFirst(v) /\ BootImage(v) /\ Spend("select")

\* systemd-bless-boot, once the boot is complete (the daemon may still be
\* starting).
Bless ==
    /\ up /\ running \notin blessed
    /\ blessed' = blessed \cup {running}
    /\ UNCHANGED <<published, installed, tries, up, running, starting, memory,
                   disk, update, left, history>>

\* A release is published, withdrawn, or the channel is changed.
Publish ==
    /\ Spend("publish")
    /\ \E v \in Versions \ {published} : published' = v /\ offered' = offered \cup {v}
    /\ UNCHANGED <<image, up, running, starting, memory, disk, update, ran>>

-----------------------------------------------------------------------------

Check == CheckFinds \/ StartupCheckEnds \/ SecureBootUpdate
Apply == Download \/ DownloadFault \/ Vacate \/ Install \/ Record \/ Notify \/ Reboot \/ NotifyFault

Next ==
    \/ Check
    \/ Apply
    \/ Shutdown
    \/ PowerLoss
    \/ DaemonRestart
    \/ Boot
    \/ BootSelected
    \/ Bless
    \/ Publish

\* The checks recur, and one that is disturbed time and again gets through in the
\* end; a machine that is down is booted, a boot completes, and the reboot that
\* an update asked for, of the daemon or of the operator, happens.
Fairness ==
    /\ SF_vars(CheckFinds)
    /\ WF_vars(StartupCheckEnds)
    /\ SF_vars(Download) /\ SF_vars(Vacate) /\ SF_vars(Install)
    /\ SF_vars(Record) /\ SF_vars(Notify) /\ SF_vars(Reboot)
    /\ WF_vars((step = "rebooting" \/ needsReboot) /\ Shutdown)
    /\ WF_vars(Boot)
    /\ WF_vars(Bless)

Spec == Init /\ [][Next]_vars
FairSpec == Spec /\ Fairness

-----------------------------------------------------------------------------
(* Properties.                                                             *)

\* Whatever is installed, interrupted or rolled back, an image that is known to
\* work stays installed: the one that ran last.
NeverBricked == running \in installed \ Broken

\* A pending reboot leads forward, unless it is for a certificate: the release the system waits
\* to be rebooted into is newer than the running one, also after several updates in a row and
\* on a backup image. After a certificate update next may be unset or even older.
PendingIsNewer == needsReboot /\ ~certs => next > running

\* A machine that went down, for an update or by accident, comes up again,
\* falling back to the other image when the new one does not boot.
ComesUp == ~up ~> up

\* Left alone with whatever the provider offers last, the system ends up on that
\* release unless it is older or broken, and then stays up: an update that does
\* not boot is not applied over and over again.
Settles == <>[](up /\ (published = None \/ published \in Broken \/ published <= running))

\* What the component promises to the rest of the world (see ReleaseHistory).
Promise == INSTANCE ReleaseHistory WITH current <- running
KeepsPromise == Promise!Spec

(* Statements of the documentation and comments.                           *)

\* Comment in CheckAndDownloadUpdate: running from the backup image, the system
\* does not update to a broken version again; so it does not reboot for ever.
StopsRebooting == <>[]up
=============================================================================
