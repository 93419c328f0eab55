------------------------------- MODULE Install -------------------------------
(***************************************************************************)
(* Installation to a local disk (internal/install, internal/seed): what    *)
(* the daemon decides when it starts with an install seed, the steps that  *)
(* write the target, and the restarts in between. The power may go at any  *)
(* step, any step may fail, and the user may change what is plugged in or  *)
(* edit the seed at any time.                                              *)
(***************************************************************************)
EXTENDS Integers, FiniteSets

CONSTANTS
    Disks,           \* the disks of the machine
    DiskSize,        \* size of each disk; those below MinimumSize are refused
    MinimumSize,
    InstallConfigs,  \* install seeds a user may write
    SeedNames,       \* other seed files
    MediaVersion,    \* version on the install media
    Interventions    \* bound on what the user does and on power losses

ASSUME InstallAssumption ==
    /\ DiskSize \in [Disks -> Nat] /\ MinimumSize \in Nat /\ Interventions \in Nat /\ MediaVersion \in Nat
    /\ Disks \cap {"media", "none"} = {} /\ "install" \notin SeedNames
    /\ \A c \in InstallConfigs : {c.force, c.confirm} \subseteq BOOLEAN

VARIABLES
    disk,       \* what is on each disk
    media,      \* the install media: plugged in, its install seed and the partitions repart added to it
    external,   \* the seed the user provides apart from the media: plugged in, its files
    firmware,   \* Secure Boot, a physical TPM, the IncusOSInstallComplete variable
    host,       \* what is running: the step, what it was started from, /tmp/swtpm, whether /boot is mounted
    plan,       \* the installation under way, or the last one: its target, whether it is forced
    acts,       \* number of interventions
    wiped       \* what partitions that were removed held, and what the seed said

installVars == <<disk, media, external, firmware, host, plan, acts, wiped>>

Nil == [nil |-> TRUE]
NoSeed == [none |-> TRUE]
Partitions == 1 .. 3      \* the ESP, seed-data, and the read-only system
SourceExtra == 9 .. 11    \* what systemd-repart adds to the media when it is writable

Blank == [table |-> "none", holds |-> "nothing", version |-> 0, copied |-> {}, seeds |-> {},
          flags |-> {}, loader |-> FALSE, sealed |-> FALSE]
\* Partitions with data of another system; an IncusOS that has been in use.
Foreign == [Blank EXCEPT !.table = "gpt", !.holds = "data"]
InUse(v, sealed) == [Blank EXCEPT !.table = "gpt", !.holds = "incusos", !.version = v, !.copied = Partitions,
                                  !.loader = TRUE, !.sealed = sealed]
\* A table whose main header was overwritten.
HalfWiped == [Foreign EXCEPT !.table = "backup"]

DiskType == [table : {"none", "backup", "gpt"}, holds : {"nothing", "data", "image", "incusos"}, version : Nat,
             copied : SUBSET Partitions, seeds : SUBSET (SeedNames \cup {"install"}),
             flags : SUBSET {"swtpm", "sb-disabled"}, loader : BOOLEAN, sealed : BOOLEAN]

Writing == {"wipe", "unmount", "clean", "define", "esp", "copy", "seed", "boot", "tpm", "loader", "mark"}

InstallTypeOK ==
    /\ disk \in [Disks -> DiskType]
    /\ media.plugged \in BOOLEAN /\ media.extra \subseteq SourceExtra
    /\ media.config = NoSeed \/ media.config \in InstallConfigs
    /\ external.plugged \in BOOLEAN /\ external.files \subseteq SeedNames
    /\ external.config = NoSeed \/ external.config \in InstallConfigs
    /\ host.step \in Writing \cup {"off", "start", "check", "refused", "done", "live", "running"}
    /\ host.from \in Disks \cup {"media"}
    /\ plan.target \in Disks \cup {"none"}
    /\ acts \in 0 .. Interventions

InstallInit ==
    /\ \E d \in Disks, first \in {Blank, Foreign, HalfWiped, InUse(MediaVersion, TRUE), InUse(MediaVersion, FALSE),
                                   InUse(MediaVersion + 1, TRUE)}, rest \in {Blank, Foreign} :
        disk = [e \in Disks |-> IF e = d THEN first ELSE rest]
    /\ \E c \in InstallConfigs \cup {NoSeed}, p \in BOOLEAN :
        /\ media = [plugged |-> TRUE, config |-> IF p THEN NoSeed ELSE c, readonly |-> FALSE, extra |-> {}]
        /\ external = [plugged |-> p, config |-> IF p THEN c ELSE NoSeed, files |-> SeedNames]
    /\ \E sb, tpm \in BOOLEAN : firmware = [secureBoot |-> sb, tpm |-> tpm, complete |-> FALSE]
    /\ host = [step |-> "off", from |-> "media", source |-> "media", swtpm |-> FALSE, boot |-> TRUE]
    /\ plan = [target |-> "none", force |-> FALSE]
    /\ acts = 0 /\ wiped = {}

(***************************************************************************)
(* Seeds                                                                   *)
(***************************************************************************)

\* A partition labelled SEED_DATA is read in place of the one on the disk that was started.
SeedPath == IF external.plugged THEN "external" ELSE "seed-data"

\* The files of the user's partition, and the archive in seed-data; that of an installed disk
\* keeps no install seed once its installation was finished.
FromUserPartition == external.config
FromRawTar == IF host.from = "media" THEN media.config
              ELSE IF "install" \in disk[host.from].seeds THEN media.config ELSE NoSeed

InstallSeed == IF SeedPath = "external" THEN FromUserPartition ELSE FromRawTar

ShouldPerformInstall == InstallSeed # NoSeed

(***************************************************************************)
(* Starting                                                                *)
(***************************************************************************)

\* The firmware starts the media when it is there, else a disk whose ESP and system were copied
\* (the ESP has the loader removable media are started with). With the same version on the media and on a disk, either may end up mounted as /usr.
Boot ==
    /\ host.step = "off"
    /\ \E from \in IF media.plugged THEN {"media"} ELSE {d \in Disks : {1, 3} \subseteq disk[d].copied} :
       \E source \in {from} \cup IF from = "media" THEN {d \in Disks : 3 \in disk[d].copied
                                                           /\ disk[d].version = MediaVersion} ELSE {} :
        host' = [step |-> "start", from |-> from, source |-> source, swtpm |-> FALSE, boot |-> TRUE]
    /\ \/ ~media.plugged /\ UNCHANGED media
       \/ media.plugged /\ \E ro \in BOOLEAN :
            media' = [media EXCEPT !.readonly = ro, !.extra = IF ro THEN @ ELSE SourceExtra]
    /\ UNCHANGED <<disk, external, firmware, plan, acts, wiped>>

\* main: a start that is not to install, of a system that never came up, clears the variable.
StartDaemon ==
    /\ host.step = "start"
    /\ firmware' = IF ShouldPerformInstall THEN firmware ELSE [firmware EXCEPT !.complete = FALSE]
    /\ host' = [host EXCEPT !.step = "check"]
    /\ UNCHANGED <<disk, media, external, plan, acts, wiped>>

SwtpmRuns == host.from \in Disks /\ "swtpm" \in disk[host.from].flags
PhysicalTPM == firmware.tpm
WorkingTPM == PhysicalTPM \/ SwtpmRuns

\* The security the machine has and the one the install seed allows for.
SecurityAllowed(seed) ==
    /\ firmware.secureBoot \/ PhysicalTPM
    /\ seed # NoSeed =>
        /\ ~(seed.missingTPM /\ seed.missingSecureBoot)
        /\ ~(PhysicalTPM /\ seed.missingTPM)
        /\ ~(firmware.secureBoot /\ seed.missingSecureBoot)
        /\ firmware.secureBoot /\ ~WorkingTPM => seed.missingTPM
        /\ ~firmware.secureBoot /\ PhysicalTPM => seed.missingSecureBoot

\* The root of an installed system of the same version unlocks when the media is started.
ExistingInstalls == {d \in Disks : disk[d].holds = "incusos" /\ disk[d].sealed
                                   /\ (host.from = d \/ (host.from = "media" /\ disk[d].version = MediaVersion))}

GetAllTargets == Disks \ {host.source}
Matching(seed) == GetAllTargets \cap seed.target.match

\* The target, when there is exactly one candidate or the seed says how to choose.
GetTargetDevice(seed) ==
    LET fits == IF seed.target = Nil THEN GetAllTargets ELSE Matching(seed)
    IN  {d \in fits : \/ fits = {d}
                      \/ /\ seed.target # Nil
                         /\ \/ seed.target.order = "smallest" /\ \A e \in fits : DiskSize[d] <= DiskSize[e]
                            \/ seed.target.order = "largest" /\ \A e \in fits : DiskSize[d] >= DiskSize[e]}

\* What the removal of the partitions of a disk takes away.
Removal(d, force, confirmed) ==
    [table |-> disk[d].table, known |-> d \in ExistingInstalls, source |-> d = host.source,
     force |-> force, confirmed |-> confirmed]

Refuse == host' = [host EXCEPT !.step = "refused"]

\* The state of a software TPM is prepared on the ESP for the next start, and the machine restarted.
ConfigureSWTPM ==
    IF host.from = "media" THEN Refuse /\ UNCHANGED disk
    ELSE /\ disk' = [disk EXCEPT ![host.from].flags = @ \cup {"swtpm"}]
         /\ host' = [host EXCEPT !.step = "off"]

\* CheckSystemRequirements without an install seed: the media runs live, or the disk runs.
CheckLive ==
    /\ host.step = "check" /\ ~ShouldPerformInstall
    /\ \/ /\ ~SecurityAllowed(NoSeed) /\ Refuse /\ UNCHANGED disk
       \/ SecurityAllowed(NoSeed) /\ firmware.secureBoot /\ ~WorkingTPM /\ ConfigureSWTPM
       \/ /\ SecurityAllowed(NoSeed) /\ (firmware.secureBoot => WorkingTPM)
          /\ IF host.from = "media"
             THEN \* The media has to be large and writable.
                  host' \in {[host EXCEPT !.step = "live"], [host EXCEPT !.step = "refused"]} /\ UNCHANGED disk
             ELSE /\ host' = [host EXCEPT !.step = "running"]
                  /\ disk' = [disk EXCEPT ![host.from].holds = "incusos", ![host.from].sealed = TRUE,
                        ![host.from].flags = IF firmware.secureBoot THEN @ ELSE @ \cup {"sb-disabled"}]
    /\ UNCHANGED <<media, external, firmware, plan, acts, wiped>>

\* DoInstall, with the state of a software TPM in /tmp when there is no other.
DoInstall(seed, d) ==
    /\ plan' = [target |-> d, force |-> seed.force]
    /\ host' = [host EXCEPT !.step = "wipe", !.swtpm = firmware.secureBoot /\ ~WorkingTPM]

\* Mutant: the confirmation is not compared.
CheckUnconfirmed ==
    LET seed == InstallSeed
    IN  /\ host.step = "check" /\ ShouldPerformInstall /\ SecurityAllowed(seed)
        /\ firmware' = IF seed.force THEN [firmware EXCEPT !.complete = FALSE] ELSE firmware
        /\ IF firmware'.complete \/ GetTargetDevice(seed) = {} THEN Refuse /\ UNCHANGED plan
           ELSE \E d \in GetTargetDevice(seed) : DoInstall(seed, d)
        /\ UNCHANGED <<disk, media, external, acts, wiped>>

\* CheckSystemRequirements with an install seed, then NewInstall and the choice of the target.
CheckInstall ==
    LET seed == InstallSeed
    IN  /\ host.step = "check" /\ ShouldPerformInstall
        /\ \/ ~SecurityAllowed(seed) /\ Refuse /\ UNCHANGED <<disk, firmware, plan, wiped>>
           \/ /\ SecurityAllowed(seed)
              /\ firmware' = IF seed.force THEN [firmware EXCEPT !.complete = FALSE] ELSE firmware
              /\ \/ firmware'.complete /\ Refuse /\ UNCHANGED <<disk, plan, wiped>>
                 \/ /\ ~firmware'.complete /\ ExistingInstalls # {}
                    /\ IF seed.force /\ seed.confirm
                       THEN \E d \in ExistingInstalls :   \* zapped, then the machine restarts
                            /\ wiped' = wiped \cup {Removal(d, TRUE, TRUE)}
                            /\ disk' = [disk EXCEPT ![d] = Blank]
                            /\ host' = [host EXCEPT !.step = "off"]
                       ELSE Refuse /\ UNCHANGED <<disk, wiped>>
                    /\ UNCHANGED plan
                 \/ /\ ~firmware'.complete /\ ExistingInstalls = {}
                    /\ \/ /\ GetTargetDevice(seed) = {}
                          /\ Refuse /\ UNCHANGED plan
                       \/ \E d \in GetTargetDevice(seed) :
                            IF DiskSize[d] < MinimumSize THEN Refuse /\ UNCHANGED plan ELSE DoInstall(seed, d)
                    /\ UNCHANGED <<disk, wiped>>
        /\ UNCHANGED <<media, external, acts>>

(***************************************************************************)
(* performInstall                                                          *)
(***************************************************************************)

Step(next) == host' = [host EXCEPT !.step = next]
Target == disk[plan.target]

\* A table is kept unless the seed forces; one without a main header counts as half wiped.
WipeTarget ==
    /\ host.step = "wipe"
    /\ IF Target.table = "gpt" /\ ~plan.force
       THEN Step("start") /\ UNCHANGED <<disk, wiped>>   \* an error: the daemon restarts
       ELSE /\ wiped' = wiped \cup {Removal(plan.target, plan.force, FALSE)}
            /\ disk' = [disk EXCEPT ![plan.target] = Blank]
            /\ Step("unmount")
    /\ UNCHANGED <<media, external, firmware, plan, acts>>

\* /boot is not mounted when the media is read-only; a second attempt in the same start finds it unmounted.
UnmountBoot ==
    /\ host.step = "unmount"
    /\ host' = [host EXCEPT !.step = IF host.boot \/ media.readonly THEN "clean" ELSE "start", !.boot = FALSE]
    /\ UNCHANGED <<disk, media, external, firmware, plan, acts, wiped>>

\* The partitions repart added to the source go, one at a time; none is looked for when 9 is gone.
\* When the source turned out to be a disk, they are those of the system installed there.
CleanMedia ==
    /\ host.step = "clean"
    /\ CASE host.source = "media" /\ 9 \in media.extra ->
                \E n \in SourceExtra :
                    /\ media' = [media EXCEPT !.extra = {m \in @ : m > n}]
                    /\ Step(IF n = 11 THEN "define" ELSE "start") /\ UNCHANGED <<disk, wiped>>
         [] host.source \in Disks /\ disk[host.source].holds = "incusos" ->
                /\ wiped' = wiped \cup {Removal(host.source, plan.force, FALSE)}
                /\ disk' = [disk EXCEPT ![host.source].holds = "image"]
                /\ Step("define") /\ UNCHANGED media
         [] OTHER -> Step("define") /\ UNCHANGED <<disk, media, wiped>>
    /\ UNCHANGED <<external, firmware, plan, acts>>

\* sgdisk: a partition with the type, size, label and GUID it has on the source.
CopyPartitionDefinition(d) == [disk[d] EXCEPT !.table = "gpt", !.holds = "image"]

\* The definitions of the partitions are copied one by one: the table is there after the first.
DefinePartitions ==
    /\ host.step = "define"
    /\ disk' = [disk EXCEPT ![plan.target] = CopyPartitionDefinition(plan.target)]
    /\ Step("esp")
    /\ UNCHANGED <<media, external, firmware, plan, acts, wiped>>

\* The files of the ESP, with the flags a source that is a disk has there.
CopyESP ==
    /\ host.step = "esp"
    /\ disk' = [disk EXCEPT ![plan.target].copied = {1},
                            ![plan.target].flags = IF host.source \in Disks THEN disk[host.source].flags ELSE {}]
    /\ Step("copy")
    /\ UNCHANGED <<media, external, firmware, plan, acts, wiped>>

SourceSeeds == IF host.source \in Disks THEN disk[host.source].seeds
               ELSE IF media.config = NoSeed THEN {} ELSE {"install"}

\* Mutant: the loop goes one partition too far.
CopyOneMore ==
    /\ host.step = "copy"
    /\ LET n == 1 + Cardinality(Target.copied)
       IN  /\ disk' = [disk EXCEPT ![plan.target].copied = @ \cup {n}]
           /\ Step(IF n = 4 THEN "seed" ELSE "copy")
    /\ UNCHANGED <<media, external, firmware, plan, acts, wiped>>

\* doCopy, for each partition after the ESP; the seed partition comes with the seeds of the source.
CopyPartition ==
    /\ host.step = "copy"
    /\ LET n == 1 + Cardinality(Target.copied)
       IN  /\ disk' = [disk EXCEPT ![plan.target].copied = @ \cup {n},
                                   ![plan.target].seeds = IF n = 2 THEN SourceSeeds ELSE @,
                                   ![plan.target].version = IF host.source = "media" THEN MediaVersion
                                                            ELSE disk[host.source].version]
           /\ Step(IF n = 3 THEN "seed" ELSE "copy")
    /\ UNCHANGED <<media, external, firmware, plan, acts, wiped>>

\* Mutant: only the external files are added.
CleanupForgotten ==
    /\ host.step = "seed"
    /\ disk' = [disk EXCEPT ![plan.target].seeds = @ \cup IF SeedPath = "external" THEN external.files ELSE {}]
    /\ Step("boot")
    /\ UNCHANGED <<media, external, firmware, plan, acts, wiped>>

\* CleanupPostInstall: the install seed goes, the files of an external seed are added.
CleanupPostInstall ==
    /\ host.step = "seed"
    /\ disk' = [disk EXCEPT ![plan.target].seeds = (@ \ {"install"})
                                \cup IF SeedPath = "external" THEN external.files ELSE {}]
    /\ Step("boot")
    /\ UNCHANGED <<media, external, firmware, plan, acts, wiped>>

\* The state of swtpm and the flag of a disabled Secure Boot go to the new ESP, mounted as /boot.
WriteFlags ==
    /\ host.step = "boot"
    /\ host.swtpm => "swtpm" \notin Target.flags   \* mv does not replace a directory
    /\ disk' = [disk EXCEPT ![plan.target].flags = @ \cup (IF host.swtpm THEN {"swtpm"} ELSE {})
                                \cup IF firmware.secureBoot THEN {} ELSE {"sb-disabled"}]
    /\ host' = [host EXCEPT !.step = "tpm", !.swtpm = FALSE, !.boot = TRUE]
    /\ UNCHANGED <<media, external, firmware, plan, acts, wiped>>

\* tpm2_clear may fail; when it does not, no existing volume unlocks any more.
ClearTPM ==
    /\ host.step = "tpm"
    /\ \/ UNCHANGED disk
       \/ firmware.tpm /\ disk' = [d \in Disks |-> [disk[d] EXCEPT !.sealed = FALSE]]
    /\ Step("loader")
    /\ UNCHANGED <<media, external, firmware, plan, acts, wiped>>

InstallLoader ==
    /\ host.step = "loader"
    /\ disk' = [disk EXCEPT ![plan.target].loader = TRUE]
    /\ host' = [host EXCEPT !.step = "mark", !.boot = FALSE]
    /\ UNCHANGED <<media, external, firmware, plan, acts, wiped>>

MarkComplete ==
    /\ host.step = "mark"
    /\ firmware' = [firmware EXCEPT !.complete = TRUE]
    /\ Step("done")
    /\ UNCHANGED <<disk, media, external, plan, acts, wiped>>

\* The machine restarts when the source is gone, or at once when the seed says so.
RebootUponRemoval ==
    /\ host.step = "done"
    /\ ~media.plugged \/ (ShouldPerformInstall /\ InstallSeed.reboot)
    /\ Step("off")
    /\ UNCHANGED <<disk, media, external, firmware, plan, acts, wiped>>

(***************************************************************************)
(* Faults and the user                                                     *)
(***************************************************************************)

\* A step fails: the daemon exits and is started again.
InstallFails ==
    /\ host.step \in Writing
    /\ Step("start")
    /\ UNCHANGED <<disk, media, external, firmware, plan, acts, wiped>>

\* The power goes, or the user restarts the machine; a refusal is tried again after an hour.
PowerCycle ==
    /\ host.step # "off"
    /\ IF host.step = "refused" THEN host' \in {[host EXCEPT !.step = "off"], [host EXCEPT !.step = "start"]}
       ELSE Step("off")
    /\ acts < Interventions /\ acts' = acts + 1
    /\ UNCHANGED <<disk, media, external, firmware, plan, wiped>>

UserActs ==
    /\ acts < Interventions /\ acts' = acts + 1
    /\ \/ /\ host.step \in {"off", "refused", "done", "live", "running"}
          /\ media' = [media EXCEPT !.plugged = ~@] /\ UNCHANGED external
       \/ external' = [external EXCEPT !.plugged = ~@] /\ UNCHANGED media
       \/ \E c \in InstallConfigs :
            \/ ~external.plugged /\ media.plugged /\ host.step = "off" /\ media' = [media EXCEPT !.config = c] /\ UNCHANGED external
            \/ ~external.plugged /\ external' = [external EXCEPT !.config = c] /\ UNCHANGED media
    /\ UNCHANGED <<disk, firmware, host, plan, wiped>>

InstallNext ==
    \/ Boot \/ StartDaemon \/ CheckLive \/ CheckInstall
    \/ WipeTarget \/ UnmountBoot \/ CleanMedia \/ DefinePartitions \/ CopyESP \/ CopyPartition
    \/ CleanupPostInstall \/ WriteFlags \/ ClearTPM \/ InstallLoader \/ MarkComplete \/ RebootUponRemoval
    \/ InstallFails \/ PowerCycle \/ UserActs

InstallSpec == InstallInit /\ [][InstallNext]_installVars

(***************************************************************************)
(* Properties                                                              *)
(***************************************************************************)

\* install.go: the partitions of a disk are removed only under a seed that forces the
\* installation, and those of an IncusOS that unlocks only when the seed also confirms it,
\* except for those of a system of the same version that does not unlock, when /usr was mounted from it.
PartitionsKept ==
    \A w \in wiped :
        /\ w.table = "gpt" => w.force \/ (w.source /\ ~w.known)
        /\ w.known => w.confirmed

\* performInstall sets IncusOSInstallComplete last: whatever was interrupted before, while it is
\* set the disk the last installation wrote starts by itself into a system that does not
\* install again, with the security state the machine needs.
CompleteIsBootable ==
    firmware.complete => LET d == plan.target IN
        /\ disk[d].table = "gpt" /\ disk[d].loader /\ disk[d].copied = Partitions /\ "install" \notin disk[d].seeds
        /\ ("swtpm" \in disk[d].flags) = (firmware.secureBoot /\ ~firmware.tpm)
        /\ ("sb-disabled" \in disk[d].flags) = ~firmware.secureBoot
=============================================================================
