--------------------------- MODULE OSUpdateProofs ---------------------------
(***************************************************************************)
(* Proofs about OSUpdate, for every number of releases, every set of       *)
(* broken ones, every assignment of state file formats and every budget:   *)
(* the types, that a working image always stays, that a pending reboot     *)
(* leads to a newer release unless it is for certificates, and that the    *)
(* component keeps the promise of ReleaseHistory.                          *)
(*                                                                         *)
(* The last two are not inductive.  A boot may pick any installed image,   *)
(* so one has to know where each image came from (Provenance), which rests *)
(* on there being room for one image besides the running one (TwoImages,   *)
(* RoomMade) and on what is known of the update under way (UpdateSound).   *)
(***************************************************************************)
EXTENDS OSUpdate, TLAPS

\* At most one image besides the running one.
TwoImages == \A v, w \in installed \ {running} : v = w

\* Once systemd-sysupdate has made room, only the image to be installed may be
\* there besides the running one.
RoomMade == step = "install" => installed \subseteq {running, ver}

\* An image that never ran was offered and is newer than the running one.
Provenance == \A v \in installed : v \in ran \/ (v \in offered /\ v > running)

\* The update under way is to a newer release that was offered; a reboot that was started
\* may be for certificates.
UpdateSound ==
    /\ step # "idle" => up
    /\ step \notin {"idle", "rebooting"} => ver \in offered /\ ver > running

Inv ==
    /\ TypeOK
    /\ NeverBricked
    /\ PendingIsNewer
    /\ running \in ran
    /\ published = None \/ published \in offered
    /\ TwoImages
    /\ RoomMade
    /\ Provenance
    /\ UpdateSound

\* The initial system satisfies the invariant (LoadOrCreate, a first boot).
LEMMA InitInv == ASSUME Init PROVE Inv
<1> 1 \in Versions
  BY VersionAssumption DEF Versions
<1>1. TypeOK
  <2>1. tries \in [Versions -> 0..Tries]
    BY BoundAssumption DEF Init
  <2>2. disk \in [next : Versions \cup {None}, format : Nat]
    BY FormatAssumption DEF Init
  <2>3. left \in [Surroundings -> Nat]
    BY BoundAssumption DEF Init
  <2> QED BY <2>1, <2>2, <2>3 DEF Init, TypeOK, Steps
<1>2. NeverBricked
  BY BrokenAssumption DEF Init, NeverBricked
<1> QED
  BY <1>1, <1>2 DEF Init, Inv, PendingIsNewer, TwoImages, RoomMade, Provenance, UpdateSound

\* What Save writes is a state file.
LEMMA SavedAsType ==
    ASSUME TypeOK, NEW n \in Versions \cup {None}
    PROVE  SavedAs(n) \in [next : Versions \cup {None}, format : Nat]
BY FormatAssumption DEF SavedAs, TypeOK

\* What the daemon has in memory after loading the state file has its type.
LEMMA LoadStateType ==
    ASSUME TypeOK, NEW v \in Versions, LoadState(v, disk)
    PROVE  /\ next' \in Versions \cup {None}
           /\ needsReboot' = FALSE /\ unrecognized' \in BOOLEAN /\ certs' = FALSE
           /\ disk' \in [next : Versions \cup {None}, format : Nat]
           /\ starting' = TRUE
<1>1. Format[v] \in Nat
  BY FormatAssumption
<1>2. disk' \in [next : Versions \cup {None}, format : Nat]
  BY <1>1 DEF LoadState, TypeOK
<1> QED BY <1>2 DEF LoadState, TypeOK

\* The budget of the surroundings stays a budget.
LEMMA SpendType ==
    ASSUME TypeOK, NEW what \in Surroundings, Spend(what)
    PROVE  left' \in [Surroundings -> Nat]
BY DEF TypeOK, Spend

\* An update check that begins: CheckAndDownloadUpdate up to applyUpdate.
LEMMA CheckInv == ASSUME Inv, Check PROVE Inv'
<1> USE DEF Inv, TypeOK, Steps, NeverBricked, PendingIsNewer, TwoImages, RoomMade,
            Provenance, UpdateSound, image, memory, update, history
<1>1. CASE CheckFinds
  BY <1>1 DEF CheckFinds, None, Versions
<1>2. CASE StartupCheckEnds
  BY <1>2 DEF StartupCheckEnds
<1>3. CASE SecureBootUpdate
  <2>1. left' \in [Surroundings -> Nat]
    BY <1>3, SpendType DEF SecureBootUpdate, Surroundings
  <2>2. step' \in {"idle", "rebooting"}
    BY <1>3 DEF SecureBootUpdate
  <2> QED BY <1>3, <2>1, <2>2 DEF SecureBootUpdate
<1> QED BY <1>1, <1>2, <1>3 DEF Check

\* Downloading, installing and recording the release: applyUpdate and
\* ApplySystemUpdate, with their failures.
LEMMA ApplyInv == ASSUME Inv, Apply PROVE Inv'
<1> USE DEF Inv, TypeOK, Steps, NeverBricked, PendingIsNewer, TwoImages, RoomMade,
            Provenance, UpdateSound, image, memory, update, history
<1>1. CASE Download
  BY <1>1 DEF Download
<1>2. CASE DownloadFault
  BY <1>2 DEF DownloadFault, Finish
<1>3. CASE Vacate
  <2>1. running \in installed'
    BY <1>3 DEF Vacate
  <2>2. installed' \subseteq installed
    BY <1>3 DEF Vacate
  <2>3. ver # running
    BY <1>3 DEF Vacate, Versions
  <2>4. installed' \subseteq {running, ver}
    BY <1>3, <2>3 DEF Vacate
  <2> QED BY <1>3, <2>1, <2>2, <2>4 DEF Vacate
<1>4. CASE Install
  <2>1. ver \in Versions /\ ver \in offered /\ ver > running
    BY <1>4 DEF Install, None, Versions
  <2>2. tries' \in [Versions -> 0..Tries]
    BY <1>4, BoundAssumption DEF Install
  <2>3. installed' \subseteq {running, ver} /\ running \in installed'
    BY <1>4 DEF Install
  <2> QED BY <1>4, <2>1, <2>2, <2>3 DEF Install
<1>5. CASE Record
  <2>1. ver \in Versions /\ ver > running
    BY <1>5 DEF Record, None, Versions
  <2>2. disk' \in [next : Versions \cup {None}, format : Nat]
    BY <1>5, <2>1, SavedAsType DEF Record
  <2> QED BY <1>5, <2>1, <2>2 DEF Record
<1>6. CASE Notify
  BY <1>6 DEF Notify, Finish
<1>7. CASE Reboot
  BY <1>7 DEF Reboot
<1>8. CASE NotifyFault
  BY <1>8 DEF NotifyFault, Finish
<1> QED BY <1>1, <1>2, <1>3, <1>4, <1>5, <1>6, <1>7, <1>8 DEF Apply

\* The machine or the daemon goes down: an update, a user, a power loss, or a
\* restart of the daemon alone.
LEMMA DownInv == ASSUME Inv, Shutdown \/ PowerLoss \/ DaemonRestart PROVE Inv'
<1> USE DEF Inv, TypeOK, Steps, NeverBricked, PendingIsNewer, TwoImages, RoomMade,
            Provenance, UpdateSound, image, memory, update, history
<1>1. CASE Shutdown
  <2>1. left' \in [Surroundings -> Nat]
    BY <1>1, SpendType DEF Shutdown, Surroundings
  <2>2. disk' \in [next : Versions \cup {None}, format : Nat]
    BY <1>1, SavedAsType DEF Shutdown, GoDown
  <2> QED BY <1>1, <2>1, <2>2 DEF Shutdown, GoDown
<1>2. CASE PowerLoss
  <2>1. left' \in [Surroundings -> Nat]
    BY <1>2, SpendType DEF PowerLoss, Surroundings
  <2> QED BY <1>2, <2>1 DEF PowerLoss, GoDown
<1>3. CASE DaemonRestart
  <2>1. left' \in [Surroundings -> Nat]
    BY <1>3, SpendType DEF DaemonRestart, Surroundings
  <2>2. LoadState(running, disk)
    BY <1>3 DEF DaemonRestart
  <2>3. /\ next' \in Versions \cup {None}
        /\ needsReboot' = FALSE /\ unrecognized' \in BOOLEAN /\ certs' = FALSE
        /\ disk' \in [next : Versions \cup {None}, format : Nat]
        /\ starting' = TRUE
    BY <2>2, LoadStateType
  <2> QED BY <1>3, <2>1, <2>3 DEF DaemonRestart
<1> QED BY <1>1, <1>2, <1>3

\* Booting an installed image, whichever the boot loader or the operator picks.
LEMMA BootInv ==
    ASSUME Inv, NEW v \in installed, BootImage(v), left' \in [Surroundings -> Nat]
    PROVE  Inv'
<1> USE DEF Inv, TypeOK, Steps, NeverBricked, PendingIsNewer, TwoImages, RoomMade,
            Provenance, UpdateSound, image, memory, update, history
<1>1. tries' \in [Versions -> 0..Tries]
  BY BoundAssumption DEF BootImage
<1>2. step = "idle" /\ step' = "idle"
  BY DEF BootImage
<1>3. CASE v \in Broken
  BY <1>1, <1>2, <1>3 DEF BootImage
<1>4. CASE v \notin Broken
  <2>1. LoadState(v, disk)
    BY <1>4 DEF BootImage
  <2>2. /\ next' \in Versions \cup {None}
        /\ needsReboot' = FALSE /\ unrecognized' \in BOOLEAN /\ certs' = FALSE
        /\ disk' \in [next : Versions \cup {None}, format : Nat]
        /\ starting' = TRUE
    BY <2>1, LoadStateType
  <2>3. running' = v /\ ran' = ran \cup {v} /\ installed' = installed /\ offered' = offered
    BY <1>4 DEF BootImage
  <2>4. TwoImages' /\ Provenance'
    BY <2>3
  <2>5. up' = TRUE /\ UNCHANGED <<published, blessed, step, ver, atStartup>>
    BY <1>4 DEF BootImage
  <2> QED BY <1>1, <1>2, <1>4, <2>2, <2>3, <2>4, <2>5
<1> QED BY <1>3, <1>4

\* Every step keeps the invariant.
LEMMA NextInv == ASSUME Inv, [Next]_vars PROVE Inv'
<1>1. CASE Check
  BY <1>1, CheckInv
<1>2. CASE Apply
  BY <1>2, ApplyInv
<1>3. CASE Shutdown \/ PowerLoss \/ DaemonRestart
  BY <1>3, DownInv
<1>4. CASE Boot
  <2>1. left' \in [Surroundings -> Nat]
    BY <1>4 DEF Boot, Inv, TypeOK
  <2> QED BY <1>4, <2>1, BootInv DEF Boot
<1>5. CASE BootSelected
  <2>1. left' \in [Surroundings -> Nat]
    BY <1>5, SpendType DEF BootSelected, Inv, Surroundings
  <2> QED BY <1>5, <2>1, BootInv DEF BootSelected
<1>6. CASE Bless
  BY <1>6 DEF Bless, Inv, TypeOK, Steps, NeverBricked, PendingIsNewer, TwoImages,
              RoomMade, Provenance, UpdateSound, memory, update, history
<1>7. CASE Publish
  <2>1. left' \in [Surroundings -> Nat]
    BY <1>7, SpendType DEF Publish, Inv, Surroundings
  <2> QED BY <1>7, <2>1 DEF Publish, Inv, TypeOK, Steps, NeverBricked, PendingIsNewer,
              TwoImages, RoomMade, Provenance, UpdateSound, image, memory, update
<1>8. CASE UNCHANGED vars
  BY <1>8 DEF vars, Inv, TypeOK, Steps, NeverBricked, PendingIsNewer, TwoImages,
              RoomMade, Provenance, UpdateSound
<1> QED BY <1>1, <1>2, <1>3, <1>4, <1>5, <1>6, <1>7, <1>8 DEF Next

\* The invariant holds throughout.
LEMMA Invariance == Spec => []Inv
<1>1. Init => Inv
  BY InitInv
<1>2. Inv /\ [Next]_vars => Inv'
  BY NextInv
<1> QED BY <1>1, <1>2, PTL DEF Spec

\* The types of the update state, for every instance.
THEOREM TypeCorrect == Spec => []TypeOK
<1>1. Inv => TypeOK
  BY DEF Inv
<1> QED BY <1>1, Invariance, PTL

\* Whatever is installed, interrupted or rolled back, the image that ran last
\* is still installed and works (ApplySystemUpdate, systemd-sysupdate's
\* protection of the running version).
THEOREM AlwaysBootable == Spec => []NeverBricked
<1>1. Inv => NeverBricked
  BY DEF Inv
<1> QED BY <1>1, Invariance, PTL

\* Unless an EFI variable was updated since the daemon started, NeedsReboot is only set
\* while NextRelease is newer than the running release.
THEOREM RebootLeadsForward == Spec => []PendingIsNewer
<1>1. Inv => PendingIsNewer
  BY DEF Inv
<1> QED BY <1>1, Invariance, PTL

\* Every step of the detailed specification is a step of ReleaseHistory or
\* leaves its variables alone.
LEMMA StepSimulation ==
    ASSUME Inv, [Next]_vars
    PROVE  [Promise!Next]_<<running, offered, ran>>
<1>1. ASSUME NEW v \in installed, BootImage(v)
      PROVE  [Promise!Next]_<<running, offered, ran>>
  <2>1. v \in Versions
    BY DEF Inv, TypeOK
  <2>2. CASE v \in Broken
    BY <1>1, <2>2 DEF BootImage
  <2>3. CASE v \notin Broken /\ v \in ran
    BY <1>1, <2>1, <2>3 DEF BootImage, Promise!Next, Promise!FallBack
  <2>4. CASE v \notin Broken /\ v \notin ran
    BY <1>1, <2>1, <2>4 DEF BootImage, Promise!Next, Promise!Advance, Inv, Provenance
  <2> QED BY <2>2, <2>3, <2>4
<1>2. CASE Check \/ Apply
  BY <1>2 DEF Check, CheckFinds, StartupCheckEnds, SecureBootUpdate, Apply, Download, DownloadFault, Vacate,
     Install, Record, Notify, Reboot, NotifyFault, history
<1>3. CASE Shutdown \/ PowerLoss \/ DaemonRestart
  BY <1>3 DEF Shutdown, PowerLoss, DaemonRestart
<1>4. CASE Boot \/ BootSelected
  BY <1>1, <1>4 DEF Boot, BootSelected
<1>5. CASE Bless \/ UNCHANGED vars
  BY <1>5 DEF Bless, history, vars
<1>6. CASE Publish
  BY <1>6 DEF Publish, Promise!Next, Promise!Offer
<1> QED BY <1>2, <1>3, <1>4, <1>5, <1>6 DEF Next

\* The update component implements ReleaseHistory: only offered releases run, and
\* the system only moves back to a release that ran before.
THEOREM KeepsReleasePromise == Spec => KeepsPromise
<1>1. Init => Promise!Init
  BY VersionAssumption DEF Init, Promise!Init, Versions
<1>2. Inv /\ [Next]_vars => [Promise!Next]_<<running, offered, ran>>
  BY StepSimulation
<1> QED BY <1>1, <1>2, Invariance, PTL DEF Spec, KeepsPromise, Promise!Spec
=============================================================================
