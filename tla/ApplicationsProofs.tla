------------------------- MODULE ApplicationsProofs -------------------------
(***************************************************************************)
(* Proofs about Applications, for every set of applications, every         *)
(* dependency relation and every number of releases and events: the types, *)
(* that the images an OS roll back needs stay on disk and are the ones     *)
(* selected after it, that the records match the disk, and that no         *)
(* application is moved to an older version unasked.                       *)
(* The inductive invariant follows the images that matched an OS release:  *)
(* they are good, their release can still boot, the clean up keeps them,   *)
(* and a refresh during a boot knows what it needs to select them.         *)
(* A second one follows the recorded versions: one whose image is corrupt, *)
(* or published and missing, is not newer than any image on disk.          *)
(***************************************************************************)
EXTENDS Applications, TLAPS, WellFoundedInduction

\* A set of releases has a newest one (the order of the 12 digit versions that
\* getApplicationsVersions compares).
LEMMA NewestIn ==
    ASSUME NEW S \in SUBSET Releases, S # {}
    PROVE  Newest(S) \in S /\ \A w \in S : w <= Newest(S)
<1> DEFINE T == {n \in Nat : \E v \in S : n = MaxRelease - v}
<1>1. PICK v \in S : TRUE
  OBVIOUS
<1>2. \A w \in S : w \in Nat /\ MaxRelease - w \in Nat
  BY ReleaseAssumption DEF Releases
<1>3. T \subseteq Nat /\ T # {}
  <2>1. MaxRelease - v \in T
    BY <1>1, <1>2
  <2> QED BY <2>1
<1> DEFINE Less == {ss \in Nat \X Nat : ss[1] < ss[2]}
<1>4. IsWellFoundedOn(Less, Nat)
  BY NatLessThanWellFounded DEF OpToRel
<1>8. \E x \in T : \A y \in T : ~(<<y, x>> \in Less)
  <2> HIDE DEF T, Less
  <2> QED BY <1>3, <1>4, WFMin
<1>5. PICK x \in T : \A y \in T : ~(y < x)
  BY <1>3, <1>8
<1>6. PICK m \in S : x = MaxRelease - m
  BY <1>5
<1>7. \A w \in S : w <= m
  <2> SUFFICES ASSUME NEW w \in S PROVE w <= m
    OBVIOUS
  <2>1. MaxRelease - w \in T
    BY <1>2
  <2>2. ~(MaxRelease - w < MaxRelease - m)
    BY <2>1, <1>5, <1>6
  <2> QED BY <2>2, <1>2, ReleaseAssumption
<1> QED BY <1>6, <1>7 DEF Newest

-----------------------------------------------------------------------------
(* Types.                                                                  *)

\* The applications a refresh works on have their image.
RefreshApps == pc = "relink" => \A a \in todo : version[a] \in images[a]

\* The first boot is well typed (LoadOrCreate).
LEMMA InitType == ASSUME Init PROVE TypeOK
<1>1. 1 \in Releases
  BY ReleaseAssumption DEF Releases
<1>2. NoJob \in [app : Apps, version : Releases \cup {None}]
  BY AppAssumption DEF NoJob
<1>3. left \in Nat
  BY EventAssumption DEF Init
<1> QED BY <1>1, <1>2, <1>3 DEF Init, TypeOK, Labels, Phases

\* bestApplicationVersion and the versions that stay are versions.
LEMMA VersionTypes ==
    ASSUME TypeOK, NEW a \in Apps, version[a] \in images[a]
    PROVE  BestVersion(a) \in Releases /\ Expected(a) \in SUBSET Releases
<1>1. images[a] \in SUBSET Releases /\ images[a] # {}
  BY DEF TypeOK
<1>2. Newest(images[a]) \in Releases
  BY <1>1, NewestIn
<1> QED
  BY <1>1, <1>2 DEF TypeOK, BestVersion, Expected, CurrentOSVersion, OtherOSVersion

\* Whatever the operation does next is a label.
LEMMA GotoType ==
    ASSUME TypeOK, NEW label \in Labels, Goto(label)
    PROVE  pc' \in Labels /\ phase' \in Phases
BY DEF TypeOK, Goto, Phases

\* The operation that follows a refresh, for the phases that ask for one.
LEMMA AfterRefreshType == ASSUME TypeOK PROVE AfterRefresh \in Labels
BY DEF TypeOK, AfterRefresh, Labels, Phases

\* RefreshExtensions keeps the types.
LEMMA RefreshType ==
    ASSUME TypeOK, RefreshApps, Refresh \/ RefreshFault
    PROVE  TypeOK'
<1> USE DEF disk, os, boot, history
<1>1. CASE RefreshNothing
  BY <1>1, AfterRefreshType, GotoType DEF RefreshNothing, TypeOK
<1>2. CASE Unlink
  BY <1>2 DEF Unlink, TypeOK, InstalledApps, Labels
<1>3. CASE Relink
  <2>1. \A a \in todo : BestVersion(a) \in Releases /\ Expected(a) \in SUBSET Releases
    BY <1>3, VersionTypes DEF RefreshApps, Relink, TypeOK
  <2>2. link' \in [Apps -> Releases \cup {None}]
    BY <1>3, <2>1 DEF Relink, TypeOK
  <2>3. version' \in [Apps -> Releases \cup {None}]
    BY <1>3, <2>1 DEF Relink, TypeOK
  <2>4. avail' \in [Apps -> SUBSET Releases]
    BY <1>3, <2>1 DEF Relink, TypeOK
  <2> QED BY <1>3, <2>2, <2>3, <2>4 DEF Relink, TypeOK, Labels
<1>4. CASE Activate
  <2>1. pc' \in Labels /\ phase' \in Phases
    BY <1>4, AfterRefreshType, GotoType DEF Activate
  <2>2. images' \in [Apps -> SUBSET Releases]
    BY <1>4 DEF Activate, TypeOK
  <2>3. corrupt' \in [Apps -> SUBSET Releases]
    BY <1>4 DEF Activate, TypeOK
  <2> QED BY <1>4, <2>1, <2>2, <2>3 DEF Activate, TypeOK, Now
<1>5. CASE RemoveCorruptSysext
  BY <1>5 DEF RemoveCorruptSysext, TypeOK, Labels
<1>6. CASE RefreshFault
  <2>1. (IF phase = "boot" THEN "failed" ELSE AfterFailure) \in Labels
    BY DEF AfterFailure, Labels
  <2> QED BY <1>6, <2>1, GotoType DEF RefreshFault, TypeOK
<1> QED BY <1>1, <1>2, <1>3, <1>4, <1>5, <1>6 DEF Refresh

\* What applyUpdate records of an application keeps the types.
LEMMA RecordedType ==
    ASSUME TypeOK, NEW a \in Apps, NEW v \in Releases \cup {None}, v # None,
           Recorded(a, v)
    PROVE  /\ corrupt' \in [Apps -> SUBSET Releases]
           /\ link' \in [Apps -> Releases \cup {None}]
           /\ version' \in [Apps -> Releases \cup {None}]
           /\ avail' \in [Apps -> SUBSET Releases]
BY DEF TypeOK, Recorded

\* A download under way has a version.
FetchHasVersion == pc = "fetch" => job.version # None

\* The check and what it applies keep the types.
LEMMA CheckType ==
    ASSUME TypeOK, FetchHasVersion,
           Check \/ FetchEnd \/ FetchFault \/ NotifyFault \/ OSCurrent
    PROVE  TypeOK'
<1> USE DEF disk, os, boot, history
<1>n. NoJob \in [app : Apps, version : Releases \cup {None}]
  BY AppAssumption DEF NoJob
<1>1. CASE CheckBegin
  BY <1>1 DEF CheckBegin, TypeOK, Labels, Phases
<1>2. CASE Plan
  <2>1. InstallApplications \in SUBSET Apps
    BY AppAssumption DEF InstallApplications, InstalledApps
  <2>2. "pick" \in Labels /\ AfterFailure \in Labels
    BY DEF Labels, AfterFailure
  <2> QED BY <1>2, <2>1, <2>2, GotoType DEF Plan, TypeOK
<1>3. CASE PickNothing
  BY <1>3 DEF PickNothing, TypeOK
<1>4. CASE PickUpdate
  <2>1. NextApp \in Apps
    BY <1>4 DEF PickUpdate, NextApp, TypeOK
  <2> QED BY <1>4, <2>1 DEF PickUpdate, TypeOK, Labels
<1>5. CASE PickDone
  <2>1. AfterApps(got) \in Labels
    BY DEF AfterApps, Labels
  <2> QED BY <1>5, <2>1, GotoType DEF PickDone, TypeOK
<1>6. CASE StageOS
  BY <1>6 DEF StageOS, TypeOK, Labels, Now
<1>7. CASE Start
  <2>1. "idle" \in Labels
    BY DEF Labels
  <2>2. saved' \in [version : [Apps -> Releases \cup {None}], avail : [Apps -> SUBSET Releases]]
    BY <1>7 DEF Start, TypeOK, Now
  <2>3. paired' \in SUBSET (Apps \X Releases)
    BY <1>7 DEF Start, TypeOK, InstalledApps
  <2> QED BY <1>7, <2>1, <2>2, <2>3, GotoType DEF Start, TypeOK
<1>8. CASE FetchEnd
  <2>1. job.app \in Apps /\ job.version \in Releases \cup {None} /\ job.version # None
    BY <1>8 DEF FetchEnd, FetchHasVersion, TypeOK
  <2> QED BY <1>8, <2>1, <1>n, RecordedType DEF FetchEnd, TypeOK, Labels
<1>9. CASE FetchFault
  BY <1>9, <1>n DEF FetchFault, TypeOK, Labels
<1>10. CASE NotifyFault
  <2>1. job.app \in Apps /\ job.version \in Releases \cup {None} /\ job.version # None
    BY <1>10 DEF NotifyFault, FetchHasVersion, TypeOK
  <2> QED BY <1>10, <2>1, <1>n, RecordedType DEF NotifyFault, TypeOK, Labels
<1>11. CASE OSCurrent
  BY <1>11 DEF OSCurrent, TypeOK, Labels
<1> QED
  BY <1>1, <1>2, <1>3, <1>4, <1>5, <1>6, <1>7, <1>8, <1>9, <1>10, <1>11 DEF Check

\* Requests, restarts and the surroundings keep the types.
LEMMA OutsideType ==
    ASSUME TypeOK,
           Request \/ OtherSave \/ DaemonRestart \/ Reboot \/ UserReboot \/ PowerLoss
             \/ Corrupt \/ Publish
    PROVE  TypeOK'
<1> USE DEF disk, os, boot, history
<1>n. NoJob \in [app : Apps, version : Releases \cup {None}]
  BY AppAssumption DEF NoJob
<1>s. Spend => left' \in Nat
  BY DEF Spend, TypeOK
<1>b. ASSUME NEW state \in [version : [Apps -> Releases \cup {None}],
                            avail : [Apps -> SUBSET Releases]],
             BootFrom(state), UNCHANGED <<disk, next, published, history>>, left' \in Nat
      PROVE  TypeOK'
  BY <1>b, <1>n DEF BootFrom, StartFrom, TypeOK, Labels, Phases
<1>g. Now \in [version : [Apps -> Releases \cup {None}], avail : [Apps -> SUBSET Releases]]
  BY DEF Now, TypeOK
<1>h. saved \in [version : [Apps -> Releases \cup {None}], avail : [Apps -> SUBSET Releases]]
  BY DEF TypeOK
<1>1. CASE UserInstall
  BY <1>1, <1>s DEF UserInstall, TypeOK, Labels, Phases
<1>2. CASE UserUpdate
  BY <1>2, <1>s DEF UserUpdate, TypeOK, Labels, Phases, InstalledApps
<1>3. CASE UserSwitch
  BY <1>3, <1>s DEF UserSwitch, TypeOK, Labels, Phases, InstalledApps
<1>4. CASE UserRemove
  BY <1>4, <1>s DEF UserRemove, TypeOK, Labels, Phases, InstalledApps
<1>5. CASE OtherSave
  BY <1>5, <1>g DEF OtherSave, TypeOK
<1>6. CASE DaemonRestart
  BY <1>6, <1>n DEF DaemonRestart, StartFrom, TypeOK, Labels, Phases
<1>7. CASE Reboot
  <2>1. (IF Ready THEN Now ELSE saved) \in
            [version : [Apps -> Releases \cup {None}], avail : [Apps -> SUBSET Releases]]
    BY <1>g, <1>h
  <2> QED BY <1>7, <2>1, <1>b DEF Reboot, GoDown, TypeOK
<1>8. CASE UserReboot
  <2>1. (IF Ready THEN Now ELSE saved) \in
            [version : [Apps -> Releases \cup {None}], avail : [Apps -> SUBSET Releases]]
    BY <1>g, <1>h
  <2> QED BY <1>8, <2>1, <1>b, <1>s DEF UserReboot, GoDown
<1>9. CASE PowerLoss
  BY <1>9, <1>h, <1>b, <1>s DEF PowerLoss
<1>10. CASE Corrupt
  BY <1>10, <1>s DEF Corrupt, TypeOK
<1>11. CASE Publish
  <2>1. published + 1 \in Releases
    BY <1>11, ReleaseAssumption DEF Publish, TypeOK, Releases
  <2> QED BY <1>11, <2>1 DEF Publish, TypeOK
<1> QED
  BY <1>1, <1>2, <1>3, <1>4, <1>5, <1>6, <1>7, <1>8, <1>9, <1>10, <1>11 DEF Request

-----------------------------------------------------------------------------
(* The inductive invariant.                                                *)

\* An image in the history is good.
PairedGood ==
    \A a \in Apps, r \in Releases : <<a, r>> \in paired => r \notin corrupt[a]

\* Its OS release is the running one, or the other one and known to have started,
\* so that GetUKIVersions recognises it.
PairedBootable ==
    \A a \in Apps, r \in Releases :
        <<a, r>> \in paired => r = running \/ (r = other /\ ~counted)

\* When stale images are about to be removed, it is among the ones to keep.
PairedExpected ==
    pc = "activate" =>
        \A a \in todo, r \in Releases : <<a, r>> \in paired => r \in avail[a]

\* The steps of a boot before the startup check.
BootSteps ==
    phase = "boot" => pc \in {"refresh", "relink", "activate", "failed", "reboot"}

\* The first refresh of a boot works from what the journal says.
PriorFromJournal ==
    phase = "boot" => /\ pc = "refresh" => prior = None
                      /\ pc \in {"relink", "activate"} => prior = journal

\* A refresh links only the applications it works on.
LinksGone ==
    /\ pc = "relink" => \A a \in Apps : link[a] = None
    /\ pc = "activate" /\ phase = "boot" => \A a \in Apps \ todo : link[a] = None

\* After a roll back it selects the version of the older release.
RestoreSelected ==
    pc = "activate" /\ phase = "boot" /\ journal > running =>
        \A a \in todo : <<a, running>> \in paired => version[a] = running /\ link[a] = running

Inv ==
    /\ TypeOK
    /\ RefreshApps
    /\ FetchHasVersion
    /\ FallbackImageKept
    /\ PairedGood
    /\ PairedBootable
    /\ PairedExpected
    /\ BootSteps
    /\ PriorFromJournal
    /\ LinksGone
    /\ RestoreSelected
    /\ RollbackRestores

\* The first boot satisfies the invariant: nothing is installed.
LEMMA InitInv == ASSUME Init PROVE Inv
<1>1. TypeOK
  BY InitType
<1> QED
  BY <1>1 DEF Init, Inv, RefreshApps, FetchHasVersion, FallbackImageKept, PairedGood,
     PairedBootable, PairedExpected, BootSteps, PriorFromJournal, LinksGone, RestoreSelected,
     RollbackRestores

\* A step that leaves the images and the UKIs alone, takes nothing into the
\* history and is not part of a refresh keeps the invariant.
LEMMA Elsewhere ==
    ASSUME Inv, TypeOK',
           UNCHANGED <<images, running, other, counted>>,
           paired' \subseteq paired,
           \A a \in Apps, r \in Releases :
              <<a, r>> \in paired' /\ r \in corrupt'[a] => r \in corrupt[a],
           pc' \notin {"relink", "activate", "plan"} \/ (pc' = "plan" /\ phase' = "check"),
           phase' = "boot" => (pc' = "refresh" /\ prior' = None) \/ pc' = "failed",
           pc' = "fetch" => job'.version # None
    PROVE  Inv'
BY DEF Inv, RefreshApps, FetchHasVersion, FallbackImageKept, PairedGood, PairedBootable,
   PairedExpected, BootSteps, PriorFromJournal, LinksGone, RestoreSelected, RollbackRestores

\* RefreshExtensions keeps the invariant.
LEMMA RefreshInv == ASSUME Inv, Refresh \/ RefreshFault PROVE Inv'
<1> USE DEF disk, os, boot, history
<1>t. TypeOK'
  BY RefreshType DEF Inv
<1>1. CASE RefreshNothing
  <2>1. UNCHANGED <<images, link, version, corrupt, paired, running, other, counted>>
    BY <1>1 DEF RefreshNothing
  <2>2. InstalledApps' = {}
    BY <1>1, <2>1 DEF RefreshNothing, InstalledApps, Installed
  <2>3. pc' \in {"plan", "os", "start", "idle"} /\ phase' # "boot"
    BY <1>1 DEF RefreshNothing, Goto, AfterRefresh, Inv, TypeOK, Phases
  <2>4. RollbackRestores'
    BY <2>2 DEF RollbackRestores
  <2> QED
    BY <1>t, <2>1, <2>3, <2>4 DEF Inv, RefreshApps, FetchHasVersion, FallbackImageKept,
       PairedGood, PairedBootable, PairedExpected, BootSteps, PriorFromJournal, LinksGone,
       RestoreSelected
<1>2. CASE Unlink
  <2>1. pc' = "relink" /\ todo' = InstalledApps /\ phase' = phase
    BY <1>2 DEF Unlink
  <2>2. RefreshApps'
    BY <1>2, <2>1 DEF Unlink, RefreshApps, InstalledApps, Installed, Inv, TypeOK
  <2>3. FallbackImageKept'
    BY <1>2 DEF Unlink, Inv, TypeOK, FallbackImageKept, PairedGood
  <2>4. PairedGood' /\ PairedBootable'
    BY <1>2 DEF Unlink, Inv, TypeOK, PairedGood, PairedBootable
  <2>5. PriorFromJournal'
    BY <1>2 DEF Unlink, Inv, PriorFromJournal
  <2>6. LinksGone'
    BY <1>2 DEF Unlink, LinksGone
  <2> QED
    BY <1>t, <2>1, <2>2, <2>3, <2>4, <2>5, <2>6 DEF Inv, FetchHasVersion, PairedExpected,
       BootSteps, RestoreSelected, RollbackRestores
<1>3. CASE Relink
  <2>1. /\ pc = "relink" /\ pc' = "activate" /\ todo \in SUBSET Apps
        /\ UNCHANGED <<images, corrupt, paired, running, other, counted, prior, journal,
                       phase, todo>>
    BY <1>3 DEF Relink, Inv, TypeOK
  <2>2. PairedExpected'
    BY <1>3, <2>1 DEF Relink, Inv, PairedExpected, PairedBootable, FallbackImageKept,
       Expected, CurrentOSVersion, OtherOSVersion
  <2>3. LinksGone'
    BY <1>3, <2>1 DEF Relink, Inv, LinksGone
  <2>4. RestoreSelected'
    <3> SUFFICES ASSUME phase = "boot", journal > running, NEW a \in todo,
                        <<a, running>> \in paired
                 PROVE  version'[a] = running /\ link'[a] = running
      BY <2>1 DEF RestoreSelected
    <3>1. prior = journal /\ running \in images[a]
      BY <2>1 DEF Inv, PriorFromJournal, FallbackImageKept, TypeOK
    <3>2. BestVersion(a) = running
      BY <3>1 DEF BestVersion, Inv, TypeOK, None, Releases
    <3> QED BY <1>3, <2>1, <3>2 DEF Relink
  <2> QED
    BY <1>t, <2>1, <2>2, <2>3, <2>4 DEF Inv, RefreshApps, FetchHasVersion,
       FallbackImageKept, PairedGood, PairedBootable, BootSteps, PriorFromJournal,
       RollbackRestores
<1>4. CASE Activate
  <2>1. /\ pc = "activate"
        /\ UNCHANGED <<link, version, paired, running, other, counted, journal>>
    BY <1>4 DEF Activate
  <2>2. pc' \in {"plan", "os", "start", "idle"} /\ phase' # "boot"
    BY <1>4 DEF Activate, Goto, AfterRefresh, Inv, TypeOK, Phases
  <2>3. FallbackImageKept'
    BY <1>4, <2>1 DEF Activate, Inv, TypeOK, FallbackImageKept, PairedExpected
  <2>4. PairedGood' /\ PairedBootable'
    BY <1>4 DEF Activate, Inv, TypeOK, PairedGood, PairedBootable
  <2>5. RollbackRestores'
    <3> SUFFICES ASSUME pc' = "plan", phase' = "startup", journal > running,
                        NEW a \in Apps, Installed(a)', <<a, running>> \in paired
                 PROVE  version[a] = running /\ link[a] = running
      BY <2>1 DEF RollbackRestores, InstalledApps
    <3>1. phase = "boot"
      BY <1>4 DEF Activate, Goto, AfterRefresh, Inv, TypeOK, Phases
    <3>2. link[a] # None
      BY <2>1 DEF Installed
    <3>3. a \in todo
      BY <2>1, <3>1, <3>2 DEF Inv, LinksGone
    <3> QED BY <2>1, <3>1, <3>3 DEF Inv, RestoreSelected
  <2> QED
    BY <1>t, <2>2, <2>3, <2>4, <2>5 DEF Inv, RefreshApps, FetchHasVersion, PairedExpected,
       BootSteps, PriorFromJournal, LinksGone, RestoreSelected
<1>5. CASE RemoveCorruptSysext
  <2>1. pc' = "reboot"
    BY <1>5 DEF RemoveCorruptSysext
  <2>2. FallbackImageKept' /\ PairedGood' /\ PairedBootable'
    BY <1>5 DEF RemoveCorruptSysext, Inv, TypeOK, FallbackImageKept, PairedGood,
       PairedBootable
  <2> QED
    BY <1>t, <2>1, <2>2 DEF Inv, RefreshApps, FetchHasVersion, PairedExpected,
       BootSteps, PriorFromJournal, LinksGone, RestoreSelected, RollbackRestores
<1>6. CASE RefreshFault
  <2>1. pc' \in {"failed", "start", "idle"} /\ (phase' = "boot" => pc' = "failed")
    BY <1>6 DEF RefreshFault, Goto, AfterFailure
  <2> QED BY <1>t, <1>6, <2>1, Elsewhere DEF RefreshFault
<1> QED BY <1>1, <1>2, <1>3, <1>4, <1>5, <1>6 DEF Refresh

\* An update check keeps the invariant.
LEMMA CheckInv ==
    ASSUME Inv, Check \/ FetchEnd \/ FetchFault \/ NotifyFault \/ OSCurrent
    PROVE  Inv'
<1> USE DEF disk, os, boot, history
<1>t. TypeOK'
  BY CheckType DEF Inv
<1>p. phase' # "boot"
  <2>1. pc \in {"idle", "plan", "pick", "fetch", "os", "start"}
    BY DEF Check, CheckBegin, Plan, PickNothing, PickUpdate, PickDone, StageOS, Start,
       FetchEnd, FetchFault, NotifyFault, OSCurrent
  <2>2. phase # "boot"
    BY <2>1 DEF Inv, BootSteps
  <2>3. phase' \in {phase, "check", "startup"}
    BY DEF Check, CheckBegin, Plan, PickNothing, PickUpdate, PickDone, StageOS, Start,
       FetchEnd, FetchFault, NotifyFault, OSCurrent, Goto
  <2> QED BY <2>2, <2>3
<1>1. CASE CheckBegin
  BY <1>t, <1>p, <1>1, Elsewhere DEF CheckBegin
<1>2. CASE Plan
  <2>1. pc' \in {"pick", "start", "idle"}
    BY <1>2 DEF Plan, Goto, AfterFailure
  <2> QED BY <1>t, <1>p, <1>2, <2>1, Elsewhere DEF Plan
<1>3. CASE PickNothing
  BY <1>t, <1>p, <1>3, Elsewhere DEF PickNothing
<1>4. CASE PickUpdate
  <2>1. pc' = "fetch" /\ job'.version = published /\ published # None
    BY <1>4 DEF PickUpdate, Inv, TypeOK, Releases, None
  <2>2. FallbackImageKept' /\ PairedGood' /\ PairedBootable'
    BY <1>4 DEF PickUpdate, Inv, TypeOK, FallbackImageKept, PairedGood, PairedBootable
  <2> QED
    BY <1>t, <1>p, <2>1, <2>2 DEF Inv, RefreshApps, FetchHasVersion, PairedExpected,
       BootSteps, PriorFromJournal, LinksGone, RestoreSelected, RollbackRestores
<1>5. CASE PickDone
  <2>1. pc' \in {"refresh", "idle", "os"} /\ (pc' = "refresh" => phase' = phase)
    BY <1>5 DEF PickDone, Goto, AfterApps
  <2> QED BY <1>t, <1>p, <1>5, <2>1, Elsewhere DEF PickDone
<1>6. CASE StageOS
  <2>1. pc' \in {"reboot", "start"}
    BY <1>6 DEF StageOS
  <2>2. FallbackImageKept' /\ PairedGood' /\ PairedBootable'
    BY <1>6 DEF StageOS, Inv, TypeOK, FallbackImageKept, PairedGood, PairedBootable
  <2> QED
    BY <1>t, <1>p, <2>1, <2>2 DEF Inv, RefreshApps, FetchHasVersion, PairedExpected,
       BootSteps, PriorFromJournal, LinksGone, RestoreSelected, RollbackRestores
<1>7. CASE Start
  <2>1. pc' = "idle"
    BY <1>7 DEF Start, Goto
  <2>2. \A a \in Apps, r \in Releases : <<a, r>> \in paired' =>
            <<a, r>> \in paired \/ (r = running /\ r \in images[a] /\ r \notin corrupt[a])
    BY <1>7 DEF Start
  <2>3. FallbackImageKept' /\ PairedGood' /\ PairedBootable'
    BY <1>7, <2>2 DEF Start, Inv, FallbackImageKept, PairedGood, PairedBootable
  <2> QED
    BY <1>t, <1>p, <2>1, <2>3 DEF Inv, RefreshApps, FetchHasVersion, PairedExpected,
       BootSteps, PriorFromJournal, LinksGone, RestoreSelected, RollbackRestores
<1>8. CASE FetchEnd \/ NotifyFault
  <2>1. pc' = "pick" /\ Recorded(job.app, job.version)
        /\ UNCHANGED <<images, running, other, counted, paired>>
    BY <1>8 DEF FetchEnd, NotifyFault
  <2>2. \A a \in Apps : corrupt'[a] \subseteq corrupt[a]
    BY <2>1 DEF Recorded, Inv, TypeOK
  <2> QED BY <1>t, <1>p, <2>1, <2>2, Elsewhere
<1>9. CASE FetchFault
  <2>1. pc' = "pick"
    BY <1>9 DEF FetchFault
  <2>2. FallbackImageKept' /\ PairedGood' /\ PairedBootable'
    BY <1>9 DEF FetchFault, Inv, TypeOK, FallbackImageKept, PairedGood, PairedBootable
  <2> QED
    BY <1>t, <1>p, <2>1, <2>2 DEF Inv, RefreshApps, FetchHasVersion, PairedExpected,
       BootSteps, PriorFromJournal, LinksGone, RestoreSelected, RollbackRestores
<1>10. CASE OSCurrent
  BY <1>t, <1>p, <1>10, Elsewhere DEF OSCurrent
<1> QED
  BY <1>1, <1>2, <1>3, <1>4, <1>5, <1>6, <1>7, <1>8, <1>9, <1>10 DEF Check

\* A step that touches neither applications nor where an operation is.
LEMMA Aside ==
    ASSUME Inv, TypeOK',
           UNCHANGED <<images, link, version, avail, os, boot, pc, phase, todo, job>>,
           paired' \subseteq paired,
           \A a \in Apps, r \in Releases :
              <<a, r>> \in paired' /\ r \in corrupt'[a] => r \in corrupt[a]
    PROVE  Inv'
BY DEF Inv, RefreshApps, FetchHasVersion, FallbackImageKept, PairedGood, PairedBootable,
   PairedExpected, BootSteps, PriorFromJournal, LinksGone, RestoreSelected, RollbackRestores,
   InstalledApps, Installed, os, boot

\* Requests, restarts and the surroundings keep the invariant.
LEMMA OutsideInv ==
    ASSUME Inv,
           Request \/ OtherSave \/ DaemonRestart \/ Reboot \/ UserReboot \/ PowerLoss
             \/ Corrupt \/ Publish
    PROVE  Inv'
<1> USE DEF disk, os, boot, history
<1>t. TypeOK'
  BY OutsideType DEF Inv
<1>b. ASSUME NEW state, BootFrom(state), UNCHANGED <<disk, history>>
      PROVE  Inv'
  <2>1. pc' = "refresh" /\ phase' = "boot" /\ prior' = None
    BY <1>b DEF BootFrom, StartFrom
  <2>2. PairedBootable'
    <3>1. PICK r \in {running, other} \ {None} :
              /\ running' = r
              /\ other' = IF r = running THEN other ELSE running
              /\ counted' = (r = running /\ counted)
      BY <1>b DEF BootFrom
    <3>2. CASE r = running
      BY <1>b, <3>1, <3>2 DEF Inv, PairedBootable
    <3>3. CASE r # running
      <4>1. running' = other /\ other' = running /\ ~counted'
        BY <3>1, <3>3
      <4> QED BY <1>b, <4>1 DEF Inv, PairedBootable
    <3> QED BY <3>2, <3>3
  <2>3. FallbackImageKept' /\ PairedGood'
    BY <1>b DEF Inv, FallbackImageKept, PairedGood
  <2> QED
    BY <1>t, <2>1, <2>2, <2>3 DEF Inv, RefreshApps, FetchHasVersion, PairedExpected,
       BootSteps, PriorFromJournal, LinksGone, RestoreSelected, RollbackRestores
<1>1. CASE UserInstall \/ UserUpdate
  BY <1>t, <1>1, Elsewhere DEF UserInstall, UserUpdate
<1>2. CASE UserSwitch
  BY <1>t, <1>2, Elsewhere DEF UserSwitch
<1>3. CASE UserRemove
  <2>1. pc' = "activate" /\ phase' = "remove" /\ todo' = {}
    BY <1>3 DEF UserRemove
  <2>2. FallbackImageKept' /\ PairedGood' /\ PairedBootable'
    BY <1>3 DEF UserRemove, Inv, TypeOK, FallbackImageKept, PairedGood, PairedBootable
  <2>3. PairedExpected'
    BY <2>1 DEF PairedExpected
  <2> QED
    BY <1>t, <2>1, <2>2, <2>3 DEF Inv, RefreshApps, FetchHasVersion, BootSteps,
       PriorFromJournal, LinksGone, RestoreSelected, RollbackRestores
<1>4. CASE OtherSave
  BY <1>t, <1>4, Aside DEF OtherSave
<1>5. CASE DaemonRestart
  <2>1. pc' = "refresh" /\ phase' = "boot" /\ prior' = None
    BY <1>5 DEF DaemonRestart, StartFrom
  <2> QED BY <1>t, <1>5, <2>1, Elsewhere DEF DaemonRestart
<1>6. CASE Reboot \/ UserReboot \/ PowerLoss
  BY <1>6, <1>b DEF Reboot, UserReboot, PowerLoss, GoDown
<1>7. CASE Corrupt
  <2>1. UNCHANGED <<images, link, version, avail, os, boot, pc, phase, todo, job>>
    BY <1>7 DEF Corrupt
  <2>2. paired' \subseteq paired
    BY <1>7 DEF Corrupt
  <2>3. \A a \in Apps, r \in Releases :
            <<a, r>> \in paired' /\ r \in corrupt'[a] => r \in corrupt[a]
    BY <1>7 DEF Corrupt, Inv, TypeOK
  <2> QED BY <1>t, <2>1, <2>2, <2>3, Aside
<1>8. CASE Publish
  BY <1>t, <1>8, Aside DEF Publish
<1> QED BY <1>1, <1>2, <1>3, <1>4, <1>5, <1>6, <1>7, <1>8 DEF Request

\* Every step keeps the invariant.
LEMMA StepInv == ASSUME Inv, [Next]_vars PROVE Inv'
<1>1. CASE Next
  BY <1>1, RefreshInv, CheckInv, OutsideInv DEF Next
<1>2. CASE UNCHANGED vars
  <2> USE <1>2 DEF vars
  <2>1. TypeOK'
    BY DEF Inv, TypeOK
  <2>2. UNCHANGED <<images, link, version, avail, os, boot, pc, phase, todo, job>>
    BY DEF os, boot
  <2>3. UNCHANGED <<paired, corrupt>>
    OBVIOUS
  <2> QED BY <2>1, <2>2, <2>3, Aside
<1> QED BY <1>1, <1>2

-----------------------------------------------------------------------------
(* What is recorded.                                                       *)

Oldest(a, v) == \A w \in images[a] : v <= w

\* A version whose image does not verify, or is missing and may be downloaded again.
Unsure(a, v) == v \in corrupt[a] \/ (v = published /\ v \notin images[a])

\* What is downloaded is newer than what is recorded.
JobNewer == pc = "fetch" => job.version > version[job.app]
JobOnDisk == pc = "fetch" => job.version \in images[job.app]

\* Nothing is newer than what was published.
Bounded ==
    \A a \in Apps : /\ \A v \in images[a] : v <= published
                    /\ version[a] <= published /\ saved.version[a] <= published

\* A recorded version without a good image is older than all images: only a removal that was
\* not saved and an interrupted new installation lead there.
RecordGood ==
    \A a \in Apps, v \in Releases :
        v \in {version[a], saved.version[a]} /\ Unsure(a, v) => Oldest(a, v)

\* A refresh has removed the bad images of other versions.
Cleaned == pc = "relink" => \A a \in todo : corrupt[a] \subseteq {version[a]}

\* Its clean up keeps what was published last.
NewestListed ==
    pc = "activate" => \A a \in todo : published \in images[a] => published \in avail[a]

\* Where an operation does not change links; and the applications that have changed since
\* the last refresh.
Settled == {"activate", "plan", "pick", "fetch", "os", "start", "idle"}
Fresh == IF pc \in {"pick", "fetch"} THEN got ELSE {}

\* What is offered is on disk, and good unless it is older than all images.
OffersGood ==
    pc \in Settled =>
        \A a \in InstalledApps \ Fresh :
            /\ avail[a] \subseteq images[a]
            /\ \A v \in avail[a] : v \in corrupt[a] => Oldest(a, v)

LinksAgree ==
    pc \in Settled => \A a \in InstalledApps \ (Fresh \cup unlinked) : link[a] = version[a]

DiskGood == Bounded /\ RecordGood /\ Cleaned /\ NewestListed /\ OffersGood
Records == JobNewer /\ JobOnDisk /\ LinksAgree /\ (~spoiled => DiskGood)

\* The first boot: no image, nothing recorded.
LEMMA InitRecords == ASSUME Init PROVE Records
<1>1. published = 1 /\ pc = "refresh" /\ \A a \in Apps : images[a] = {} /\ corrupt[a] = {}
      /\ version[a] = 0 /\ saved.version[a] = 0
  BY DEF Init, None
<1>2. Bounded
  BY <1>1 DEF Bounded
<1>3. RecordGood
  BY <1>1 DEF RecordGood, Oldest
<1> QED
  BY <1>1, <1>2, <1>3 DEF Records, DiskGood, JobNewer, JobOnDisk, LinksAgree, Cleaned,
     NewestListed, OffersGood, Settled

\* A step that changes neither disk nor versions, and goes on where the records agree only
\* from there.
LEMMA Steady ==
    ASSUME Inv, Records,
           UNCHANGED <<images, corrupt, link, version, avail, published, spoiled, unlinked>>,
           saved' \in {saved, Now},
           pc' \notin {"relink", "activate", "fetch"} \/ UNCHANGED <<pc, job, todo>>,
           pc' \in Settled => InstalledApps = {} \/ (pc \in Settled /\ Fresh \subseteq Fresh')
    PROVE  Records'
<1>1. InstalledApps' = InstalledApps
  BY DEF InstalledApps, Installed
<1>2. \A a \in Apps : saved'.version[a] \in {saved.version[a], version[a]}
  BY DEF Now
<1>3. JobNewer' /\ JobOnDisk'
  BY DEF Records, JobNewer, JobOnDisk
<1>4. LinksAgree'
  BY <1>1 DEF Records, LinksAgree
<1>5. ASSUME ~spoiled' PROVE DiskGood'
  <2>1. DiskGood
    BY <1>5 DEF Records
  <2>2. Bounded'
    BY <1>2, <2>1 DEF DiskGood, Bounded
  <2>3. RecordGood'
    BY <1>2, <2>1 DEF DiskGood, RecordGood, Unsure, Oldest
  <2>4. Cleaned' /\ NewestListed'
    BY <2>1 DEF DiskGood, Cleaned, NewestListed
  <2>5. OffersGood'
    BY <1>1, <2>1 DEF DiskGood, OffersGood, Oldest
  <2> QED BY <2>2, <2>3, <2>4, <2>5 DEF DiskGood
<1> QED BY <1>3, <1>4, <1>5 DEF Records

\* RefreshExtensions keeps the records right.
LEMMA RefreshRecords == ASSUME Inv, Records, Refresh \/ RefreshFault PROVE Records'
<1> USE DEF disk, os, boot, history
<1>t. TypeOK /\ TypeOK'
  BY RefreshType DEF Inv
<1>1. CASE RefreshNothing
  <2>1. pc' \in {"plan", "os", "start", "idle"}
    BY <1>1 DEF RefreshNothing, Goto, AfterRefresh, Inv, TypeOK, Phases
  <2> QED BY <1>1, <2>1, Steady DEF RefreshNothing
<1>2. CASE Unlink
  <2>1. /\ pc' = "relink" /\ todo' = InstalledApps
        /\ UNCHANGED <<version, saved, published, spoiled>>
    BY <1>2 DEF Unlink
  <2>2. \A a \in Apps : /\ images'[a] \subseteq images[a]
                        /\ corrupt'[a] = corrupt[a] \cap images'[a]
                        /\ images[a] \ images'[a] \subseteq corrupt[a]
    BY <1>2 DEF Unlink, Inv, TypeOK
  <2>3. ASSUME ~spoiled' PROVE DiskGood'
    <3>1. Bounded /\ RecordGood
      BY <2>1, <2>3 DEF Records, DiskGood
    <3>2. Bounded'
      BY <2>1, <2>2, <3>1 DEF Bounded
    <3>3. RecordGood'
      BY <2>1, <2>2, <3>1 DEF RecordGood, Unsure, Oldest
    <3>4. Cleaned'
      <4> SUFFICES ASSUME NEW a \in InstalledApps PROVE corrupt'[a] \subseteq {version[a]}
        BY <2>1 DEF Cleaned
      <4>1. a \in Apps /\ images'[a] = images[a] \ (corrupt[a] \ {version[a]})
        BY <1>2 DEF Unlink, InstalledApps
      <4> QED BY <2>2, <4>1
    <3> QED BY <2>1, <3>2, <3>3, <3>4 DEF DiskGood, NewestListed, OffersGood, Settled
  <2> QED
    BY <2>1, <2>3 DEF Records, JobNewer, JobOnDisk, LinksAgree, Settled
<1>3. CASE Relink
  <2>1. /\ pc = "relink" /\ pc' = "activate" /\ unlinked' = {} /\ todo \in SUBSET Apps
        /\ UNCHANGED <<images, corrupt, saved, published, spoiled, todo>>
    BY <1>3 DEF Relink, Inv, TypeOK
  <2>2. \A a \in todo : /\ link'[a] = BestVersion(a) /\ version'[a] = BestVersion(a)
                        /\ avail'[a] = Expected(a)
    BY <1>3, <2>1 DEF Relink
  <2>3. \A a \in Apps \ todo : link'[a] = None /\ version'[a] = version[a]
    BY <1>3, <2>1 DEF Relink, Inv, LinksGone
  <2>4. InstalledApps' \subseteq todo
    BY <2>3 DEF InstalledApps, Installed
  <2>5. \A a \in todo : /\ images[a] \in SUBSET Releases /\ version[a] \in images[a]
                        /\ Newest(images[a]) \in images[a]
                        /\ \A w \in images[a] : w <= Newest(images[a])
    <3> SUFFICES ASSUME NEW a \in todo
                 PROVE  /\ images[a] \in SUBSET Releases /\ version[a] \in images[a]
                        /\ Newest(images[a]) \in images[a]
                        /\ \A w \in images[a] : w <= Newest(images[a])
      OBVIOUS
    <3>1. images[a] \in SUBSET Releases /\ version[a] \in images[a]
      BY <2>1 DEF Inv, TypeOK, RefreshApps
    <3> QED BY <3>1, NewestIn
  <2>6. \A a \in todo : BestVersion(a) \in images[a]
    BY <2>5 DEF BestVersion
  <2>7. \A a \in todo : Expected(a) \subseteq images[a]
    BY <2>5 DEF Expected, CurrentOSVersion, OtherOSVersion
  <2>8. LinksAgree'
    BY <2>2, <2>4 DEF LinksAgree
  <2>9. ASSUME ~spoiled' PROVE DiskGood'
    <3>1. Bounded /\ RecordGood /\ Cleaned
      BY <2>1, <2>9 DEF Records, DiskGood
    <3>2. Bounded'
      <4> SUFFICES ASSUME NEW a \in Apps PROVE version'[a] <= published
        BY <2>1, <3>1 DEF Bounded
      <4>1. CASE a \in todo
        BY <2>2, <2>6, <3>1, <4>1 DEF Bounded
      <4>2. CASE a \notin todo
        BY <2>3, <3>1, <4>2 DEF Bounded
      <4> QED BY <4>1, <4>2
    <3>3. RecordGood'
      <4> SUFFICES ASSUME NEW a \in Apps, NEW v \in Releases,
                          v \in {version'[a], saved.version[a]}, Unsure(a, v)
                   PROVE  Oldest(a, v)
        BY <2>1 DEF RecordGood, Unsure, Oldest
      <4>1. CASE v \in {version[a], saved.version[a]}
        BY <3>1, <4>1 DEF RecordGood
      <4>2. CASE v \notin {version[a], saved.version[a]}
        <5>1. a \in todo /\ v = BestVersion(a)
          BY <2>2, <2>3, <4>2
        <5>2. v \in corrupt[a]
          BY <2>6, <5>1 DEF Unsure
        <5>3. v = version[a]
          BY <2>1, <3>1, <5>1, <5>2 DEF Cleaned
        <5> QED BY <4>2, <5>3
      <4> QED BY <4>1, <4>2
    <3>4. NewestListed'
      <4> SUFFICES ASSUME NEW a \in todo, published \in images[a]
                   PROVE  published \in Expected(a)
        BY <2>1, <2>2 DEF NewestListed
      <4>1. Newest(images[a]) <= published /\ published <= Newest(images[a])
        BY <2>1, <2>5, <3>1 DEF Bounded
      <4>2. Newest(images[a]) = published
        BY <2>5, <4>1 DEF Releases
      <4> QED BY <4>2 DEF Expected
    <3>5. OffersGood'
      <4> SUFFICES ASSUME NEW a \in todo
                   PROVE  /\ Expected(a) \subseteq images[a]
                          /\ \A v \in Expected(a) : v \in corrupt[a] => Oldest(a, v)
        BY <2>1, <2>2, <2>4 DEF OffersGood, Oldest
      <4>1. \A v \in corrupt[a] : v = version[a]
        BY <2>1, <3>1 DEF Cleaned
      <4>2. version[a] \in corrupt[a] => Oldest(a, version[a])
        <5>1. version[a] \in Releases
          BY <2>5
        <5> QED BY <2>1, <3>1, <5>1 DEF RecordGood, Unsure
      <4> QED BY <2>7, <4>1, <4>2
    <3> QED BY <2>1, <3>2, <3>3, <3>4, <3>5 DEF DiskGood, Cleaned
  <2> QED BY <2>1, <2>8, <2>9 DEF Records, JobNewer, JobOnDisk
<1>4. CASE Activate
  <2>1. /\ pc = "activate" /\ pc' \in {"plan", "os", "start", "idle"}
        /\ UNCHANGED <<link, version, avail, published, spoiled, unlinked>>
        /\ saved' \in {saved, Now}
    BY <1>4 DEF Activate, Goto, AfterRefresh, Inv, TypeOK, Phases
  <2>2. \A a \in Apps : /\ images'[a] = IF a \in todo THEN images[a] \cap avail[a] ELSE images[a]
                        /\ corrupt'[a] = corrupt[a] \cap images'[a]
    BY <1>4 DEF Activate, Inv, TypeOK
  <2>3. InstalledApps' \subseteq InstalledApps
    BY <2>1, <2>2 DEF InstalledApps, Installed
  <2>4. LinksAgree'
    BY <2>1, <2>3 DEF Records, LinksAgree, Settled, Fresh
  <2>5. ASSUME ~spoiled' PROVE DiskGood'
    <3>1. DiskGood
      BY <2>1, <2>5 DEF Records
    <3>2. \A a \in Apps : saved'.version[a] \in {saved.version[a], version[a]}
      BY <2>1 DEF Now
    <3>3. Bounded'
      BY <2>1, <2>2, <3>1, <3>2 DEF DiskGood, Bounded
    <3>4. \A a \in Apps, v \in Releases : Unsure(a, v)' => Unsure(a, v)
      BY <2>1, <2>2, <3>1 DEF Unsure, DiskGood, NewestListed
    <3>5. \A a \in Apps, v \in Releases : Oldest(a, v) => Oldest(a, v)'
      BY <2>2 DEF Oldest
    <3>6. RecordGood'
      BY <2>1, <3>1, <3>2, <3>4, <3>5 DEF DiskGood, RecordGood
    <3>7. OffersGood'
      <4> SUFFICES ASSUME NEW a \in InstalledApps
                   PROVE  /\ avail[a] \subseteq images'[a]
                          /\ \A v \in avail[a] : v \in corrupt'[a] => Oldest(a, v)'
        BY <2>1, <2>3 DEF OffersGood
      <4>1. a \in Apps /\ avail[a] \in SUBSET Releases
        BY <1>t DEF TypeOK, InstalledApps
      <4>2. avail[a] \subseteq images[a] /\ \A v \in avail[a] : v \in corrupt[a] => Oldest(a, v)
        BY <2>1, <3>1 DEF DiskGood, OffersGood, Settled, Fresh
      <4> QED BY <2>2, <3>5, <4>1, <4>2
    <3> QED BY <2>1, <3>3, <3>6, <3>7 DEF DiskGood, Cleaned, NewestListed
  <2> QED BY <2>1, <2>4, <2>5 DEF Records, JobNewer, JobOnDisk
<1>5. CASE RemoveCorruptSysext
  <2>1. pc' = "reboot" /\ UNCHANGED <<version, saved, published, spoiled>>
    BY <1>5 DEF RemoveCorruptSysext
  <2>2. \A a \in Apps : /\ images'[a] \subseteq images[a] /\ corrupt'[a] \subseteq corrupt[a]
                        /\ images[a] \ images'[a] \subseteq corrupt[a]
    BY <1>5 DEF RemoveCorruptSysext, Inv, TypeOK
  <2>3. ASSUME ~spoiled' PROVE Bounded' /\ RecordGood'
    <3>1. Bounded /\ RecordGood
      BY <2>1, <2>3 DEF Records, DiskGood
    <3>2. Bounded'
      BY <2>1, <2>2, <3>1 DEF Bounded
    <3>3. RecordGood'
      BY <2>1, <2>2, <3>1 DEF RecordGood, Unsure, Oldest
    <3> QED BY <3>2, <3>3
  <2> QED
    BY <2>1, <2>3 DEF Records, DiskGood, JobNewer, JobOnDisk, LinksAgree, Cleaned, NewestListed,
       OffersGood, Settled
<1>6. CASE RefreshFault
  <2>1. pc = "activate" /\ pc' \in {"failed", "start", "idle"}
    BY <1>6 DEF RefreshFault, Goto, AfterFailure
  <2>2. pc \in Settled /\ Fresh \subseteq Fresh'
    BY <2>1 DEF Settled, Fresh
  <2> QED BY <1>6, <2>1, <2>2, Steady DEF RefreshFault
<1> QED BY <1>1, <1>2, <1>3, <1>4, <1>5, <1>6 DEF Refresh

\* What applyUpdate records agrees with the disk again after the next refresh, and is good.
LEMMA RecordedGood ==
    ASSUME Inv, Records, pc = "fetch", Recorded(job.app, job.version),
           UNCHANGED <<images, saved, published, spoiled>>, pc' = "pick",
           \/ job.app \in got' /\ got \subseteq got' /\ unlinked' = unlinked
           \/ ~Held(job.app) /\ got' = got /\ unlinked' = unlinked \cup {job.app}
    PROVE  Records'
<1> DEFINE b == job.app  w == job.version
<1>1. b \in Apps /\ w \in Releases /\ w \in images[b] /\ w > version[b]
  BY DEF Inv, TypeOK, FetchHasVersion, Records, JobNewer, JobOnDisk
<1>2. \A a \in Apps \ {b} : /\ corrupt'[a] = corrupt[a] /\ link'[a] = link[a]
                            /\ version'[a] = version[a] /\ avail'[a] = avail[a]
  BY DEF Recorded, Inv, TypeOK
<1>3. /\ corrupt'[b] = corrupt[b] \ {w}
      /\ version'[b] \in {version[b], w}
      /\ ~Held(b) => avail'[b] = {}
  BY <1>1 DEF Recorded, Inv, TypeOK
<1>4. \A a \in Apps \ {b} : Installed(a)' <=> Installed(a)
  BY <1>2 DEF Installed
<1> HIDE DEF b, w
<1>5. LinksAgree'
  <2> SUFFICES ASSUME NEW a \in InstalledApps', a \notin got', a \notin unlinked'
               PROVE  link'[a] = version'[a]
    BY DEF LinksAgree, Fresh
  <2>1. a \in Apps /\ a # b
    BY DEF InstalledApps, b
  <2>2. a \in InstalledApps /\ a \notin Fresh /\ a \notin unlinked
    BY <1>4, <2>1 DEF InstalledApps, Fresh
  <2> QED BY <1>2, <2>1, <2>2 DEF Records, LinksAgree, Settled
<1>6. ASSUME ~spoiled' PROVE DiskGood'
  <2>1. DiskGood
    BY <1>6 DEF Records
  <2>2. Bounded'
    <3> SUFFICES ASSUME NEW a \in Apps PROVE version'[a] <= published
      BY <2>1 DEF DiskGood, Bounded
    <3> QED BY <1>1, <1>2, <1>3, <2>1 DEF DiskGood, Bounded
  <2>3. RecordGood'
    <3> SUFFICES ASSUME NEW a \in Apps, NEW v \in Releases,
                        v \in {version'[a], saved.version[a]}, Unsure(a, v)'
                 PROVE  Oldest(a, v)
      BY DEF RecordGood, Oldest
    <3>1. Unsure(a, v)
      BY <1>2, <1>3 DEF Unsure
    <3>2. CASE v \in {version[a], saved.version[a]}
      BY <2>1, <3>1, <3>2 DEF DiskGood, RecordGood
    <3>3. CASE v \notin {version[a], saved.version[a]}
      <4>1. a = b /\ v = w
        BY <1>2, <1>3, <3>3
      <4> QED BY <1>1, <1>3, <4>1 DEF Unsure
    <3> QED BY <3>2, <3>3
  <2>4. OffersGood'
    <3> SUFFICES ASSUME NEW a \in InstalledApps', a \notin got'
                 PROVE  /\ avail'[a] \subseteq images[a]
                        /\ \A v \in avail'[a] : v \in corrupt'[a] => Oldest(a, v)
      BY DEF OffersGood, Fresh, Oldest
    <3>1. CASE a = b
      BY <1>3, <3>1 DEF b
    <3>2. CASE a # b
      <4>1. a \in InstalledApps \ Fresh
        BY <1>4, <3>2 DEF InstalledApps, Fresh
      <4>2. a \in Apps
        BY <4>1 DEF InstalledApps
      <4> QED BY <1>2, <2>1, <3>2, <4>1, <4>2 DEF DiskGood, OffersGood, Settled
    <3> QED BY <3>1, <3>2
  <2> QED BY <2>2, <2>3, <2>4 DEF DiskGood, Cleaned, NewestListed
<1> QED BY <1>5, <1>6 DEF Records, JobNewer, JobOnDisk

\* An update check keeps the records right.
LEMMA CheckRecords ==
    ASSUME Inv, Records, Check \/ FetchEnd \/ FetchFault \/ NotifyFault \/ OSCurrent
    PROVE  Records'
<1> USE DEF disk, os, boot, history
<1>t. TypeOK
  BY DEF Inv
<1>1. CASE CheckBegin
  BY <1>1, Steady DEF CheckBegin, Settled, Fresh
<1>2. CASE Plan
  <2>1. pc' \in {"pick", "start", "idle"} /\ pc = "plan"
    BY <1>2 DEF Plan, Goto, AfterFailure
  <2> QED BY <1>2, <2>1, Steady DEF Plan, Settled, Fresh
<1>3. CASE PickNothing
  BY <1>3, Steady DEF PickNothing, Settled, Fresh
<1>4. CASE PickUpdate
  <2> DEFINE b == NextApp
  <2>1. b \in todo /\ b \in Apps
    BY <1>4 DEF PickUpdate, NextApp, TypeOK, Inv
  <2>2. /\ pc = "pick" /\ pc' = "fetch" /\ published \in Releases /\ published > version[b]
        /\ job'.app = b /\ job'.version = published
        /\ UNCHANGED <<link, version, avail, saved, published, got, spoiled, unlinked>>
    BY <1>4, <1>t DEF PickUpdate, TypeOK
  <2>3. /\ images'[b] = images[b] \cup {published}
        /\ published \in images[b] => corrupt' = corrupt
        /\ published \notin images[b] => corrupt'[b] = corrupt[b] \cup {published}
    BY <1>4, <1>t, <2>1 DEF PickUpdate, TypeOK
  <2>4. \A a \in Apps \ {b} : images'[a] = images[a] /\ corrupt'[a] = corrupt[a]
    BY <1>4, <1>t DEF PickUpdate, TypeOK
  <2>5. \A a \in Apps : Installed(a)' <=> Installed(a)
    <3>1. version[b] # published
      BY <2>1, <2>2, <1>t DEF TypeOK, Releases, None
    <3> QED BY <2>2, <2>3, <2>4, <3>1 DEF Installed
  <2> HIDE DEF b
  <2>6. InstalledApps' = InstalledApps /\ Fresh' = Fresh
    BY <2>2, <2>5 DEF InstalledApps, Fresh
  <2>7. LinksAgree'
    BY <2>2, <2>6 DEF Records, LinksAgree, Settled
  <2>8. ASSUME ~spoiled' PROVE DiskGood'
    <3>1. DiskGood
      BY <2>2, <2>8 DEF Records
    <3>2. Bounded'
      BY <2>2, <2>3, <2>4, <3>1 DEF DiskGood, Bounded, Releases
    <3>3. RecordGood'
      <4> SUFFICES ASSUME NEW a \in Apps, NEW v \in Releases,
                          v \in {version[a], saved.version[a]}, Unsure(a, v)'
                   PROVE  Oldest(a, v)'
        BY <2>2 DEF RecordGood
      <4>1. v <= published
        BY <3>1 DEF DiskGood, Bounded
      <4>2. Unsure(a, v)
        BY <2>2, <2>3, <2>4 DEF Unsure
      <4>3. Oldest(a, v)
        BY <3>1, <4>2 DEF DiskGood, RecordGood
      <4> QED BY <2>3, <2>4, <4>1, <4>3 DEF Oldest
    <3>4. OffersGood'
      <4> SUFFICES ASSUME NEW a \in InstalledApps \ Fresh
                   PROVE  /\ avail[a] \subseteq images'[a]
                          /\ \A v \in avail[a] : v \in corrupt'[a] => Oldest(a, v)'
        BY <2>2, <2>6 DEF OffersGood
      <4>1. avail[a] \subseteq images[a] /\ \A v \in avail[a] : v \in corrupt[a] => Oldest(a, v)
        BY <2>2, <3>1 DEF DiskGood, OffersGood, Settled
      <4>2. a \in Apps
        BY DEF InstalledApps
      <4>3. avail[a] \subseteq images'[a]
        BY <2>3, <2>4, <4>1, <4>2
      <4>4. ASSUME NEW v \in avail[a], v \in corrupt'[a] PROVE Oldest(a, v)'
        <5>1. v \in images[a] /\ v <= published
          BY <3>1, <4>1, <4>2, <4>4 DEF DiskGood, Bounded
        <5>2. v \in corrupt[a]
          BY <2>3, <2>4, <4>2, <4>4, <5>1
        <5>3. Oldest(a, v)
          BY <4>1, <4>4, <5>2
        <5> QED BY <2>3, <2>4, <4>2, <5>1, <5>3 DEF Oldest
      <4> QED BY <4>3, <4>4
    <3> QED BY <2>2, <3>2, <3>3, <3>4 DEF DiskGood, Cleaned, NewestListed
  <2>9. JobNewer' /\ JobOnDisk'
    BY <2>2, <2>3 DEF JobNewer, JobOnDisk
  <2> QED BY <2>7, <2>8, <2>9 DEF Records
<1>5. CASE PickDone
  <2>1. pc = "pick" /\ pc' \in {"refresh", "idle", "os"} /\ (pc' # "refresh" => got = {})
    BY <1>5 DEF PickDone, Goto, AfterApps
  <2>2. pc' \in Settled => pc \in Settled /\ Fresh \subseteq Fresh'
    BY <2>1 DEF Settled, Fresh
  <2> QED BY <1>5, <2>1, <2>2, Steady DEF PickDone
<1>6. CASE StageOS
  <2>1. pc = "os" /\ pc' \in {"reboot", "start"}
    BY <1>6 DEF StageOS
  <2>2. pc \in Settled /\ Fresh \subseteq Fresh'
    BY <2>1 DEF Settled, Fresh
  <2> QED BY <1>6, <2>1, <2>2, Steady DEF StageOS
<1>7. CASE Start
  <2>1. pc = "start" /\ pc' = "idle" /\ saved' \in {saved, Now}
    BY <1>7 DEF Start, Goto
  <2>2. pc \in Settled /\ Fresh \subseteq Fresh'
    BY <2>1 DEF Settled, Fresh
  <2> QED BY <1>7, <2>1, <2>2, Steady DEF Start
<1>8. CASE FetchEnd
  BY <1>8, RecordedGood DEF FetchEnd
<1>9. CASE NotifyFault
  BY <1>9, RecordedGood DEF NotifyFault
<1>10. CASE FetchFault
  <2> DEFINE b == job.app  w == job.version
  <2>1. b \in Apps /\ w \in Releases /\ w \in images[b] /\ w > version[b]
    BY <1>10 DEF FetchFault, Inv, TypeOK, FetchHasVersion, Records, JobNewer, JobOnDisk
  <2>2. /\ pc = "fetch" /\ pc' = "pick"
        /\ UNCHANGED <<link, version, avail, saved, published, got, spoiled, unlinked>>
    BY <1>10 DEF FetchFault
  <2>3. \A a \in Apps \ {b} : images'[a] = images[a] /\ corrupt'[a] = corrupt[a]
    BY <1>10, <1>t DEF FetchFault, TypeOK
  <2>4. \/ images'[b] = images[b] /\ corrupt'[b] = corrupt[b]
        \/ w \in corrupt[b] /\ images'[b] = images[b] \ {w} /\ corrupt'[b] = corrupt[b] \ {w}
    BY <1>10, <1>t, <2>1 DEF FetchFault, TypeOK
  <2> HIDE DEF b, w
  <2>5. InstalledApps' \subseteq InstalledApps /\ Fresh' = Fresh
    BY <2>2, <2>3, <2>4 DEF InstalledApps, Installed, Fresh
  <2>6. LinksAgree'
    BY <2>2, <2>5 DEF Records, LinksAgree, Settled
  <2>7. ASSUME ~spoiled' PROVE DiskGood'
    <3>1. DiskGood
      BY <2>2, <2>7 DEF Records
    <3>2. Bounded'
      BY <2>2, <2>3, <2>4, <3>1 DEF DiskGood, Bounded
    <3>3. \A a \in Apps, v \in Releases : Unsure(a, v)' => Unsure(a, v)
      BY <2>2, <2>3, <2>4 DEF Unsure
    <3>4. \A a \in Apps, v \in Releases : Oldest(a, v) => Oldest(a, v)'
      BY <2>3, <2>4 DEF Oldest
    <3>5. RecordGood'
      BY <2>2, <3>1, <3>3, <3>4 DEF DiskGood, RecordGood
    <3>6. OffersGood'
      <4> SUFFICES ASSUME NEW a \in InstalledApps \ Fresh
                   PROVE  /\ avail[a] \subseteq images'[a]
                          /\ \A v \in avail[a] : v \in corrupt'[a] => Oldest(a, v)'
        BY <2>2, <2>5 DEF OffersGood
      <4>1. avail[a] \subseteq images[a] /\ \A v \in avail[a] : v \in corrupt[a] => Oldest(a, v)
        BY <2>2, <3>1 DEF DiskGood, OffersGood, Settled
      <4>2. a \in Apps /\ version[a] \in images[a] /\ avail[a] \in SUBSET Releases
            /\ version[a] \in Releases
        BY <1>t DEF InstalledApps, Installed, TypeOK
      <4>3. a = b /\ w \in corrupt[b] => w \notin avail[a]
        <5> SUFFICES ASSUME a = b, w \in corrupt[b], w \in avail[a] PROVE FALSE
          OBVIOUS
        <5>1. w <= version[a]
          BY <4>1, <4>2 DEF Oldest
        <5> QED BY <2>1, <4>2, <5>1 DEF Releases
      <4>4. avail[a] \subseteq images'[a]
        BY <2>3, <2>4, <4>1, <4>2, <4>3
      <4>5. corrupt'[a] \subseteq corrupt[a]
        BY <2>3, <2>4, <4>2
      <4> QED BY <3>4, <4>1, <4>2, <4>4, <4>5
    <3> QED BY <2>2, <3>2, <3>5, <3>6 DEF DiskGood, Cleaned, NewestListed
  <2> QED BY <2>2, <2>6, <2>7 DEF Records, JobNewer, JobOnDisk
<1>11. CASE OSCurrent
  BY <1>11, Steady DEF OSCurrent, Settled, Fresh
<1> QED
  BY <1>1, <1>2, <1>3, <1>4, <1>5, <1>6, <1>7, <1>8, <1>9, <1>10, <1>11 DEF Check

\* Requests, restarts and the surroundings keep the records right.
LEMMA OutsideRecords ==
    ASSUME Inv, Records,
           Request \/ OtherSave \/ DaemonRestart \/ Reboot \/ UserReboot \/ PowerLoss
             \/ Corrupt \/ Publish
    PROVE  Records'
<1> USE DEF disk, os, boot, history
<1>t. TypeOK
  BY DEF Inv
<1>b. ASSUME NEW state \in {saved, Now}, StartFrom(state),
             UNCHANGED <<disk, published, history>>
      PROVE  Records'
  <2>1. pc' = "refresh" /\ saved' = state /\ version' = state.version
    BY <1>b DEF StartFrom
  <2>2. \A a \in Apps : {version'[a], saved'.version[a]} \subseteq {version[a], saved.version[a]}
    BY <1>b, <2>1 DEF Now
  <2>3. ASSUME ~spoiled' PROVE Bounded' /\ RecordGood'
    <3>1. Bounded /\ RecordGood
      BY <1>b, <2>3 DEF Records, DiskGood
    <3>2. Bounded'
      BY <1>b, <2>2, <3>1 DEF Bounded
    <3>3. RecordGood'
      BY <1>b, <2>2, <3>1 DEF RecordGood, Unsure, Oldest
    <3> QED BY <3>2, <3>3
  <2> QED
    BY <2>1, <2>3 DEF Records, DiskGood, JobNewer, JobOnDisk, LinksAgree, Cleaned, NewestListed,
       OffersGood, Settled
<1>1. CASE UserInstall \/ UserUpdate
  <2>1. pc = "idle" /\ pc' = "pick"
    BY <1>1 DEF UserInstall, UserUpdate
  <2>2. pc \in Settled /\ Fresh \subseteq Fresh'
    BY <2>1 DEF Settled, Fresh
  <2> QED BY <1>1, <2>1, <2>2, Steady DEF UserInstall, UserUpdate
<1>2. CASE UserSwitch
  <2>0. PICK b \in InstalledApps : \E v \in avail[b] : version' = [version EXCEPT ![b] = v]
    BY <1>2 DEF UserSwitch
  <2>1. PICK w \in avail[b] : version' = [version EXCEPT ![b] = w]
    BY <2>0
  <2>2. /\ pc = "idle" /\ pc' = "refresh"
        /\ UNCHANGED <<images, corrupt, saved, published, spoiled>>
    BY <1>2 DEF UserSwitch
  <2>3. b \in Apps /\ w \in Releases
    BY <1>t, <2>1 DEF TypeOK, InstalledApps
  <2>4. \A a \in Apps : version'[a] = IF a = b THEN w ELSE version[a]
    BY <1>t, <2>1 DEF TypeOK
  <2>5. ASSUME ~spoiled' PROVE Bounded' /\ RecordGood'
    <3>1. Bounded /\ RecordGood /\ OffersGood
      BY <2>2, <2>5 DEF Records, DiskGood
    <3>2. w \in images[b] /\ (w \in corrupt[b] => Oldest(b, w))
      BY <2>1, <2>2, <3>1 DEF OffersGood, Settled, Fresh
    <3>3. Bounded'
      BY <2>2, <2>3, <2>4, <3>1, <3>2 DEF Bounded
    <3>4. RecordGood'
      <4> SUFFICES ASSUME NEW a \in Apps, NEW v \in Releases,
                          v \in {version'[a], saved.version[a]}, Unsure(a, v)
                   PROVE  Oldest(a, v)
        BY <2>2 DEF RecordGood, Unsure, Oldest
      <4>1. CASE v \in {version[a], saved.version[a]}
        BY <3>1, <4>1 DEF RecordGood
      <4>2. CASE v \notin {version[a], saved.version[a]}
        <5>1. a = b /\ v = w
          BY <2>4, <4>2
        <5> QED BY <3>2, <5>1 DEF Unsure
      <4> QED BY <4>1, <4>2
    <3> QED BY <3>3, <3>4
  <2> QED
    BY <2>2, <2>5 DEF Records, DiskGood, JobNewer, JobOnDisk, LinksAgree, Cleaned, NewestListed,
       OffersGood, Settled
<1>3. CASE UserRemove
  <2>1. PICK b \in InstalledApps :
            /\ version' = [version EXCEPT ![b] = None] /\ avail' = [avail EXCEPT ![b] = {}]
            /\ link' = [link EXCEPT ![b] = None] /\ images' = [images EXCEPT ![b] = {}]
            /\ corrupt' = [corrupt EXCEPT ![b] = {}]
    BY <1>3 DEF UserRemove
  <2>2. /\ pc = "idle" /\ pc' = "activate" /\ todo' = {}
        /\ UNCHANGED <<saved, published, spoiled, unlinked>>
    BY <1>3 DEF UserRemove
  <2>3. b \in Apps
    BY <2>1 DEF InstalledApps
  <2>4. version'[b] = None /\ images'[b] = {} /\ corrupt'[b] = {}
    BY <1>t, <2>1, <2>3 DEF TypeOK
  <2>5. \A a \in Apps \ {b} : /\ version'[a] = version[a] /\ avail'[a] = avail[a]
                              /\ link'[a] = link[a] /\ images'[a] = images[a]
                              /\ corrupt'[a] = corrupt[a]
    BY <1>t, <2>1 DEF TypeOK
  <2>6. InstalledApps' \subseteq InstalledApps \ {b}
    BY <2>4, <2>5 DEF InstalledApps, Installed
  <2>7. LinksAgree'
    <3> SUFFICES ASSUME NEW a \in InstalledApps', a \notin unlinked
                 PROVE  link'[a] = version'[a]
      BY <2>2 DEF LinksAgree
    <3>1. a \in Apps \ {b} /\ a \in InstalledApps
      BY <2>6 DEF InstalledApps
    <3> QED BY <2>2, <2>5, <3>1 DEF Records, LinksAgree, Settled, Fresh
  <2>8. ASSUME ~spoiled' PROVE DiskGood'
    <3>1. DiskGood
      BY <2>2, <2>8 DEF Records
    <3>2. Bounded'
      BY <1>t, <2>2, <2>4, <2>5, <3>1 DEF DiskGood, Bounded, None, TypeOK, Releases
    <3>3. RecordGood'
      <4> SUFFICES ASSUME NEW a \in Apps, NEW v \in Releases,
                          v \in {version'[a], saved.version[a]}, Unsure(a, v)'
                   PROVE  Oldest(a, v)'
        BY <2>2 DEF RecordGood
      <4>1. CASE a = b
        BY <2>4, <4>1 DEF Oldest
      <4>2. CASE a # b
        BY <2>2, <2>5, <3>1, <4>2 DEF DiskGood, RecordGood, Unsure, Oldest
      <4> QED BY <4>1, <4>2
    <3>4. OffersGood'
      <4> SUFFICES ASSUME NEW a \in InstalledApps'
                   PROVE  /\ avail'[a] \subseteq images'[a]
                          /\ \A v \in avail'[a] : v \in corrupt'[a] => Oldest(a, v)'
        BY DEF OffersGood
      <4>1. a \in Apps \ {b} /\ a \in InstalledApps
        BY <2>6 DEF InstalledApps
      <4>2. /\ avail[a] \subseteq images[a]
            /\ \A v \in avail[a] : v \in corrupt[a] => Oldest(a, v)
        BY <2>2, <3>1, <4>1 DEF DiskGood, OffersGood, Settled, Fresh
      <4> QED BY <2>5, <4>1, <4>2 DEF Oldest
    <3> QED BY <2>2, <3>2, <3>3, <3>4 DEF DiskGood, Cleaned, NewestListed
  <2> QED BY <2>2, <2>7, <2>8 DEF Records, JobNewer, JobOnDisk
<1>4. CASE OtherSave
  <2>1. saved' = Now /\ UNCHANGED <<pc, job, todo, got>>
    BY <1>4 DEF OtherSave
  <2>2. Fresh' = Fresh
    BY <2>1 DEF Fresh
  <2> QED BY <1>4, <2>1, <2>2, Steady DEF OtherSave
<1>5. CASE DaemonRestart
  BY <1>5, <1>b DEF DaemonRestart
<1>6. CASE Reboot \/ UserReboot \/ PowerLoss
  BY <1>6, <1>b DEF Reboot, UserReboot, PowerLoss, GoDown, BootFrom
<1>7. CASE Corrupt
  <2>1. spoiled' /\ UNCHANGED <<images, link, version, pc, got, job, unlinked>>
    BY <1>7 DEF Corrupt
  <2> QED
    BY <2>1 DEF Records, JobNewer, JobOnDisk, LinksAgree, InstalledApps, Installed, Fresh
<1>8. CASE Publish
  <2>1. /\ published \in Nat /\ published' = published + 1
        /\ UNCHANGED <<images, corrupt, link, version, avail, saved, pc, got, todo, job,
                       spoiled, unlinked>>
    BY <1>8, <1>t DEF Publish, TypeOK, Releases
  <2>2. InstalledApps' = InstalledApps /\ Fresh' = Fresh
    BY <2>1 DEF InstalledApps, Installed, Fresh
  <2>3. JobNewer' /\ JobOnDisk' /\ LinksAgree'
    BY <2>1, <2>2 DEF Records, JobNewer, JobOnDisk, LinksAgree
  <2>4. ASSUME ~spoiled' PROVE DiskGood'
    <3>1. DiskGood
      BY <2>1, <2>4 DEF Records
    <3>2. \A a \in Apps : /\ images[a] \subseteq Nat /\ version[a] \in Nat
                          /\ saved.version[a] \in Nat
      BY <1>t DEF TypeOK, Releases, None
    <3>3. Bounded'
      BY <2>1, <3>1, <3>2 DEF DiskGood, Bounded
    <3>4. RecordGood'
      <4> SUFFICES ASSUME NEW a \in Apps, NEW v \in Releases,
                          v \in {version[a], saved.version[a]}, Unsure(a, v)'
                   PROVE  Oldest(a, v)
        BY <2>1 DEF RecordGood, Oldest
      <4>1. v <= published
        BY <3>1 DEF DiskGood, Bounded
      <4>2. v # published'
        BY <2>1, <4>1 DEF Releases
      <4>3. Unsure(a, v)
        BY <2>1, <4>2 DEF Unsure
      <4> QED BY <3>1, <4>3 DEF DiskGood, RecordGood
    <3>5. NewestListed'
      <4>1. \A a \in Apps : published' \notin images[a]
        BY <2>1, <3>1, <3>2 DEF DiskGood, Bounded
      <4> QED BY <1>t, <2>1, <4>1 DEF NewestListed, TypeOK
    <3>6. Cleaned' /\ OffersGood'
      BY <2>1, <2>2, <3>1 DEF DiskGood, Cleaned, OffersGood, Oldest
    <3> QED BY <3>3, <3>4, <3>5, <3>6 DEF DiskGood
  <2> QED BY <2>3, <2>4 DEF Records
<1> QED BY <1>1, <1>2, <1>3, <1>4, <1>5, <1>6, <1>7, <1>8 DEF Request

\* Every step keeps the records right.
LEMMA StepRecords == ASSUME Inv, Records, [Next]_vars PROVE Records'
<1>1. CASE Next
  BY <1>1, RefreshRecords, CheckRecords, OutsideRecords DEF Next
<1>2. CASE UNCHANGED vars
  <2>1. Fresh' = Fresh
    BY <1>2 DEF vars, Fresh
  <2> QED BY <1>2, <2>1, Steady DEF vars
<1> QED BY <1>1, <1>2

\* A step that lowers a version is one of those that may.
LEMMA StepVersions ==
    ASSUME Inv, Records, [Next]_vars, NEW a \in Apps,
           version'[a] # None, version'[a] < version[a]
    PROVE  \/ pc = "idle" /\ phase' = "switch"
           \/ phase' = "boot" /\ pc' = "refresh"
           \/ prior > running
<1> USE DEF disk, os, boot, history
<1>0. /\ version[a] \in Nat /\ images[a] \in SUBSET Releases
      /\ job.app \in Apps /\ prior \in Nat /\ running \in Nat
  BY DEF Inv, TypeOK, Releases, None
<1>1. CASE UNCHANGED version
  BY <1>0, <1>1
<1>2. CASE Relink
  <2>1. a \in todo /\ version'[a] = BestVersion(a)
    BY <1>0, <1>2 DEF Relink
  <2>2. version[a] \in images[a]
    BY <1>2, <2>1 DEF Relink, Inv, RefreshApps
  <2>3. version[a] <= Newest(images[a])
    BY <1>0, <2>2, NewestIn
  <2>4. Newest(images[a]) \in Nat
    BY <1>0, <2>2, NewestIn DEF Releases
  <2> QED BY <1>0, <2>1, <2>3, <2>4 DEF BestVersion
<1>3. CASE FetchEnd \/ NotifyFault
  <2>1. pc = "fetch" /\ Recorded(job.app, job.version)
    BY <1>3 DEF FetchEnd, NotifyFault
  <2>2. job.version > version[job.app] /\ job.version \in Nat
    BY <2>1 DEF Records, JobNewer, Inv, TypeOK, Releases, None
  <2>3. version'[a] \in {version[a]} \/ (a = job.app /\ version'[a] = job.version)
    BY <2>1 DEF Recorded, Inv, TypeOK
  <2> QED BY <1>0, <2>2, <2>3
<1>4. CASE UserSwitch
  BY <1>4 DEF UserSwitch
<1>5. CASE UserRemove
  <2>1. version'[a] \in {None, version[a]}
    BY <1>5 DEF UserRemove, Inv, TypeOK
  <2> QED BY <1>0, <2>1
<1>6. CASE DaemonRestart \/ Reboot \/ UserReboot \/ PowerLoss
  BY <1>6 DEF DaemonRestart, Reboot, UserReboot, PowerLoss, GoDown, BootFrom, StartFrom
<1>7. CASE RefreshNothing \/ Unlink \/ Activate \/ RemoveCorruptSysext \/ RefreshFault
           \/ CheckBegin \/ Plan \/ PickNothing \/ PickUpdate \/ PickDone \/ StageOS \/ Start
  BY <1>1, <1>7 DEF RefreshNothing, Unlink, Activate, RemoveCorruptSysext, RefreshFault,
     CheckBegin, Plan, PickNothing, PickUpdate, PickDone, StageOS, Start
<1>8. CASE FetchFault \/ OSCurrent \/ UserInstall \/ UserUpdate \/ OtherSave \/ Corrupt \/ Publish
  BY <1>1, <1>8 DEF FetchFault, OSCurrent, UserInstall, UserUpdate, OtherSave, Corrupt, Publish
<1>9. CASE UNCHANGED vars
  BY <1>1, <1>9 DEF vars
<1> QED
  BY <1>2, <1>3, <1>4, <1>5, <1>6, <1>7, <1>8, <1>9 DEF Next, Refresh, Check, Request

-----------------------------------------------------------------------------
\* In every reachable state the variables have their types: versions that are
\* recorded, offered or linked are releases, however startup, checks, requests
\* and power losses interleave.
THEOREM TypeCorrect == Spec => []TypeOK
<1>1. Inv => TypeOK
  BY DEF Inv
<1> QED BY <1>1, InitInv, StepInv, PTL DEF Spec

\* The image an OS release needs after a roll back is never removed while that
\* release can be booted (RefreshExtensions, removeStaleSysextImages).
THEOREM FallbackKept == Spec => []FallbackImageKept
<1>1. Inv => FallbackImageKept
  BY DEF Inv
<1> QED BY <1>1, InitInv, StepInv, PTL DEF Spec

\* After a roll back, startup puts every application back at the version of the
\* release that runs, if it has it (bestApplicationVersion).
THEOREM RollbackIsRestored == Spec => []RollbackRestores
<1>1. Inv => RollbackRestores
  BY DEF Inv
<1> QED BY <1>1, InitInv, StepInv, PTL DEF Spec

\* Between operations, every version offered for a switch is on disk and the image in use is
\* the one of the recorded version, but for the exceptions RecordsMatchDisk names
\* (RefreshExtensions, applyUpdate, SwitchVersion).
THEOREM RecordsAgree == Spec => []RecordsMatchDisk
<1>1. Records => RecordsMatchDisk
  BY DEF Records, DiskGood, OffersGood, LinksAgree, RecordsMatchDisk, AvailableOnDisk,
     LinkMatchesVersion, Settled, Fresh
<1> QED BY <1>1, InitInv, StepInv, InitRecords, StepRecords, PTL DEF Spec

\* No step moves an application to an older version but a switch, a restart with an older
\* state and a refresh after an older OS release was booted (bestApplicationVersion,
\* applyUpdate).
THEOREM DowngradesAreChosen == Spec => NoSilentDowngrade
<1> DEFINE Chosen ==
      \A a \in Apps :
        version'[a] # None /\ version'[a] < version[a] =>
            \/ pc = "idle" /\ phase' = "switch"
            \/ phase' = "boot" /\ pc' = "refresh"
            \/ prior > running
<1>1. Inv /\ Records /\ [Next]_vars => [Chosen]_vars
  BY StepVersions
<1> QED
  BY <1>1, InitInv, StepInv, InitRecords, StepRecords, PTL DEF Spec, NoSilentDowngrade
=============================================================================
