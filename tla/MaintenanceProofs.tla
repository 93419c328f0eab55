-------------------------- MODULE MaintenanceProofs --------------------------
(***************************************************************************)
(* Proofs about FactoryReset and Backup, the two operations that replace   *)
(* what the daemon keeps on disk, about StateFile, the file every other    *)
(* one changes, and about Services, which record their configuration in    *)
(* it: for every set of seeds, volumes and images, every seedArchive a user    *)
(* may have and every number of revisions, requests and power losses.      *)
(***************************************************************************)
EXTENDS FactoryReset, Backup, StateFile, Services, TLAPS, FiniteSetTheorems

-----------------------------------------------------------------------------
(* Factory reset.                                                          *)

\* What is left to delete, and the partitions that may still be there then.
Lefts == {<<9, 10, 11>>, <<10, 11>>, <<11>>, <<>>}

SeedSet == [name : SeedNames \cup {"network"}, ext : Extensions, from : Torn .. MaxResets]
ArchiveStates == {"whole", "partial", "unreadable"}

ResetTypes ==
    /\ seedFiles \in SUBSET SeedSet /\ seedArchive \in ArchiveStates /\ seedsMixed \in BOOLEAN
    /\ tpmCleared \in BOOLEAN
    /\ partitions \subseteq {9, 10, 11}
    /\ reset \in [at : {"idle", "read", "write", "tpm", "partitions", "sysrq"},
                  given : SUBSET SeedNames, wipe : BOOLEAN, allow : BOOLEAN, left : Lefts,
                  new : SUBSET SeedSet, old : SUBSET SeedSet, mixed : BOOLEAN]
    /\ resets \in 0 .. MaxResets

\* One complete file for each name.
Clean(files) == \A f, g \in files : f.from # Torn /\ (f.name = g.name => f = g)

\* The seeds of the request are there, and nothing else of their names.
Given(files) == \A n \in reset.given : {f \in files : f.name = n} = {SeedFile(n, ".json", resets)}

\* The archive is complete, with the seeds of the request, before the TPM is cleared; an
\* archive that was never partial, and what is merged from it, has one file for each name.
SeedsFirst ==
    /\ seedArchive = "whole" /\ ~seedsMixed => Clean(seedFiles)
    /\ reset.at = "write" => Given(reset.new) /\ (~reset.mixed => Clean(reset.new))
    /\ reset.at \in {"tpm", "partitions", "sysrq"} => seedArchive = "whole" /\ Given(seedFiles)

\* sgdisk deletes in order and fails for a partition that is gone, so that the last
\* partition is deleted by a reset that deleted all of them.
LastDeletedLast ==
    /\ reset.at \in {"read", "write", "tpm"} => reset.left = SystemPartitions
    /\ reset.at = "partitions" =>
          /\ reset.left # <<9, 10, 11>> => 9 \notin partitions
          /\ reset.left \in {<<11>>, <<>>} => 10 \notin partitions
          /\ reset.left = <<>> => 11 \notin partitions
    /\ reset.at = "sysrq" => partitions = {}
    /\ 11 \notin partitions => reset.at = "sysrq" \/ (reset.at = "partitions" /\ reset.left = <<>>)

ResetInv == ResetTypes /\ SeedsFirst /\ LastDeletedLast

LEMMA ResetInvInit == ASSUME ResetInit PROVE ResetInv
<1> USE DEF ResetInit, NoReset
<1>1. ResetTypes
  <2>1. seedFiles \in SUBSET SeedSet
    BY ResetAssumption DEF SeedFile, Extensions, SeedSet, Torn
  <2>2. reset \in [at : {"idle", "read", "write", "tpm", "partitions", "sysrq"},
                   given : SUBSET SeedNames, wipe : BOOLEAN, allow : BOOLEAN, left : Lefts,
                   new : SUBSET SeedSet, old : SUBSET SeedSet, mixed : BOOLEAN]
    BY DEF Lefts
  <2>3. resets \in 0 .. MaxResets
    BY ResetAssumption
  <2> QED BY <2>1, <2>2, <2>3 DEF ResetTypes, ArchiveStates
<1>2. SeedsFirst
  BY DEF SeedsFirst, SeedFile, Clean, Torn
<1>3. LastDeletedLast
  BY DEF LastDeletedLast
<1> QED BY <1>1, <1>2, <1>3 DEF ResetInv

\* What MergedSeeds makes of the files of a request that was just made.
LEMMA MergedSeedsGiven ==
    ASSUME ResetTypes, NEW existing \in SUBSET SeedSet
    PROVE  LET merged == MergedSeeds(existing, reset.given, resets)
           IN  /\ merged \in SUBSET SeedSet
               /\ Given(merged)
               /\ Clean(existing) => Clean(merged)
<1> USE DEF ResetTypes, MergedSeeds, SeedFile, SeedSet, Torn
<1>1. MergedSeeds(existing, reset.given, resets) \in SUBSET SeedSet
  BY ResetAssumption DEF Extensions
<1>2. Given(MergedSeeds(existing, reset.given, resets))
  BY DEF Given
<1>3. Clean(existing) => Clean(MergedSeeds(existing, reset.given, resets))
  BY ResetAssumption DEF Clean
<1> QED BY <1>1, <1>2, <1>3

\* An archive that was not finished holds files, and is not whole.
LEMMA HalfWrittenFiles ==
    ASSUME NEW new \in SUBSET SeedSet, NEW was \in SUBSET SeedSet, HalfWritten(new, was)
    PROVE  seedFiles' \in SUBSET SeedSet /\ seedArchive' \in ArchiveStates \ {"whole"}
<1>1. Mixes(new, was) \subseteq SUBSET SeedSet
  <2>1. \A f \in new : [f EXCEPT !.from = Torn] \in SeedSet
    BY ResetAssumption DEF SeedSet, Torn
  <2> QED BY <2>1 DEF Mixes
<1> QED BY <1>1 DEF HalfWritten, ArchiveStates

\* A reset that ends with an error, or with the power, leaves nothing to be promised.
LEMMA ResetEndsInv ==
    ASSUME ResetInv, ResetEnds, seedFiles' \in SUBSET SeedSet, seedArchive' \in ArchiveStates, seedsMixed' \in BOOLEAN,
           seedArchive' = "whole" => UNCHANGED <<seedFiles, seedArchive, seedsMixed>>,
           tpmCleared' \in BOOLEAN, partitions' \subseteq {9, 10, 11}, 11 \in partitions', UNCHANGED resets
    PROVE  ResetInv'
<1> USE DEF ResetInv, ResetEnds, NoReset
<1>1. <<>> \in Lefts
  BY DEF Lefts
<1>2. ResetTypes'
  BY <1>1 DEF ResetTypes
<1>3. SeedsFirst'
  BY DEF SeedsFirst, Clean
<1>4. LastDeletedLast'
  BY DEF LastDeletedLast
<1> QED BY <1>2, <1>3, <1>4

LEMMA ResetInvNext == ASSUME ResetInv, [ResetNext]_resetVars PROVE ResetInv'
<1> USE DEF ResetInv, ResetAt, ResetGo, ResetEnds, NoReset
<1>1. ASSUME NEW given \in SUBSET SeedNames, NEW wipe \in BOOLEAN, NEW allow \in BOOLEAN,
             ApiSystemFactoryReset(given, wipe, allow)
      PROVE  ResetInv'
  <2> USE <1>1, ResetAssumption DEF ApiSystemFactoryReset, SystemPartitions
  <2>1. /\ reset' = [at |-> "read", given |-> given, wipe |-> wipe, allow |-> allow,
                     left |-> SystemPartitions, new |-> {}, old |-> {}, mixed |-> FALSE]
    OBVIOUS
  <2>5. resets' \in 0 .. MaxResets
    BY DEF ResetTypes
  <2>2. ResetTypes'
    BY <2>1, <2>5 DEF ResetTypes, Lefts
  <2>3. SeedsFirst'
    BY <2>1 DEF SeedsFirst, Clean
  <2>4. LastDeletedLast'
    BY <2>1 DEF LastDeletedLast
  <2> QED BY <2>2, <2>3, <2>4
<1>2. CASE ResetOpenSeed
  <2>1. CASE ~reset.wipe /\ seedArchive = "unreadable"
    BY <1>2, <2>1, ResetEndsInv DEF ResetOpenSeed, ResetTypes, LastDeletedLast
  <2>2. CASE ~(~reset.wipe /\ seedArchive = "unreadable")
    <3> DEFINE existing == IF reset.wipe THEN {} ELSE seedFiles
               merged == MergedSeeds(existing, reset.given, resets)
               before == ~reset.wipe /\ (seedsMixed \/ seedArchive = "partial")
    <3>1. existing \in SUBSET SeedSet
      BY DEF ResetTypes
    <3>2. merged \in SUBSET SeedSet /\ Given(merged) /\ (Clean(existing) => Clean(merged))
      BY <3>1, MergedSeedsGiven
    <3>3. ~before => Clean(existing)
      BY <2>2 DEF ResetTypes, ArchiveStates, SeedsFirst, Clean
    <3>4. before \in BOOLEAN
      OBVIOUS
    <3>5. reset' = [reset EXCEPT !.at = "write", !.old = seedFiles, !.new = merged, !.mixed = before]
      BY <1>2, <2>2 DEF ResetOpenSeed
    <3>6. UNCHANGED <<seedFiles, seedArchive, seedsMixed, tpmCleared, partitions, resets>> /\ reset.at = "read"
      BY <1>2 DEF ResetOpenSeed
    <3> HIDE DEF existing, merged, before
    <3>7. ResetTypes'
      BY <3>2, <3>4, <3>5, <3>6 DEF ResetTypes
    <3>8. SeedsFirst'
      <4>1. /\ reset'.at = "write" /\ reset'.new = merged /\ reset'.mixed = before
            /\ reset'.given = reset.given
        BY <3>5 DEF ResetTypes
      <4>2. Given(reset.new)' /\ (~reset'.mixed => Clean(reset'.new))
        BY <3>2, <3>3, <3>6, <4>1 DEF Given
      <4>3. (seedArchive = "whole" /\ ~seedsMixed => Clean(seedFiles))'
        BY <3>6 DEF SeedsFirst, Clean
      <4> QED BY <4>1, <4>2, <4>3 DEF SeedsFirst, Clean
    <3>9. LastDeletedLast'
      BY <3>5, <3>6 DEF LastDeletedLast, ResetTypes
    <3> QED BY <3>7, <3>8, <3>9
  <2> QED BY <2>1, <2>2
<1>3. CASE ResetWriteSeed
  <2> USE <1>3 DEF ResetWriteSeed
  <2>1. CASE ResetEnds /\ UNCHANGED <<seedFiles, seedArchive, seedsMixed>>
    BY <2>1, ResetEndsInv DEF ResetTypes, LastDeletedLast
  <2>2. CASE HalfWritten(reset.new, reset.old) /\ ResetEnds /\ UNCHANGED seedsMixed
    <3>1. seedFiles' \in SUBSET SeedSet /\ seedArchive' \in ArchiveStates \ {"whole"}
      BY <2>2, HalfWrittenFiles DEF ResetTypes
    <3> QED BY <2>2, <3>1, ResetEndsInv DEF ResetTypes, LastDeletedLast
  <2>3. CASE seedFiles' = reset.new /\ seedArchive' = "whole" /\ seedsMixed' = reset.mixed /\ ResetGo("tpm")
    <3>1. ResetTypes'
      BY <2>3 DEF ResetTypes, ArchiveStates
    <3>2. SeedsFirst'
      BY <2>3 DEF ResetTypes, SeedsFirst, Given, Clean
    <3>3. LastDeletedLast'
      BY <2>3 DEF LastDeletedLast, ResetTypes
    <3> QED BY <3>1, <3>2, <3>3
  <2> QED BY <2>1, <2>2, <2>3
<1>4. CASE ResetClearTPM
  <2>1. CASE ResetEnds /\ UNCHANGED tpmCleared
    BY <1>4, <2>1, ResetEndsInv DEF ResetClearTPM, ResetTypes, LastDeletedLast
  <2>2. CASE ResetGo("partitions") /\ tpmCleared' \in BOOLEAN
    <3>1. UNCHANGED <<seedFiles, seedArchive, seedsMixed, partitions, resets>> /\ reset.at = "tpm"
      BY <1>4 DEF ResetClearTPM
    <3>2. ResetTypes'
      BY <2>2, <3>1 DEF ResetTypes
    <3>3. SeedsFirst'
      BY <2>2, <3>1 DEF ResetTypes, SeedsFirst, Given, Clean
    <3>4. LastDeletedLast'
      <4>1. reset'.at = "partitions" /\ reset'.left = <<9, 10, 11>> /\ 11 \in partitions
        BY <2>2, <3>1 DEF ResetTypes, LastDeletedLast, SystemPartitions
      <4> QED BY <3>1, <4>1 DEF LastDeletedLast
    <3> QED BY <3>2, <3>3, <3>4
  <2> QED BY <1>4, <2>1, <2>2 DEF ResetClearTPM, ResetTypes
<1>5. CASE ResetDeletePartition
  <2> USE <1>5 DEF ResetDeletePartition
  <2>1. CASE reset.left = <<>>
    <3>1. ResetTypes'
      BY <2>1 DEF ResetTypes
    <3>2. SeedsFirst'
      BY <2>1 DEF ResetTypes, SeedsFirst, Given, Clean
    <3>3. LastDeletedLast'
      BY <2>1 DEF ResetTypes, LastDeletedLast
    <3> QED BY <3>1, <3>2, <3>3
  <2>2. CASE reset.left # <<>> /\ ResetEnds /\ UNCHANGED partitions
    BY <2>2, ResetEndsInv DEF ResetTypes, LastDeletedLast
  <2>3. CASE /\ reset.left # <<>> /\ Head(reset.left) \in partitions
             /\ partitions' = partitions \ {Head(reset.left)}
             /\ reset' = [reset EXCEPT !.left = Tail(@)]
    <3>1. Tail(reset.left) \in Lefts
      <4>1. CASE reset.left = <<9, 10, 11>>
        BY <4>1, Tail(<<9, 10, 11>>) = <<10, 11>> DEF Lefts
      <4>2. CASE reset.left = <<10, 11>>
        BY <4>2, Tail(<<10, 11>>) = <<11>> DEF Lefts
      <4>3. CASE reset.left = <<11>>
        BY <4>3, Tail(<<11>>) = <<>> DEF Lefts
      <4> QED BY <4>1, <4>2, <4>3, <2>3 DEF ResetTypes, Lefts
    <3>2. ResetTypes'
      BY <2>3, <3>1 DEF ResetTypes
    <3>3. SeedsFirst'
      BY <2>3 DEF SeedsFirst, ResetTypes, Given, Clean
    <3>4. LastDeletedLast'
      <4>1. CASE reset.left = <<9, 10, 11>>
        BY <4>1, <2>3 DEF LastDeletedLast, ResetTypes
      <4>2. CASE reset.left = <<10, 11>>
        BY <4>2, <2>3 DEF LastDeletedLast, ResetTypes
      <4>3. CASE reset.left = <<11>>
        BY <4>3, <2>3 DEF LastDeletedLast, ResetTypes
      <4> QED BY <4>1, <4>2, <4>3, <2>3 DEF ResetTypes, Lefts
    <3> QED BY <3>2, <3>3, <3>4
  <2> QED BY <2>1, <2>2, <2>3
<1>6. CASE ResetBoot
  <2>1. /\ seedFiles' \in SUBSET SeedSet /\ seedArchive' \in ArchiveStates
        /\ seedArchive' = "whole" => UNCHANGED <<seedFiles, seedArchive, seedsMixed>>
    <3>1. CASE HalfWritten(reset.new, reset.old)
      BY <3>1, HalfWrittenFiles DEF ResetTypes
    <3>2. CASE UNCHANGED <<seedFiles, seedArchive>>
      BY <1>6, <3>2 DEF ResetTypes, ResetBoot
    <3> QED BY <1>6, <3>1, <3>2 DEF ResetBoot
  <2>2. ResetEnds /\ UNCHANGED <<seedsMixed, resets>>
    BY <1>6 DEF ResetBoot
  <2>3. CASE partitions = {}
    BY <1>6, <2>1, <2>2, <2>3, ResetEndsInv DEF ResetBoot, ResetTypes
  <2>4. CASE partitions # {}
    <3>1. 11 \in partitions
      <4> SUFFICES ASSUME 11 \notin partitions PROVE FALSE
        OBVIOUS
      <4>1. CASE reset.at = "sysrq"
        BY <4>1, <2>4 DEF LastDeletedLast
      <4>2. CASE reset.at = "partitions" /\ reset.left = <<>>
        <5>1. <<>> # <<9, 10, 11>>
          OBVIOUS
        <5>2. 9 \notin partitions /\ 10 \notin partitions
          BY <4>2, <5>1 DEF LastDeletedLast
        <5> QED BY <5>2, <2>4 DEF ResetTypes
      <4> QED BY <4>1, <4>2 DEF LastDeletedLast
    <3> QED BY <1>6, <2>1, <2>2, <2>4, <3>1, ResetEndsInv DEF ResetBoot, ResetTypes
  <2> QED BY <2>3, <2>4
<1>7. CASE UNCHANGED resetVars
  BY <1>7 DEF resetVars, ResetTypes, SeedsFirst, LastDeletedLast, Given, Clean
<1> QED BY <1>1, <1>2, <1>3, <1>4, <1>5, <1>6, <1>7 DEF ResetNext

\* A system that lost all of its partitions has a complete seed partition, with the seeds of
\* the request and one complete file for each other one unless it was kept from a partial
\* archive, whatever failed or was cut off before (PerformOSFactoryReset).
THEOREM ResetIsSeeded == ResetSpec => []ResetSeeded
<1>1. ASSUME ResetInv PROVE ResetSeeded
  <2>1. CASE partitions = {}
    <3>1. seedArchive = "whole" /\ Given(seedFiles)
      BY <1>1, <2>1 DEF ResetInv, SeedsFirst, LastDeletedLast
    <3>2. ~seedsMixed => Clean(seedFiles)
      BY <1>1, <3>1 DEF ResetInv, SeedsFirst
    <3> QED BY <3>1, <3>2 DEF ResetSeeded, Given, Clean
  <2> QED BY <2>1 DEF ResetSeeded
<1> QED BY <1>1, ResetInvInit, ResetInvNext, PTL DEF ResetSpec

-----------------------------------------------------------------------------
(* Restore.                                                                *)

DirectoryFiles == {"unlock", "state", "local"}
RestoreSteps == {"idle", "extract", "check", "uninstall", "install", "copy", "wipe", "enrol",
                 "names", "remove", "reboot", "revert", "putback"}

RestoreType ==
    [at : RestoreSteps, from : Directories, skip : SUBSET SkipNames, files : Seq(DirectoryFiles),
     new : SavedStates \cup {NoState}, vols : SUBSET Volumes]

\* The directory is missing while the reverter runs, and the backup is there while a restore
\* may still be undone.
BackupTypes ==
    /\ dir \in Directories \cup {Missing} /\ bak \in Directories \cup {Missing}
    /\ held \in SavedStates /\ archive \in Directories
    /\ slotKeys \in [Volumes -> SUBSET RecoveryKeys]
    /\ restore \in RestoreType
    /\ faithful \in BOOLEAN
    /\ restore.at # "putback" => dir \in Directories
    /\ restore.at \notin {"idle", "reboot"} => bak \in Directories
    /\ restore.at \in {"uninstall", "install", "copy", "wipe", "enrol"} => restore.new \in SavedStates

\* While nothing went wrong the volumes have the keys the daemon lists, but for a restore that
\* replaces them; the state that the next start reads lists the keys the daemon does.
KeysFollow ==
    /\ faithful /\ restore.at \in {"idle", "extract", "check", "uninstall", "install", "copy", "reboot"} =>
          \A v \in Volumes : slotKeys[v] = held.keys
    /\ faithful /\ restore.at = "idle" => dir.state.keys = held.keys
    /\ restore.at \in {"revert", "putback"} => ~faithful

\* How the recovery keys of the volumes become those of the archive, whatever went wrong before
\* this restore: there is one, each volume loses what it has, then each gets every key.
KeysReplaced ==
    /\ restore.at \in {"uninstall", "install", "copy", "wipe", "enrol"} => restore.new.keys # {}
    /\ restore.at \in {"wipe", "enrol"} => "encryption-recovery-keys" \notin restore.skip
    /\ restore.at = "wipe" => \A v \in Volumes \ restore.vols : slotKeys[v] = {}
    /\ restore.at = "enrol" => dir.unlock = Ours /\ \A v \in Volumes : slotKeys[v] = held.keys
    /\ restore.at \in {"names", "remove", "reboot"} /\ "encryption-recovery-keys" \notin restore.skip =>
          dir.unlock = Ours /\ held.keys # {} /\ \A v \in Volumes : slotKeys[v] = held.keys

\* From when the system matches the new state nothing is kept of the old directory.
MadeUpFor == restore.at \in {"remove", "reboot"} => old = Missing

BackupInv == BackupTypes /\ KeysFollow /\ KeysReplaced /\ MadeUpFor /\ OldDirectoryKept

LEMMA BackupInvInit == ASSUME BackupInit PROVE BackupInv
<1> DEFINE state == [conf |-> 1, macs |-> TRUE, apps |-> {"incus"}, keys |-> {"k1"}]
<1>1. dir = Dir(state, Ours, Ours) /\ held = state /\ archive = dir
  BY DEF BackupInit
<1>6. state \in SavedStates
  BY DEF SavedStates, RecoveryKeys, SupportedApps
<1>2. dir \in Directories /\ dir.state.keys = held.keys
  <2> HIDE DEF state
  <2>1. dir \in Directories /\ dir.state = state
    BY <1>1, <1>6 DEF Directories, Dir, Ours
  <2> QED BY <1>1, <2>1
<1>3. Empty \in Directories
  BY DEF Empty, Directories, Dir
<1>4. BackupTypes
  <2>1. slotKeys \in [Volumes -> SUBSET RecoveryKeys] /\ faithful \in BOOLEAN /\ bak = Missing
    BY DEF BackupInit, RecoveryKeys
  <2>2. restore = NoRestore
    BY DEF BackupInit
  <2> HIDE DEF state
  <2> QED BY <1>1, <1>2, <1>3, <1>6, <2>1, <2>2 DEF BackupTypes, NoRestore, RestoreType, RestoreSteps
<1>5. KeysFollow /\ KeysReplaced /\ MadeUpFor /\ OldDirectoryKept
  BY <1>1, <1>2 DEF KeysFollow, KeysReplaced, MadeUpFor, OldDirectoryKept, BackupInit, NoRestore
<1> QED BY <1>4, <1>5 DEF BackupInv

\* Every error starts the reverter, and promises nothing of the recovery keys.
LEMMA RestoreFailsInv ==
    ASSUME BackupInv, RestoreFails, ~RestoreAt("idle"), ~RestoreAt("reboot"), ~RestoreAt("putback"),
           dir' \in Directories, held' \in SavedStates, slotKeys' \in [Volumes -> SUBSET RecoveryKeys],
           bak' \in Directories, old = Missing \/ UNCHANGED bak, UNCHANGED <<archive, old>>
    PROVE  BackupInv'
<1> USE DEF BackupInv, RestoreFails, RestoreGo, RestoreAt
<1>1. BackupTypes'
  BY DEF BackupTypes, RestoreType, RestoreSteps
<1>2. KeysFollow'
  BY DEF KeysFollow, BackupTypes
<1>3. KeysReplaced' /\ MadeUpFor'
  BY DEF KeysReplaced, MadeUpFor, BackupTypes, RestoreType
<1>4. OldDirectoryKept'
  BY DEF OldDirectoryKept
<1> QED BY <1>1, <1>2, <1>3, <1>4

\* A partial removal leaves files of the directory.
LEMMA PartsAreDirectories == ASSUME NEW d \in Directories PROVE Parts(d) \subseteq Directories
BY DEF Parts, Directories, Dir

LEMMA BackupInvNext == ASSUME BackupInv, [BackupNext]_backupVars PROVE BackupInv'
<1> USE DEF BackupInv, RestoreAt, RestoreGo
<1>1. CASE GetOSBackup
  BY <1>1 DEF GetOSBackup, BackupTypes, KeysFollow, KeysReplaced, MadeUpFor, OldDirectoryKept, Directories
<1>2. CASE ChangeConfig
  <2>1. held' \in SavedStates /\ held'.keys = held.keys
    <3>1. held \in SavedStates /\ held' = [held EXCEPT !.conf = @ + 1, !.macs = TRUE] /\ held.conf < 2
      BY <1>2 DEF ChangeConfig, BackupTypes
    <3>2. held.conf + 1 \in 0 .. 3
      BY <3>1 DEF SavedStates
    <3> QED BY <3>1, <3>2 DEF SavedStates
  <2> QED BY <1>2, <2>1 DEF ChangeConfig, BackupTypes, KeysFollow, KeysReplaced, MadeUpFor, OldDirectoryKept, Directories
<1>3. CASE EnrolKey("k2")
  <2>1. held' \in SavedStates /\ held'.keys = held.keys \cup {"k2"}
    BY <1>3 DEF EnrolKey, BackupTypes, SavedStates, RecoveryKeys
  <2>2. slotKeys' \in [Volumes -> SUBSET RecoveryKeys]
    BY <1>3 DEF EnrolKey, BackupTypes, RecoveryKeys
  <2> QED BY <1>3, <2>1, <2>2 DEF EnrolKey, BackupTypes, KeysFollow, KeysReplaced, MadeUpFor, OldDirectoryKept, Directories
<1>4. ASSUME NEW skip \in Skips, NEW from \in OtherArchives \cup {archive}, ApplyOSBackup(from, skip)
      PROVE  BackupInv'
  <2>1. CASE bak \notin {Missing, Empty}
    BY <1>4, <2>1 DEF ApplyOSBackup, BackupTypes, KeysFollow, KeysReplaced, MadeUpFor, OldDirectoryKept
  <2>2. CASE bak \in {Missing, Empty}
    <3>1. from \in Directories /\ skip \in SUBSET SkipNames
      BY ArchiveAssumption DEF BackupTypes
    <3>2. Empty \in Directories
      BY DEF Empty, Directories, Dir
    <3>3. restore' = [NoRestore EXCEPT !.at = "extract", !.from = from, !.skip = skip, !.files = <<"unlock", "state", "local">>]
      BY <1>4, <2>2 DEF ApplyOSBackup
    <3>4. BackupTypes'
      <4>1. dir \in Directories
        BY <1>4 DEF ApplyOSBackup, BackupTypes
      <4>2. <<"unlock", "state", "local">> \in Seq(DirectoryFiles)
        BY DEF DirectoryFiles
      <4>3. /\ restore' \in RestoreType
            /\ restore'.at = "extract"
        BY <3>1, <3>3, <4>2 DEF NoRestore, RestoreType, RestoreSteps
      <4>4. bak' = dir /\ dir' = Empty /\ UNCHANGED <<held, slotKeys, archive, faithful>>
        BY <1>4, <2>2 DEF ApplyOSBackup
      <4> QED BY <3>2, <4>1, <4>3, <4>4 DEF BackupTypes
    <3>5. KeysFollow' /\ KeysReplaced' /\ MadeUpFor'
      BY <1>4, <2>2, <3>3 DEF ApplyOSBackup, KeysFollow, KeysReplaced, MadeUpFor, NoRestore
    <3>6. OldDirectoryKept'
      BY <1>4, <2>2 DEF ApplyOSBackup, OldDirectoryKept
    <3> QED BY <3>4, <3>5, <3>6
  <2> QED BY <2>1, <2>2
<1>5. CASE RestoreExtract
  <2>1. CASE RestoreFails /\ UNCHANGED dir
    BY <1>5, <2>1, RestoreFailsInv DEF RestoreExtract, BackupTypes
  <2>2. CASE ~(RestoreFails /\ UNCHANGED dir)
    <3>1. dir' \in Directories
      <4> DEFINE retained == "local-data-encryption-key" \in restore.skip /\ restore.from.local # 0
      <4>1. \/ dir' = [dir EXCEPT !.unlock = restore.from.unlock]
            \/ dir' = [dir EXCEPT !.state = restore.from.state]
            \/ dir' = [dir EXCEPT !.local = IF retained THEN bak.local ELSE restore.from.local]
        BY <1>5, <2>2 DEF RestoreExtract
      <4>2. dir \in Directories /\ bak \in Directories /\ restore.from \in Directories
        BY <1>5 DEF RestoreExtract, BackupTypes, RestoreType
      <4> HIDE DEF retained
      <4> QED BY <4>1, <4>2 DEF Directories
    <3>2. /\ restore' \in RestoreType
          /\ restore'.at \in {"extract", "check"}
      <4>1. restore \in RestoreType /\ restore.files # <<>> /\ restore.at = "extract"
        BY <1>5 DEF RestoreExtract, BackupTypes
      <4>2. Tail(restore.files) \in Seq(DirectoryFiles)
        BY <4>1 DEF RestoreType
      <4>3. PICK next \in {"extract", "check"} : restore' = [restore EXCEPT !.files = Tail(@), !.at = next]
        <5>1. restore' = [restore EXCEPT !.files = Tail(@), !.at = IF Len(restore.files) = 1 THEN "check" ELSE @]
          BY <1>5, <2>2 DEF RestoreExtract
        <5> QED BY <4>1, <5>1
      <4> QED BY <4>1, <4>2, <4>3 DEF RestoreType, RestoreSteps
    <3>3. UNCHANGED <<bak, held, slotKeys, archive, old, faithful>> /\ restore.at = "extract"
      BY <1>5, <2>2 DEF RestoreExtract
    <3> QED BY <3>1, <3>2, <3>3 DEF BackupTypes, KeysFollow, KeysReplaced, MadeUpFor, OldDirectoryKept
  <2> QED BY <1>5, <2>1, <2>2 DEF RestoreExtract
<1>6. CASE RestoreCheck
  <2>1. FirstState \in SavedStates
    BY DEF FirstState, SavedStates
  <2>2. dir.state \in SavedStates \cup {NoState}
    BY <1>6 DEF RestoreCheck, BackupTypes, Directories
  <2>3. dir' \in Directories
    BY <1>6, <2>1, <2>2 DEF RestoreCheck, BackupTypes, Directories
  <2>4. CASE RestoreFails
    BY <1>6, <2>3, <2>4, RestoreFailsInv DEF RestoreCheck, BackupTypes
  <2>5. CASE ~RestoreFails
    <3> DEFINE loaded == IF dir.state = NoState THEN FirstState ELSE dir.state
    <3>4. loaded \in SavedStates
      BY <2>1, <2>2
    <3>5. loaded.keys # {} /\ restore' = [restore EXCEPT !.at = "uninstall", !.new = loaded]
      BY <1>6, <2>5 DEF RestoreCheck
    <3>1. PICK new \in SavedStates : new.keys # {} /\ restore' = [restore EXCEPT !.at = "uninstall", !.new = new]
      <4> HIDE DEF loaded
      <4> QED BY <3>4, <3>5
    <3>2. UNCHANGED <<bak, held, slotKeys, archive, old, faithful>> /\ restore.at = "check"
      BY <1>6, <2>5 DEF RestoreCheck
    <3>3. /\ restore' \in RestoreType
          /\ restore'.at = "uninstall" /\ restore'.new = new
      BY <3>1 DEF BackupTypes, RestoreType, RestoreSteps
    <3> HIDE DEF loaded
    <3>6. BackupTypes'
      BY <2>3, <3>2, <3>3 DEF BackupTypes
    <3>7. KeysFollow' /\ KeysReplaced' /\ MadeUpFor' /\ OldDirectoryKept'
      BY <3>1, <3>2, <3>3 DEF KeysFollow, KeysReplaced, MadeUpFor, OldDirectoryKept
    <3> QED BY <3>6, <3>7
  <2> QED BY <2>4, <2>5
<1>7. ASSUME NEW step \in {"uninstall", "install"}, NEW next \in {"install", "copy"},
             NEW apps \in SUBSET SupportedApps, NEW complete \in BOOLEAN,
             RestoreApps(step, apps, complete, next)
      PROVE  BackupInv'
  <2>1. held' \in SavedStates /\ held'.keys = held.keys
    BY <1>7 DEF RestoreApps, BackupTypes, SavedStates
  <2>2. dir' \in Directories
    BY <1>7, <2>1 DEF RestoreApps, BackupTypes, Directories
  <2>3. CASE RestoreFails
    BY <1>7, <2>1, <2>2, <2>3, RestoreFailsInv DEF RestoreApps, BackupTypes
  <2>4. CASE RestoreGo(next) /\ UNCHANGED faithful
    BY <1>7, <2>1, <2>2, <2>4 DEF RestoreApps, BackupTypes, KeysFollow, KeysReplaced, MadeUpFor, OldDirectoryKept, RestoreType, RestoreSteps
  <2> QED BY <1>7, <2>3, <2>4 DEF RestoreApps
<1>8. CASE RestoreUninstall
  <2>1. PICK left \in SUBSET (held.apps \ restore.new.apps) :
            RestoreApps("uninstall", (held.apps \cap restore.new.apps) \cup left, left = {}, "install")
    BY <1>8 DEF RestoreUninstall
  <2>2. (held.apps \cap restore.new.apps) \cup left \in SUBSET SupportedApps
    BY DEF BackupTypes, SavedStates
  <2> QED BY <1>7, <2>1, <2>2
<1>9. CASE RestoreInstall
  <2>1. PICK left \in SUBSET (restore.new.apps \ held.apps) :
            RestoreApps("install", restore.new.apps \ left, left = {}, "copy")
    BY <1>9 DEF RestoreInstall
  <2>2. restore.new.apps \ left \in SUBSET SupportedApps
    BY <2>1 DEF RestoreApps, BackupTypes, SavedStates
  <2> QED BY <1>7, <2>1, <2>2
<1>10. CASE RestoreCopy
  <2>1. restore.new \in SavedStates
    BY <1>10 DEF RestoreCopy, BackupTypes
  <2>2. held' \in SavedStates
    BY <1>10, <2>1 DEF RestoreCopy, BackupTypes, SavedStates
  <2>3. CASE "encryption-recovery-keys" \in restore.skip
    <3>1. restore' = [restore EXCEPT !.at = "names"]
      BY <1>10, <2>3 DEF RestoreCopy
    <3> QED BY <1>10, <2>2, <2>3, <3>1 DEF RestoreCopy, BackupTypes, KeysFollow, KeysReplaced, MadeUpFor, OldDirectoryKept, RestoreType, RestoreSteps
  <2>4. CASE "encryption-recovery-keys" \notin restore.skip
    <3>1. restore' = [restore EXCEPT !.at = "wipe", !.vols = Volumes]
      BY <1>10, <2>4 DEF RestoreCopy
    <3> QED BY <1>10, <2>1, <2>2, <3>1 DEF RestoreCopy, BackupTypes, KeysFollow, KeysReplaced, MadeUpFor, OldDirectoryKept, RestoreType, RestoreSteps
  <2> QED BY <2>3, <2>4
<1>11. ASSUME NEW v \in Volumes, RestoreWipe(v)
       PROVE  BackupInv'
  <2>1. CASE RestoreFails /\ UNCHANGED <<slotKeys, held>>
    BY <1>11, <2>1, RestoreFailsInv DEF RestoreWipe, BackupTypes
  <2>2. CASE ~(RestoreFails /\ UNCHANGED <<slotKeys, held>>)
    <3>1. /\ slotKeys' = [slotKeys EXCEPT ![v] = {}]
          /\ restore' = [restore EXCEPT !.vols = @ \ {v}, !.at = IF restore.vols = {v} THEN "enrol" ELSE @]
          /\ held' = IF restore.vols = {v} THEN [held EXCEPT !.keys = {}] ELSE held
          /\ UNCHANGED <<faithful, dir, bak, archive, old>>
          /\ restore.at = "wipe" /\ v \in restore.vols
      BY <1>11, <2>2 DEF RestoreWipe
    <3>2. held' \in SavedStates /\ (restore.vols = {v} => held'.keys = {})
      BY <3>1 DEF BackupTypes, SavedStates
    <3>3. /\ restore' \in RestoreType /\ restore'.vols = restore.vols \ {v}
          /\ restore'.new = restore.new /\ restore'.at = IF restore.vols = {v} THEN "enrol" ELSE "wipe"
      BY <3>1 DEF BackupTypes, RestoreType, RestoreSteps
    <3>4. slotKeys' \in [Volumes -> SUBSET RecoveryKeys]
      BY <3>1 DEF BackupTypes
    <3>5. BackupTypes'
      BY <3>1, <3>2, <3>3, <3>4 DEF BackupTypes
    <3>6. KeysFollow' /\ MadeUpFor'
      BY <3>1, <3>2, <3>3, <3>4 DEF BackupTypes, KeysFollow, MadeUpFor
    <3>7. KeysReplaced'
      <4>1. restore'.skip = restore.skip /\ dir'.unlock = Ours
        BY <1>11, <2>2, <3>1 DEF BackupTypes, RestoreType, RestoreWipe
      <4>2. restore.new.keys # {} /\ "encryption-recovery-keys" \notin restore.skip
        BY <3>1 DEF KeysReplaced
      <4>3. \A w \in Volumes \ restore'.vols : slotKeys'[w] = {}
        BY <3>1, <3>3 DEF KeysReplaced, BackupTypes
      <4> QED BY <3>2, <3>3, <4>1, <4>2, <4>3 DEF KeysReplaced
    <3> QED BY <3>1, <3>5, <3>6, <3>7 DEF OldDirectoryKept
  <2> QED BY <2>1, <2>2
<1>12. ASSUME NEW k \in RecoveryKeys, RestoreEnrol(k)
       PROVE  BackupInv'
  <2>1. PICK done \in SUBSET Volumes :
            /\ slotKeys' = [v \in Volumes |-> IF v \in done THEN slotKeys[v] \cup {k} ELSE slotKeys[v]]
            /\ IF done = Volumes
               THEN /\ held' = [held EXCEPT !.keys = @ \cup {k}]
                    /\ RestoreGo(IF held'.keys = restore.new.keys THEN "names" ELSE "enrol")
                    /\ UNCHANGED faithful
               ELSE RestoreFails /\ UNCHANGED held
    BY <1>12 DEF RestoreEnrol
  <2>2. slotKeys' \in [Volumes -> SUBSET RecoveryKeys]
    BY <2>1 DEF BackupTypes
  <2>3. CASE done # Volumes
    BY <1>12, <2>1, <2>2, <2>3, RestoreFailsInv DEF RestoreEnrol, BackupTypes
  <2>4. CASE done = Volumes
    <3>1. held' \in SavedStates /\ held'.keys = held.keys \cup {k}
      BY <2>1, <2>4 DEF BackupTypes, SavedStates
    <3>2. PICK next \in {"names", "enrol"} : restore' = [restore EXCEPT !.at = next]
      BY <2>1, <2>4
    <3>3. UNCHANGED <<dir, bak, archive, old, faithful>> /\ restore.at = "enrol"
      BY <1>12, <2>1, <2>4 DEF RestoreEnrol
    <3>4. restore' \in RestoreType /\ restore'.at = next /\ restore'.new = restore.new /\ restore'.skip = restore.skip
      BY <3>2 DEF BackupTypes, RestoreType, RestoreSteps
    <3>5. BackupTypes'
      BY <2>2, <3>1, <3>3, <3>4 DEF BackupTypes
    <3>6. KeysFollow' /\ KeysReplaced' /\ MadeUpFor'
      BY <2>1, <2>4, <3>1, <3>3, <3>4 DEF KeysFollow, KeysReplaced, MadeUpFor
    <3> QED BY <3>3, <3>5, <3>6 DEF OldDirectoryKept
  <2> QED BY <2>3, <2>4
<1>13. CASE RestoreNames
  <2>1. CASE RestoreFails /\ UNCHANGED old
    BY <1>13, <2>1, RestoreFailsInv DEF RestoreNames, BackupTypes
  <2>2. CASE old' = Missing /\ RestoreGo("remove") /\ UNCHANGED faithful
    <3>1. restore' \in RestoreType /\ restore'.at = "remove" /\ restore'.skip = restore.skip
      BY <2>2 DEF BackupTypes, RestoreType, RestoreSteps
    <3>2. UNCHANGED <<dir, bak, held, slotKeys, archive>> /\ restore.at = "names"
      BY <1>13 DEF RestoreNames
    <3>3. BackupTypes'
      BY <2>2, <3>1, <3>2 DEF BackupTypes
    <3>4. KeysFollow' /\ KeysReplaced' /\ MadeUpFor'
      BY <2>2, <3>1, <3>2 DEF KeysFollow, KeysReplaced, MadeUpFor
    <3> QED BY <2>2, <3>3, <3>4 DEF OldDirectoryKept
  <2> QED BY <1>13, <2>1, <2>2 DEF RestoreNames
<1>20. CASE RestoreRemove
  <2>1. bak \in Directories /\ old = Missing /\ restore.at = "remove"
    BY <1>20 DEF RestoreRemove, BackupTypes, MadeUpFor
  <2>2. CASE bak' \in Parts(bak) /\ RestoreFails
    <3>1. bak' \in Directories
      BY <2>1, <2>2, PartsAreDirectories
    <3> QED BY <1>20, <2>1, <2>2, <3>1, RestoreFailsInv DEF RestoreRemove, BackupTypes
  <2>3. CASE /\ bak' = Missing /\ RestoreGo("reboot")
             /\ faithful' = (faithful /\ "encryption-recovery-keys" \notin restore.skip)
    <3>1. restore' \in RestoreType /\ restore'.at = "reboot" /\ restore'.skip = restore.skip
      BY <2>3 DEF BackupTypes, RestoreType, RestoreSteps
    <3>2. UNCHANGED <<dir, held, slotKeys, archive, old>>
      BY <1>20 DEF RestoreRemove
    <3>3. BackupTypes'
      BY <2>1, <2>3, <3>1, <3>2 DEF BackupTypes
    <3>4. KeysFollow' /\ KeysReplaced' /\ MadeUpFor'
      BY <2>1, <2>3, <3>1, <3>2 DEF KeysFollow, KeysReplaced, MadeUpFor
    <3> QED BY <2>1, <3>2, <3>3, <3>4 DEF OldDirectoryKept
  <2> QED BY <1>20, <2>2, <2>3 DEF RestoreRemove
<1>14. NoRestore \in RestoreType
  BY DEF NoRestore, RestoreType, RestoreSteps, Empty, Directories, Dir, DirectoryFiles
<1>15. CASE RestoreReboot
  <2>1. dir' \in Directories /\ dir'.state = held
    BY <1>15 DEF RestoreReboot, BackupTypes, Directories
  <2> QED BY <1>14, <1>15, <2>1 DEF RestoreReboot, BackupTypes, KeysFollow, KeysReplaced, MadeUpFor, OldDirectoryKept, NoRestore
<1>16. CASE RevertRemove
  <2>1. dir \in Directories /\ Parts(dir) \subseteq Directories /\ restore.at = "revert"
    BY <1>16, PartsAreDirectories DEF RevertRemove, BackupTypes
  <2>2. dir' \in Directories \cup {Missing}
    BY <1>16, <2>1 DEF RevertRemove
  <2>3. restore' \in RestoreType /\ restore'.at = "putback"
    BY <1>16 DEF RevertRemove, BackupTypes, RestoreType, RestoreSteps
  <2> QED BY <1>16, <2>1, <2>2, <2>3
          DEF RevertRemove, BackupTypes, KeysFollow, KeysReplaced, MadeUpFor, OldDirectoryKept
<1>17. CASE RevertRename
  <2>1. restore.at = "putback" /\ restore' = NoRestore /\ UNCHANGED <<held, slotKeys, archive, faithful>>
    BY <1>17 DEF RevertRename
  <2>2. KeysFollow' /\ KeysReplaced' /\ MadeUpFor'
    BY <2>1 DEF KeysFollow, KeysReplaced, MadeUpFor, NoRestore
  <2>3. CASE dir \in {Missing, Empty}
    BY <1>14, <1>17, <2>1, <2>2, <2>3 DEF RevertRename, BackupTypes, OldDirectoryKept, NoRestore
  <2>4. CASE dir \notin {Missing, Empty}
    BY <1>14, <1>17, <2>1, <2>2, <2>4 DEF RevertRename, BackupTypes, OldDirectoryKept, NoRestore
  <2> QED BY <2>3, <2>4
<1>18. CASE RestorePowerLoss
  <2> DEFINE state == IF dir.state = NoState THEN FirstState ELSE dir.state
  <2>1. Missing.state = NoState
    BY DEF Missing, Dir
  <2>2. FirstState \in SavedStates /\ FirstState.keys = NoState.keys
    BY DEF FirstState, SavedStates, NoState
  <2>3. state \in SavedStates /\ state.keys = dir.state.keys
    BY <2>1, <2>2 DEF BackupTypes, Directories
  <2>4. dir' = IF dir = Missing THEN Dir(state, 0, 0) ELSE [dir EXCEPT !.state = state]
    BY <1>18 DEF RestorePowerLoss
  <2>5. held' = state
    BY <1>18 DEF RestorePowerLoss
  <2> HIDE DEF state
  <2>6. dir' \in Directories /\ dir'.state = state
    BY <2>3, <2>4 DEF BackupTypes, Directories, Dir
  <2>7. /\ restore' = NoRestore /\ faithful' = (faithful /\ restore.at = "idle")
        /\ UNCHANGED <<slotKeys, archive, old>>
    BY <1>18 DEF RestorePowerLoss
  <2>10. bak' \in Directories \cup {Missing} /\ (old # Missing => UNCHANGED bak)
    <3>1. CASE restore.at = "remove"
      <4>1. bak \in Directories /\ old = Missing
        BY <3>1 DEF BackupTypes, MadeUpFor
      <4>2. bak' \in {Missing} \cup Parts(bak)
        BY <1>18, <3>1 DEF RestorePowerLoss
      <4> QED BY <4>1, <4>2, PartsAreDirectories
    <3>2. CASE restore.at # "remove"
      BY <1>18, <3>2 DEF RestorePowerLoss, BackupTypes
    <3> QED BY <3>1, <3>2
  <2>8. BackupTypes'
    BY <1>14, <2>3, <2>5, <2>6, <2>7, <2>10 DEF BackupTypes, NoRestore
  <2>9. KeysFollow' /\ KeysReplaced' /\ MadeUpFor'
    BY <2>3, <2>5, <2>6, <2>7 DEF KeysFollow, KeysReplaced, MadeUpFor, NoRestore
  <2> QED BY <2>7, <2>8, <2>9, <2>10 DEF OldDirectoryKept
<1>19. CASE UNCHANGED backupVars
  BY <1>19 DEF backupVars, BackupTypes, KeysFollow, KeysReplaced, MadeUpFor, OldDirectoryKept
<1> QED
  BY <1>1, <1>2, <1>3, <1>4, <1>5, <1>6, <1>8, <1>9, <1>10, <1>11, <1>12, <1>13, <1>20, <1>15, <1>16, <1>17, <1>18, <1>19
  DEF BackupNext

\* The directory a restore replaces stays on disk until the system matches the new state or the
\* restore was undone; from then on the new directory and keys open the volumes, as the listed
\* keys do after any number of restores that succeeded (ApplyOSBackup, processNewState).
THEOREM RestoreKeepsTheKeys == BackupSpec => []RestoreKeepsKeys
<1>1. BackupInv => RestoreKeepsKeys
  BY DEF BackupInv, KeysFollow, KeysReplaced, RestoreKeepsKeys, ListedKeysEnrolled, NewKeysOpen, RestoreAt
<1> QED BY <1>1, BackupInvInit, BackupInvNext, PTL DEF BackupSpec

-----------------------------------------------------------------------------
(* State file.                                                             *)

\* The lines of a file after each upgrade, the function Upgrades is defined with.
Upgraded(f) ==
    CHOOSE u : u = [i \in 0 .. CurrentVersion |-> IF i <= f.version THEN f.lines ELSE Upgrade(i, u[i - 1])]

LEMMA UpgradesAreUpgraded ==
    \A f, v : Upgrades(f, v) = IF v > f.version THEN Upgraded(f)[v] ELSE f.lines
BY DEF Upgrades, Upgraded

\* There is such a function: the format has eight upgrades, so it can be written down.
LEMMA UpgradedUnfold ==
    ASSUME NEW f, f.version \in 0 .. CurrentVersion
    PROVE  Upgraded(f) = [i \in 0 .. CurrentVersion |-> IF i <= f.version THEN f.lines ELSE Upgrade(i, Upgraded(f)[i - 1])]
<1> DEFINE Unfolds(u) == u = [i \in 0 .. CurrentVersion |-> IF i <= f.version THEN f.lines ELSE Upgrade(i, u[i - 1])]
           up(i, lines) == IF i <= f.version THEN f.lines ELSE Upgrade(i, lines)
           u1 == up(1, f.lines)
           u2 == up(2, u1)
           u3 == up(3, u2)
           u4 == up(4, u3)
           u5 == up(5, u4)
           u6 == up(6, u5)
           u7 == up(7, u6)
           u8 == up(8, u7)
           g == [i \in 0 .. CurrentVersion |->
                   CASE i = 1 -> u1 [] i = 2 -> u2 [] i = 3 -> u3 [] i = 4 -> u4
                     [] i = 5 -> u5 [] i = 6 -> u6 [] i = 7 -> u7 [] i = 8 -> u8 [] OTHER -> f.lines]
<1>1. Unfolds(g)
  <2>1. ASSUME NEW i \in 0 .. CurrentVersion PROVE g[i] = up(i, g[i - 1])
    <3> USE DEF CurrentVersion
    <3> HIDE DEF up, u1, u2, u3, u4, u5, u6, u7, u8
    <3>0. CASE i = 0
      BY <3>0 DEF up
    <3>1. CASE i = 1
      BY <3>1 DEF u1
    <3>2. CASE i = 2
      BY <3>2 DEF u2
    <3>3. CASE i = 3
      BY <3>3 DEF u3
    <3>4. CASE i = 4
      BY <3>4 DEF u4
    <3>5. CASE i = 5
      BY <3>5 DEF u5
    <3>6. CASE i = 6
      BY <3>6 DEF u6
    <3>7. CASE i = 7
      BY <3>7 DEF u7
    <3>8. CASE i = 8
      BY <3>8 DEF u8
    <3> QED BY <3>0, <3>1, <3>2, <3>3, <3>4, <3>5, <3>6, <3>7, <3>8
  <2> HIDE DEF g
  <2>2. g = [i \in 0 .. CurrentVersion |-> g[i]]
    BY DEF g
  <2> QED BY <2>1, <2>2
<1> HIDE DEF g
<1>2. \E u : Unfolds(u)
  BY <1>1
<1>3. Upgraded(f) = CHOOSE u : Unfolds(u)
  BY DEF Upgraded
<1>4. Unfolds(CHOOSE u : Unfolds(u))
  <2> HIDE DEF Unfolds
  <2> QED BY <1>2
<1> QED BY <1>3, <1>4

Versions == 0 .. CurrentVersion
Lines == [setting : Settings, form : Int, val : Int]
StateFiles == [version : Versions, lines : SUBSET Lines]
BeingWritten == [version |-> -2, lines |-> {}]
Memories == [version : Versions, vals : [Settings -> Int], unrecognised : BOOLEAN, failed : BOOLEAN, save : BOOLEAN]

LEMMA ChangesFinite == ASSUME NEW s \in Settings PROVE IsFiniteSet(Changes[s]) /\ Changes[s] \subseteq Int
<1>1. Changes[s] \subseteq 1 .. 8
  BY DEF Settings, Changes
<1>2. 1 \in Int /\ 8 \in Int
  OBVIOUS
<1>3. IsFiniteSet(1 .. 8)
  BY <1>2, FS_Interval
<1> QED BY <1>1, <1>3, FS_Subset

LEMMA FormType == ASSUME NEW s \in Settings, NEW v \in Versions PROVE Form(s, v) \in Nat
<1>1. IsFiniteSet({c \in Changes[s] : c <= v})
  BY ChangesFinite, FS_Subset
<1> QED BY <1>1, FS_CardinalityType DEF Form

\* An upgrade keeps the setting and the value of every line (the upgrade functions rename
\* lines, change types and append defaults).
LEMMA UpgradeKeepsLines ==
    ASSUME NEW i \in Int, NEW lines \in SUBSET Lines
    PROVE  /\ Upgrade(i, lines) \in SUBSET Lines
           /\ \A l \in lines : \E m \in Upgrade(i, lines) : m.setting = l.setting /\ m.val = l.val
<1>1. \A l \in Lines : UpgradeLine(i, l) \in Lines /\ UpgradeLine(i, l).setting = l.setting /\ UpgradeLine(i, l).val = l.val
  BY DEF UpgradeLine, Lines
<1>2. \A s \in Added : Line(s, 1, Default) \in Lines
  BY DEF Added, Line, Lines, Settings, Changes, Default
<1> QED BY <1>1, <1>2 DEF Upgrade

\* Decode loses no line on the way from the version of the file to that of the image.
LEMMA UpgradesKeepLines ==
    ASSUME NEW f \in StateFiles, NEW v \in Versions
    PROVE  /\ Upgrades(f, v) \in SUBSET Lines
           /\ \A l \in f.lines : \E m \in Upgrades(f, v) : m.setting = l.setting /\ m.val = l.val
<1> DEFINE u == Upgraded(f)
           Keeps(i) == /\ u[i] \in SUBSET Lines
                       /\ \A l \in f.lines : \E m \in u[i] : m.setting = l.setting /\ m.val = l.val
<1>1. f.version \in 0 .. CurrentVersion /\ f.lines \in SUBSET Lines
  BY DEF StateFiles, Versions
<1>2. \A i \in 0 .. CurrentVersion : u[i] = IF i <= f.version THEN f.lines ELSE Upgrade(i, u[i - 1])
  BY <1>1, UpgradedUnfold
<1> HIDE DEF u
<1>3. Keeps(0)
  BY <1>1, <1>2 DEF CurrentVersion
<1>4. ASSUME NEW i \in 1 .. CurrentVersion, Keeps(i - 1) PROVE Keeps(i)
  <2>1. CASE i <= f.version
    BY <1>1, <1>2, <2>1
  <2>2. CASE ~(i <= f.version)
    <3>1. u[i] = Upgrade(i, u[i - 1])
      BY <1>2, <2>2
    <3> QED BY <1>4, <3>1, UpgradeKeepsLines
  <2> QED BY <2>1, <2>2
<1>5. \A i \in 1 .. 8 : Keeps(i - 1) => Keeps(i)
  BY <1>4 DEF CurrentVersion
<1>6. \A i \in 0 .. 8 : Keeps(i)
  <2> HIDE DEF Keeps
  <2>1. Keeps(1) /\ Keeps(2) /\ Keeps(3) /\ Keeps(4) /\ Keeps(5) /\ Keeps(6) /\ Keeps(7) /\ Keeps(8)
    <3>1. Keeps(1)
      BY <1>3, <1>5
    <3>2. Keeps(2)
      BY <3>1, <1>5
    <3>3. Keeps(3)
      BY <3>2, <1>5
    <3>4. Keeps(4)
      BY <3>3, <1>5
    <3>5. Keeps(5)
      BY <3>4, <1>5
    <3>6. Keeps(6)
      BY <3>5, <1>5
    <3>7. Keeps(7)
      BY <3>6, <1>5
    <3>8. Keeps(8)
      BY <3>7, <1>5
    <3> QED BY <3>1, <3>2, <3>3, <3>4, <3>5, <3>6, <3>7, <3>8
  <2> QED BY <1>3, <2>1
<1>7. Keeps(v)
  BY <1>6 DEF Versions, CurrentVersion
<1> QED BY <1>1, <1>7, UpgradesAreUpgraded DEF u

\* What the daemon has read of a file: it noticed every setting that its image does not know.
LEMMA DecodeKnows ==
    ASSUME NEW f \in StateFiles, NEW v \in Versions
    PROVE  /\ Decode(f, v) \in Memories
           /\ ~Decode(f, v).unrecognised => \A l \in f.lines : Known(l.setting, v)
<1> DEFINE lines == Upgrades(f, v)
           known == {l \in lines : Recognised(l, v)}
           vals == [s \in Settings |-> IF \E l \in known : l.setting = s
                                       THEN (CHOOSE l \in known : l.setting = s).val ELSE 0]
<1>1. lines \in SUBSET Lines /\ \A l \in f.lines : \E m \in lines : m.setting = l.setting
  BY UpgradesKeepLines
<1>2. Decode(f, v) = [version |-> IF v > f.version THEN v ELSE f.version, vals |-> vals,
                      unrecognised |-> {l \in lines : ~Recognised(l, v)} # {},
                      failed |-> \E l \in lines : Unparsable(l, v), save |-> v > f.version]
  BY DEF Decode
<1>3. f.version \in Versions
  BY DEF StateFiles
<1> HIDE DEF lines
<1>4. vals \in [Settings -> Int]
  <2> SUFFICES ASSUME NEW s \in Settings, \E l \in known : l.setting = s
               PROVE  (CHOOSE l \in known : l.setting = s).val \in Int
    OBVIOUS
  <2>1. (CHOOSE l \in known : l.setting = s) \in known
    <3> HIDE DEF known
    <3> QED OBVIOUS
  <2> QED BY <1>1, <2>1 DEF Lines
<1> HIDE DEF vals
<1>5. Decode(f, v) \in Memories
  BY <1>2, <1>3, <1>4 DEF Memories
<1>6. ASSUME ~Decode(f, v).unrecognised, NEW l \in f.lines PROVE Known(l.setting, v)
  <2>1. PICK m \in lines : m.setting = l.setting
    BY <1>1
  <2>2. {n \in lines : ~Recognised(n, v)} = {}
    <3>1. Decode(f, v).unrecognised = ({n \in lines : ~Recognised(n, v)} # {})
      BY <1>2
    <3> QED BY <1>6, <3>1
  <2>3. Recognised(m, v)
    BY <2>2
  <2> QED BY <2>1, <2>3 DEF Recognised
<1> QED BY <1>5, <1>6

StateTypes ==
    /\ stateFile \in StateFiles \cup {NoFile}
    /\ stateTmp \in StateFiles \cup {NoFile, BeingWritten}
    /\ image \in -1 .. CurrentVersion /\ slots \in [1 .. 2 -> Versions]
    /\ memory \in Memories /\ kept \in [Settings -> Int]

\* A save writes what the daemon holds, and only while nothing changes it (Save is
\* synchronous); nothing is saved when a line of the file was not recognised.
SaveInProgress ==
    /\ stateTmp # NoFile => Running /\ memory.save /\ ~memory.unrecognised
    /\ stateTmp.version >= 0 => stateTmp = Encode(memory, image)

\* An image that recognised every line knows every setting that was ever saved.
SavedIsKnown ==
    image >= 0 /\ ~memory.failed /\ ~memory.unrecognised =>
        \A s \in Settings : kept[s] # 0 => Known(s, image)

StateInv == StateTypes /\ SaveInProgress /\ SavedIsKnown /\ SettingsKept

LEMMA InitializedType == ASSUME NEW v \in Versions PROVE Initialized(v) \in Memories
<1> DEFINE vals == [s \in Settings |-> IF s \in {"channel", "frequency", "scrub"} /\ Known(s, v) THEN Default ELSE 0]
<1>1. vals \in [Settings -> Int]
  BY DEF Default
<1>2. Initialized(v) = [version |-> v, unrecognised |-> FALSE, failed |-> FALSE, save |-> TRUE, vals |-> vals]
  BY DEF Initialized
<1> HIDE DEF vals
<1> QED BY <1>1, <1>2 DEF Memories

LEMMA EncodeType == ASSUME NEW m \in Memories, NEW v \in Versions PROVE Encode(m, v) \in StateFiles
<1>1. \A s \in Settings : Line(s, Form(s, v), m.vals[s]) \in Lines
  BY FormType DEF Line, Lines, Memories
<1>2. m.version \in Versions
  BY DEF Memories
<1> QED BY <1>1, <1>2 DEF Encode, StateFiles

LEMMA StateInvInit == ASSUME StateInit PROVE StateInv
<1>1. \A v \in FirstFormats : v \in Versions
  BY StateFileAssumption DEF Versions
<1>2. 0 \in Versions /\ -1 \in -1 .. CurrentVersion
  BY DEF Versions, CurrentVersion
<1>3. StateTypes
  BY <1>1, <1>2, InitializedType DEF StateInit, StateTypes, Zero
<1>4. SaveInProgress /\ SavedIsKnown
  BY DEF StateInit, SaveInProgress, SavedIsKnown, NoFile
<1>5. SettingsKept
  BY DEF StateInit, SettingsKept, Zero
<1> QED BY <1>3, <1>4, <1>5 DEF StateInv

LEMMA StateInvNext == ASSUME StateInv, [StateNext]_stateVars PROVE StateInv'
<1> USE DEF StateInv
<1>0. /\ NoFile.version = -1 /\ BeingWritten.version = -2 /\ NoFile # BeingWritten
      /\ \A f \in StateFiles : f.version >= 0 /\ f # NoFile /\ f # BeingWritten
  BY DEF NoFile, BeingWritten, StateFiles, Versions
<1>1. ASSUME memory' \in Memories, UNCHANGED <<stateFile, image, slots, kept>>, stateTmp = NoFile, stateTmp' = NoFile,
             memory'.unrecognised = memory.unrecognised, memory'.failed = memory.failed
      PROVE  StateInv'
  BY <1>0, <1>1 DEF StateTypes, SaveInProgress, SavedIsKnown, SettingsKept
<1>2. CASE Save
  <2>1. CASE memory.unrecognised
    <3>1. memory' \in Memories /\ memory'.unrecognised = memory.unrecognised /\ memory'.failed = memory.failed
      BY <1>2, <2>1 DEF Save, StateTypes, Memories
    <3> QED BY <1>1, <1>2, <2>1, <3>1 DEF Save
  <2>2. CASE ~memory.unrecognised
    <3>1. stateTmp' = BeingWritten /\ UNCHANGED <<stateFile, image, slots, memory, kept>>
      BY <1>2, <2>2 DEF Save, BeingWritten
    <3>2. Running /\ memory.save
      BY <1>2 DEF Save
    <3> QED BY <1>0, <2>2, <3>1, <3>2 DEF StateTypes, SaveInProgress, SavedIsKnown, SettingsKept, Running
  <2> QED BY <2>1, <2>2
<1>3. CASE WriteFile
  <2>1. Running /\ memory.save /\ stateTmp = BeingWritten /\ UNCHANGED <<stateFile, image, slots, kept>>
    BY <1>0, <1>3 DEF WriteFile, StateTypes
  <2>2. image \in Versions
    BY <2>1 DEF Running, StateTypes, Versions
  <2>3. CASE stateTmp' = Encode(memory, image) /\ UNCHANGED memory
    <3>1. stateTmp' \in StateFiles
      BY <2>2, <2>3, EncodeType DEF StateTypes
    <3>2. Running' /\ memory'.save /\ ~memory'.unrecognised
      BY <1>0, <2>1, <2>3 DEF SaveInProgress, Running
    <3>3. StateTypes'
      BY <2>1, <2>3, <3>1 DEF StateTypes
    <3>4. SaveInProgress'
      BY <2>1, <2>3, <3>2 DEF SaveInProgress, Encode, Form
    <3>5. SavedIsKnown'
      BY <2>1, <2>3 DEF SavedIsKnown, Known, Form
    <3>6. SettingsKept'
      BY <2>1 DEF SettingsKept
    <3> QED BY <3>3, <3>4, <3>5, <3>6
  <2>4. CASE memory' = [memory EXCEPT !.save = FALSE] /\ stateTmp' = NoFile
    <3>1. memory' \in Memories /\ memory'.unrecognised = memory.unrecognised /\ memory'.failed = memory.failed
      BY <2>4 DEF StateTypes, Memories
    <3> QED BY <1>0, <2>1, <2>4, <3>1 DEF StateTypes, SaveInProgress, SavedIsKnown, SettingsKept
  <2> QED BY <1>3, <2>3, <2>4 DEF WriteFile
<1>4. CASE SaveRename
  <2>1. /\ Running /\ memory.save /\ stateTmp.version >= 0 /\ stateFile' = stateTmp /\ stateTmp' = NoFile
        /\ kept' = [s \in Settings |-> IF Known(s, image) THEN memory.vals[s] ELSE kept[s]]
        /\ memory' = [memory EXCEPT !.save = FALSE] /\ UNCHANGED <<image, slots>>
    BY <1>4 DEF SaveRename
  <2>2. stateTmp = Encode(memory, image) /\ stateTmp \in StateFiles /\ ~memory.unrecognised
    BY <1>0, <2>1 DEF SaveInProgress, StateTypes
  <2>3. memory' \in Memories /\ memory'.unrecognised = memory.unrecognised /\ memory'.failed = memory.failed
    BY <2>1 DEF StateTypes, Memories
  <2>4. \A s \in Settings : kept'[s] # 0 => Known(s, image) /\ kept'[s] = memory.vals[s]
    BY <2>1, <2>2 DEF SavedIsKnown, Running
  <2>5. StateTypes'
    <3>1. kept' \in [Settings -> Int]
      BY <2>1 DEF StateTypes, Memories
    <3> QED BY <2>1, <2>2, <2>3, <3>1 DEF StateTypes
  <2>6. SaveInProgress'
    BY <1>0, <2>1 DEF SaveInProgress
  <2>7. SavedIsKnown'
    BY <2>1, <2>4 DEF SavedIsKnown, Known, Form
  <2>8. SettingsKept'
    <3> SUFFICES ASSUME NEW s \in Settings, kept'[s] # 0
                 PROVE  \E l \in stateFile'.lines : l.setting = s /\ l.val = kept'[s]
      BY DEF SettingsKept
    <3>1. Line(s, Form(s, image), memory.vals[s]) \in stateFile'.lines
      BY <2>1, <2>2, <2>4 DEF Encode
    <3> QED BY <2>4, <3>1 DEF Line
  <2> QED BY <2>5, <2>6, <2>7, <2>8
<1>5. CASE Restart
  BY <1>0, <1>5 DEF Restart, StateTypes, SaveInProgress, SavedIsKnown, SettingsKept, CurrentVersion
<1>6. ASSUME NEW s \in Settings, NEW val \in 1 .. MaxSetting, Configure(s, val)
      PROVE  StateInv'
  <2>1. stateTmp = NoFile
    BY <1>6 DEF Configure, SaveInProgress
  <2>2. memory' \in Memories /\ memory'.unrecognised = memory.unrecognised /\ memory'.failed = memory.failed
    <3>1. memory' = [memory EXCEPT !.vals[s] = val, !.save = TRUE] /\ memory \in Memories /\ val \in Int
      BY <1>6 DEF Configure, StateTypes
    <3> QED BY <3>1 DEF Memories
  <2> QED BY <1>1, <1>6, <2>1, <2>2 DEF Configure
<1>7. ASSUME NEW n \in 1 .. 2, BootImage(n)
      PROVE  StateInv'
  <2>1. /\ image = -1 /\ image' = slots[n] /\ memory' = LoadOrCreate(slots[n])
        /\ UNCHANGED <<stateFile, stateTmp, slots, kept>>
    BY <1>7 DEF BootImage
  <2>2. slots[n] \in Versions /\ stateTmp = NoFile
    BY <2>1 DEF StateTypes, SaveInProgress, Running
  <2>3. CASE stateFile = NoFile
    <3>1. memory' \in Memories
      BY <2>1, <2>2, <2>3, InitializedType DEF LoadOrCreate
    <3>2. \A s \in Settings : kept[s] = 0
      BY <2>3 DEF SettingsKept, NoFile
    <3> QED BY <1>0, <2>1, <2>2, <3>1, <3>2 DEF StateTypes, SaveInProgress, SavedIsKnown, SettingsKept, Versions
  <2>4. CASE stateFile # NoFile
    <3>1. stateFile \in StateFiles /\ memory' = Decode(stateFile, slots[n])
      BY <2>1, <2>4 DEF LoadOrCreate, StateTypes
    <3>2. memory' \in Memories
      BY <2>2, <3>1, DecodeKnows
    <3>3. SavedIsKnown'
      <4> SUFFICES ASSUME ~memory'.unrecognised, NEW s \in Settings, kept[s] # 0
                   PROVE  Known(s, slots[n])
        BY <2>1 DEF SavedIsKnown, Known, Form
      <4>1. PICK l \in stateFile.lines : l.setting = s
        BY DEF SettingsKept
      <4> QED BY <2>2, <3>1, <4>1, DecodeKnows
    <3> QED BY <1>0, <2>1, <2>2, <3>2, <3>3 DEF StateTypes, SaveInProgress, SettingsKept, Versions
  <2> QED BY <2>3, <2>4
<1>8. ASSUME NEW n \in 1 .. 2, NEW v \in 0 .. CurrentVersion, UpdateImage(n, v)
      PROVE  StateInv'
  <2>1. stateTmp = NoFile
    BY <1>8 DEF UpdateImage, SaveInProgress
  <2> QED BY <1>0, <1>8, <2>1 DEF UpdateImage, StateTypes, SaveInProgress, SavedIsKnown, SettingsKept, Versions
<1>9. CASE UNCHANGED stateVars
  BY <1>9 DEF stateVars, StateTypes, SaveInProgress, SavedIsKnown, SettingsKept, Running
<1> QED BY <1>2, <1>3, <1>4, <1>5, <1>6, <1>7, <1>8, <1>9 DEF StateNext

\* No setting that was saved is ever lost from the file: not by an upgrade of the format, a
\* fallback to an older image or what it saves, a failing write or a power loss (Save, Decode).
THEOREM SettingsAreKept == StateSpec => []SettingsKept
<1>1. StateInv => SettingsKept
  BY DEF StateInv
<1> QED BY <1>1, StateInvInit, StateInvNext, PTL DEF StateSpec

-----------------------------------------------------------------------------
(* System services.                                                        *)

Identities == {"none", "empty", "set"}
Revisions == 1 .. MaxRevision
SysStates == [unit : BOOLEAN, applied : 0 .. Mixed, identity : Identities, traces : SUBSET Revisions]

LEMMA SysEdits ==
    ASSUME NEW r \in SysStates, NEW rev \in 0 .. Mixed
    PROVE  /\ Up(r) \in SysStates /\ Up(r).unit /\ Up(r).applied = r.applied /\ Up(r).identity = r.identity
           /\ DownUnit(r) \in SysStates /\ ~DownUnit(r).unit /\ DownUnit(r).applied = r.applied
           /\ DownUnit(r).identity = r.identity
           /\ Apply(r, rev) \in SysStates /\ Apply(r, rev).unit = r.unit /\ Apply(r, rev).applied = rev
           /\ Apply(r, rev).identity = r.identity
BY DEF SysStates, Up, DownUnit, Apply

LEMMA Revs == 0 \in 0 .. Mixed /\ Mixed \in 0 .. Mixed /\ \A rev \in Revisions : rev \in 0 .. Mixed
BY ServicesAssumption DEF Mixed, Revisions

LEMMA TracesEdits ==
    ASSUME NEW r \in SysStates, NEW rev \in 0 .. Mixed, NEW t \in SUBSET Revisions
    PROVE  /\ Hold(r, rev, t) \in SysStates /\ Hold(r, rev, t).unit = r.unit
           /\ Hold(r, rev, t).applied = rev /\ Hold(r, rev, t).traces = t
BY DEF SysStates, Hold

LEMMA Outcomes == \A r : Ok(r).sys = r /\ Ok(r).ok = TRUE /\ Err(r).sys = r /\ Err(r).ok = FALSE
BY DEF Ok, Err

\* Every Stop that succeeds takes the units down, but USB/IP has none.
LEMMA StopOutcome ==
    ASSUME NEW s \in Services, NEW r \in SysStates, NEW o \in Stop(s, r)
    PROVE  o.sys \in SysStates /\ o.ok \in BOOLEAN /\ (o.ok /\ s # "usbip" => ~o.sys.unit)
<1>1. /\ DownUnit(r) \in SysStates /\ ~DownUnit(r).unit
      /\ Apply(DownUnit(r), 0) \in SysStates /\ ~Apply(DownUnit(r), 0).unit /\ Apply(r, 0) \in SysStates
  <2>1. DownUnit(r) \in SysStates /\ ~DownUnit(r).unit /\ Apply(r, 0) \in SysStates
    BY SysEdits, Revs
  <2>2. \A x \in SysStates : Apply(x, 0) \in SysStates /\ Apply(x, 0).unit = x.unit
    BY SysEdits, Revs
  <2> QED BY <2>1, <2>2
<1>2. CASE s \in {"linstor", "netbird", "nvme"}
  <2>1. Apply(r, Mixed) \in SysStates
    BY SysEdits, Revs
  <2> QED BY <1>1, <1>2, <2>1, Outcomes DEF Stop, LinstorStop, NetbirdStop, NvmeStop, Partly
<1>4. CASE s \in {"ceph", "iscsi"}
  <2>1. ASSUME NEW t \in SUBSET r.traces
        PROVE  /\ Hold(DownUnit(r), 0, t) \in SysStates
               /\ ~Hold(DownUnit(r), 0, t).unit
               /\ Hold(r, Mixed, t) \in SysStates
    <3>1. t \in SUBSET Revisions
      BY <2>1 DEF SysStates
    <3>2. \A x \in SysStates, rev \in 0 .. Mixed :
              /\ Hold(x, rev, t) \in SysStates
              /\ Hold(x, rev, t).unit = x.unit
      BY <3>1, TracesEdits
    <3> QED BY <1>1, <3>2, Revs
  <2>2. CASE s = "ceph"
    <3>1. o \in CephStop(r)
      BY <2>2 DEF Stop
    <3>2. o = Ok(Hold(DownUnit(r), 0, {})) \/ o = Err(r)
          \/ \E t \in SUBSET r.traces : o = Err(Hold(r, Mixed, t))
      BY <3>1 DEF CephStop
    <3>3. {} \in SUBSET r.traces
      OBVIOUS
    <3> QED BY <2>1, <3>2, <3>3, Outcomes
  <2>3. CASE s = "iscsi"
    <3>1. o \in IscsiStop(r)
      BY <2>3 DEF Stop
    <3>2. \/ o = Err(r)
          \/ \E t \in SUBSET r.traces : \/ o = Ok(Hold(DownUnit(r), 0, t))
                                        \/ o = Err(Hold(r, Mixed, t))
      BY <3>1 DEF IscsiStop
    <3> QED BY <2>1, <3>2, Outcomes
  <2> QED BY <1>4, <2>2, <2>3
<1>3. CASE s \in {"multipath", "lvm", "ovn", "tailscale", "usbip"}
  BY <1>1, <1>3, Outcomes DEF Stop, MultipathStop, LvmStop, OvnStop, TailscaleStop
<1> QED BY <1>2, <1>3, <1>4 DEF Services

\* What a start with a revision in effect looks like.
Started(r, rev) == r.unit /\ r.applied = rev
Outcome(o, rev) == o.sys \in SysStates /\ o.ok \in BOOLEAN /\ (o.ok => Started(o.sys, rev))

LEMMA NewIdentity ==
    ASSUME NEW r \in SysStates
    PROVE  /\ [r EXCEPT !.identity = IF @ = "none" THEN "set" ELSE @] \in SysStates
           /\ [r EXCEPT !.identity = "empty"] \in SysStates
BY DEF SysStates, Identities

LEMMA ConfiguringStarts ==
    ASSUME NEW r \in SysStates, NEW c \in Configs
    PROVE  /\ \A o \in CephStart(r, c) \cup LinstorStart(r, c) \cup MultipathStart(r, c) : Outcome(o, c.rev)
           /\ \A o \in LvmStart(r, c) \cup OvnConfigure(r, c) \cup UsbipStart(r, c) \cup NvmeReset(r, c) : Outcome(o, c.rev)
           /\ \A o \in IscsiStart(r, c) \cup NvmeStart(r, c) : Outcome(o, c.rev)
<1>1. c.rev \in Revisions
  BY DEF Configs, Revisions
<1>2. c.rev \in 0 .. Mixed /\ Mixed \in 0 .. Mixed
  BY <1>1, Revs
<1>3. /\ Up(r) \in SysStates /\ Apply(r, c.rev) \in SysStates /\ Apply(r, Mixed) \in SysStates
      /\ Apply(Up(r), c.rev) \in SysStates /\ Started(Apply(Up(r), c.rev), c.rev)
  <2>1. Up(r) \in SysStates /\ Up(r).unit
    BY <1>2, SysEdits
  <2> QED BY <1>2, <2>1, SysEdits DEF Started
<1>7. ASSUME NEW o \in CephStart(r, c) PROVE Outcome(o, c.rev)
  <2>1. o = Err(r) \/ \E t \in SUBSET r.traces :
            \/ o = Ok(Hold(Up(r), c.rev, t \cup {c.rev}))
            \/ o = Err(Apply(Hold(Up(r), c.rev, t \cup {c.rev}), Mixed))
    BY <1>7 DEF CephStart
  <2>2. Up(r) \in SysStates /\ Up(r).unit
    BY <1>2, SysEdits
  <2>3. ASSUME NEW t \in SUBSET r.traces
        PROVE  /\ Hold(Up(r), c.rev, t \cup {c.rev}) \in SysStates
               /\ Started(Hold(Up(r), c.rev, t \cup {c.rev}), c.rev)
    <3>1. t \cup {c.rev} \in SUBSET Revisions
      BY <1>1, <2>3 DEF SysStates
    <3> QED BY <1>2, <2>2, <3>1, TracesEdits DEF Started
  <2>4. CASE o = Err(r)
    BY <2>4, Outcomes DEF Outcome
  <2>5. ASSUME NEW t \in SUBSET r.traces,
               \/ o = Ok(Hold(Up(r), c.rev, t \cup {c.rev}))
               \/ o = Err(Apply(Hold(Up(r), c.rev, t \cup {c.rev}), Mixed))
        PROVE  Outcome(o, c.rev)
    <3> DEFINE x == Hold(Up(r), c.rev, t \cup {c.rev})
    <3>1. x \in SysStates /\ Started(x, c.rev)
      BY <2>3, <2>5
    <3>3. o = Ok(x) \/ o = Err(Apply(x, Mixed))
      BY <2>5
    <3> HIDE DEF x
    <3>2. Apply(x, Mixed) \in SysStates
      BY <1>2, <3>1, SysEdits
    <3> QED BY <3>1, <3>2, <3>3, Outcomes DEF Outcome
  <2> QED BY <2>1, <2>4, <2>5
<1>4. \A o \in CephStart(r, c) \cup LinstorStart(r, c) \cup MultipathStart(r, c) : Outcome(o, c.rev)
  <2>1. \A x \in LinstorStart(r, c) \cup MultipathStart(r, c) : Outcome(x, c.rev)
    BY <1>3, Outcomes DEF LinstorStart, MultipathStart, Partly, Outcome
  <2> QED BY <1>7, <2>1
<1>5. \A o \in LvmStart(r, c) \cup OvnConfigure(r, c) \cup UsbipStart(r, c) \cup NvmeReset(r, c) : Outcome(o, c.rev)
  BY <1>3, Outcomes DEF LvmStart, OvnConfigure, UsbipStart, NvmeReset, Outcome
<1>6. \A o \in IscsiStart(r, c) \cup NvmeStart(r, c) : Outcome(o, c.rev)
  <2> DEFINE n == [r EXCEPT !.identity = IF @ = "none" THEN "set" ELSE @]
             e == [r EXCEPT !.identity = "empty"]
  <2>1. n \in SysStates /\ e \in SysStates
    BY NewIdentity
  <2>2. Up(n) \in SysStates /\ Up(n).unit
    BY <2>1, <1>2, SysEdits
  <2>3. Apply(Up(n), c.rev) \in SysStates /\ Started(Apply(Up(n), c.rev), c.rev) /\ Apply(Up(n), Mixed) \in SysStates
    BY <1>2, <2>2, SysEdits DEF Started
  <2> DEFINE on == Hold(Up(n), c.rev, n.traces \cup {c.rev})
  <2>4. \A o \in IscsiStart(r, c) \cup NvmeStart(r, c) :
            o \in {Ok(Apply(Up(n), c.rev)), Err(n), Err(Apply(Up(n), Mixed)), Err(r), Err(e), Ok(on), Err(Apply(on, Mixed))}
    BY DEF IscsiStart, NvmeStart
  <2> HIDE DEF n, e
  <2>5. on \in SysStates /\ Started(on, c.rev)
    <3>1. n.traces \cup {c.rev} \in SUBSET Revisions
      BY <1>1, <2>1 DEF SysStates
    <3> QED BY <1>2, <2>2, <3>1, TracesEdits DEF Started
  <2>6. Apply(on, Mixed) \in SysStates
    BY <1>2, <2>5, SysEdits
  <2> HIDE DEF on
  <2> QED BY <2>1, <2>3, <2>4, <2>5, <2>6, Outcomes DEF Outcome
<1> QED BY <1>4, <1>5, <1>6

\* Starting at boot: all but Netbird and Tailscale are configured by it.
LEMMA StartOutcome ==
    ASSUME NEW s \in Services, NEW r \in SysStates, NEW c \in Configs, NEW o \in Start(s, r, c)
    PROVE  o.sys \in SysStates /\ o.ok \in BOOLEAN /\ (o.ok /\ s \notin {"netbird", "tailscale"} => Started(o.sys, c.rev))
<1>1. CASE s \in {"netbird", "tailscale"}
  <2>1. Up(r) \in SysStates
    BY SysEdits, Revs
  <2> QED BY <1>1, <2>1, Outcomes DEF Start, NetbirdStart, TailscaleStart
<1>2. CASE s \notin {"netbird", "tailscale"}
  <2>1. o \in CephStart(r, c) \cup LinstorStart(r, c) \cup MultipathStart(r, c) \cup LvmStart(r, c)
              \cup OvnStart(r, c) \cup UsbipStart(r, c) \cup IscsiStart(r, c) \cup NvmeStart(r, c)
    BY <1>2 DEF Start, Services
  <2>2. Up(r) \in SysStates
    BY SysEdits, Revs
  <2>3. \A x \in OvnStart(r, c) : Outcome(x, c.rev)
    <3>1. \A x \in OvnConfigure(Up(r), c) : Outcome(x, c.rev)
      BY <2>2, ConfiguringStarts
    <3>2. Outcome(Err(r), c.rev)
      BY Outcomes DEF Outcome
    <3> QED BY <3>1, <3>2 DEF OvnStart
  <2>4. Outcome(o, c.rev)
    BY <2>1, <2>3, ConfiguringStarts
  <2> QED BY <2>4 DEF Outcome
<1> QED BY <1>1, <1>2

\* Of Ceph, without its directory there are no files, and those of the revision in effect are
\* there. A stop that succeeds leaves none, and a start adds only those of its revision.
CephFit(r) == (r.unit \/ r.traces = {}) /\ (r.applied \in Revisions => r.applied \in r.traces)

LEMMA CephStopped ==
    ASSUME NEW r \in SysStates, CephFit(r), NEW o \in CephStop(r)
    PROVE  CephFit(o.sys) /\ o.sys.traces \subseteq r.traces /\ (o.ok => o.sys.traces = {})
<1>1. 0 \notin Revisions /\ Mixed \notin Revisions
  BY ServicesAssumption DEF Revisions, Mixed
<1>2. CASE o = Ok(Hold(DownUnit(r), 0, {}))
  <2>1. DownUnit(r) \in SysStates
    BY SysEdits, Revs
  <2> QED BY <1>1, <1>2, <2>1, Outcomes, TracesEdits, Revs DEF CephFit
<1>3. CASE o = Err(r)
  BY <1>3, Outcomes
<1>4. ASSUME NEW t \in SUBSET r.traces, o = Err(Hold(r, Mixed, t))
      PROVE  CephFit(o.sys) /\ o.sys.traces \subseteq r.traces /\ ~o.ok
  <2>1. t \in SUBSET Revisions
    BY <1>4 DEF SysStates
  <2>2. LET x == Hold(r, Mixed, t)
        IN  x.unit = r.unit /\ x.applied = Mixed /\ x.traces = t
    BY <2>1, TracesEdits, Revs
  <2>3. r.traces = {} => t = {}
    BY <1>4
  <2> QED BY <1>1, <1>4, <2>2, <2>3, Outcomes DEF CephFit
<1> QED BY <1>2, <1>3, <1>4 DEF CephStop

LEMMA CephStarted ==
    ASSUME NEW r \in SysStates, CephFit(r), NEW c \in Configs, NEW o \in CephStart(r, c)
    PROVE  CephFit(o.sys) /\ o.sys.traces \subseteq r.traces \cup {c.rev}
<1>1. c.rev \in Revisions /\ c.rev \in 0 .. Mixed /\ Mixed \in 0 .. Mixed /\ Mixed \notin Revisions
  BY Revs, ServicesAssumption DEF Configs, Revisions, Mixed
<1>2. Up(r) \in SysStates /\ Up(r).unit
  BY <1>1, SysEdits
<1>3. ASSUME NEW t \in SUBSET r.traces, NEW x, x = Hold(Up(r), c.rev, t \cup {c.rev}),
             o = Ok(x) \/ o = Err(Apply(x, Mixed))
      PROVE  CephFit(o.sys) /\ o.sys.traces \subseteq r.traces \cup {c.rev}
  <2>1. t \cup {c.rev} \in SUBSET Revisions
    BY <1>1, <1>3 DEF SysStates
  <2>2. x \in SysStates /\ x.unit /\ x.applied = c.rev /\ x.traces = t \cup {c.rev}
    BY <1>1, <1>2, <1>3, <2>1, TracesEdits
  <2>3. Apply(x, Mixed).unit /\ Apply(x, Mixed).applied = Mixed /\ Apply(x, Mixed).traces = t \cup {c.rev}
    BY <2>2 DEF Apply, SysStates
  <2> QED BY <1>1, <1>3, <2>2, <2>3, Outcomes DEF CephFit
<1>4. CASE o = Err(r)
  BY <1>4, Outcomes
<1>5. \/ o = Err(r)
      \/ \E t \in SUBSET r.traces : \/ o = Ok(Hold(Up(r), c.rev, t \cup {c.rev}))
                                  \/ o = Err(Apply(Hold(Up(r), c.rev, t \cup {c.rev}), Mixed))
  BY DEF CephStart
<1> QED BY <1>3, <1>4, <1>5

\* What an update does once the old configuration was stopped, if it had to be: with the
\* service enabled it is a start, otherwise it leaves the units alone. An update of LVM that
\* was enabled, whether or not it runs, only changes what it is configured with.
LEMMA UpdateOutcome ==
    ASSUME NEW s \in Services, NEW r \in SysStates, NEW was \in Configs, NEW new \in Configs,
           NEW o \in Update(s, was, new, r)
    PROVE  /\ o.sys \in SysStates /\ o.ok \in BOOLEAN
           /\ o.ok /\ new.enabled /\ s \notin {"netbird", "tailscale"}
                 => o.sys.applied = new.rev /\ (o.sys.unit \/ s = "lvm")
           /\ ~new.enabled => o.sys.unit = r.unit
<1>0. new.rev \in 0 .. Mixed
  BY Revs DEF Configs, Revisions
<1>1. Ok(r).sys = r /\ Ok(r).ok = TRUE
  BY Outcomes
<1>2. CASE s = "lvm"
  <2>1. \A x \in LvmStart(r, new) : Outcome(x, new.rev)
    BY ConfiguringStarts
  <2>2. Apply(r, new.rev) \in SysStates /\ Apply(r, new.rev).unit = r.unit /\ Apply(r, new.rev).applied = new.rev
    BY <1>0, SysEdits
  <2>3. \A x \in LvmConfigure(r, new) :
            x.sys \in SysStates /\ x.ok \in BOOLEAN /\ x.sys.unit = r.unit /\ (x.ok => x.sys.applied = new.rev)
    BY <2>2, Outcomes DEF LvmConfigure
  <2>4. o \in LvmUpdate(was, new, r)
    BY <1>2 DEF Update
  <2> QED BY <1>2, <2>1, <2>3, <2>4 DEF LvmUpdate, Outcome, Started
<1>3. CASE s # "lvm" /\ ~new.enabled
  <2>1. o = Ok(r)
    BY <1>3 DEF Update, CephUpdate, IscsiUpdate, LinstorUpdate, NvmeUpdate, NetbirdUpdate, MultipathUpdate,
                OvnUpdate, TailscaleUpdate, UsbipUpdate, Services
  <2> QED BY <1>1, <1>3, <2>1
<1>4. CASE s \in {"ceph", "iscsi", "linstor", "nvme", "multipath", "usbip"} /\ new.enabled
  <2>1. o \in CephStart(r, new) \cup LinstorStart(r, new) \cup MultipathStart(r, new) \cup UsbipStart(r, new)
              \cup IscsiStart(r, new) \cup NvmeStart(r, new)
    BY <1>4 DEF Update, CephUpdate, IscsiUpdate, LinstorUpdate, NvmeUpdate, MultipathUpdate, UsbipUpdate
  <2>2. Outcome(o, new.rev)
    BY <2>1, ConfiguringStarts
  <2> QED BY <1>4, <2>2 DEF Outcome, Started
<1>5. CASE s = "ovn" /\ new.enabled
  <2>1. Up(r) \in SysStates
    BY SysEdits, Revs
  <2>2. \A x \in SysStates : \A y \in OvnConfigure(x, new) : Outcome(y, new.rev)
    BY ConfiguringStarts
  <2>3. \A x \in OvnStart(r, new) : Outcome(x, new.rev)
    <3>1. \A x \in OvnConfigure(Up(r), new) : Outcome(x, new.rev)
      BY <2>1, <2>2
    <3>2. Outcome(Err(r), new.rev)
      BY Outcomes DEF Outcome
    <3> QED BY <3>1, <3>2 DEF OvnStart
  <2>4. o \in OvnUpdate(was, new, r)
    BY <1>5 DEF Update
  <2>5. CASE was.enabled
    BY <1>5, <2>2, <2>4, <2>5 DEF OvnUpdate, Outcome, Started
  <2>6. CASE ~was.enabled
    <3>1. PICK x \in OvnStart(r, new) : o \in IF x.ok THEN OvnConfigure(x.sys, new) ELSE {x}
      BY <1>5, <2>4, <2>6 DEF OvnUpdate, Then
    <3>2. Outcome(x, new.rev)
      BY <2>3
    <3>3. CASE x.ok
      BY <1>5, <2>2, <3>1, <3>2, <3>3 DEF Outcome, Started
    <3>4. CASE ~x.ok
      BY <1>5, <3>1, <3>2, <3>4 DEF Outcome
    <3> QED BY <3>3, <3>4
  <2> QED BY <2>5, <2>6
<1>6. CASE s = "netbird" /\ new.enabled
  <2>1. \A x \in NetbirdStart(r) : x.sys \in SysStates /\ x.ok \in BOOLEAN
    <3>1. Up(r) \in SysStates
      BY SysEdits, Revs
    <3> QED BY <3>1, Outcomes DEF NetbirdStart
  <2>2. ASSUME NEW x \in SysStates, NEW y \in NetbirdConfigure(x, new) PROVE y.sys \in SysStates /\ y.ok \in BOOLEAN
    <3>1. Apply(x, new.rev) \in SysStates /\ Apply(x, 0) \in SysStates
      BY <1>0, SysEdits, Revs
    <3> QED BY <2>2, <3>1, Outcomes DEF NetbirdConfigure
  <2>3. PICK x \in NetbirdStart(r) : o \in IF x.ok THEN NetbirdConfigure(x.sys, new) ELSE {x}
    BY <1>6 DEF Update, NetbirdUpdate, Then
  <2> QED BY <1>6, <2>1, <2>2, <2>3
<1>7. CASE s = "tailscale" /\ new.enabled
  <2>1. \A x \in TailscaleStart(r) : x.sys \in SysStates /\ x.ok \in BOOLEAN
    <3>1. Up(r) \in SysStates
      BY SysEdits, Revs
    <3> QED BY <3>1, Outcomes DEF TailscaleStart
  <2>2. ASSUME NEW x \in SysStates, NEW y \in TailscaleConfigure(x, new) PROVE y.sys \in SysStates /\ y.ok \in BOOLEAN
    <3>1. Apply(x, new.rev) \in SysStates /\ Apply(x, Mixed) \in SysStates
      BY <1>0, SysEdits, Revs
    <3> QED BY <2>2, <3>1, Outcomes DEF TailscaleConfigure
  <2>3. PICK x \in TailscaleStart(r) : o \in IF x.ok THEN TailscaleConfigure(x.sys, new) ELSE {x}
    BY <1>7 DEF Update, TailscaleUpdate, Then
  <2> QED BY <1>7, <2>1, <2>2, <2>3
<1> QED BY <1>2, <1>3, <1>4, <1>5, <1>6, <1>7 DEF Services

CallFields == {"at", "new", "ok", "boot"}

ServicesTypes ==
    /\ svc \in Services /\ installed \in BOOLEAN /\ seeded \in BOOLEAN /\ fine \in BOOLEAN
    /\ conf \in Configs /\ saved \in Configs /\ sys \in SysStates
    /\ DOMAIN call = CallFields /\ call.new \in Configs /\ call.ok \in BOOLEAN
    /\ call.at \in {"idle", "stop", "update", "save", "off", "start", "seeded"}
    /\ cut \in BOOLEAN /\ \A c \in seedConf : c \in Configs

\* What is recorded runs with the recorded revision.
InEffect ==
    conf.enabled /\ svc \notin {"netbird", "tailscale", "multipath"} => sys.applied = conf.rev /\ (sys.unit \/ svc = "lvm")
\* A service that is stopped when it is disabled.
Stops == svc \notin {"tailscale", "usbip"}

\* Nothing is left of another configuration than c, unless an update was cut off.
Tidy(c) ==
    ~cut => /\ ~c.enabled /\ Stops => ~sys.unit
            /\ svc = "ceph" => sys.traces \subseteq {c.rev}

\* While the system is off the saved configuration counts, afterwards the one in the state;
\* they differ only from the change to the save. An application that is removed and installed
\* again does not matter: what runs is right whether or not the service is supported.
ServicesInv ==
    /\ ServicesTypes /\ (svc = "ceph" => CephFit(sys))
    /\ At("off") => Tidy(saved)
    /\ ~At("off") => Tidy(conf)
    /\ ~At("off") /\ ~At("save") => saved = conf
    /\ At("update") /\ ~cut /\ (~call.new.enabled \/ svc = "ceph") /\ Stops => ~sys.unit
    /\ At("save") /\ call.ok => InEffect
    /\ At("idle") /\ fine => InEffect

LEMMA ServicesInvInit == ASSUME ServicesInit PROVE ServicesInv
<1>1. NoConfig \in Configs /\ 1 \in Revisions
  BY ServicesAssumption DEF NoConfig, Configs, Revisions
<1>2. [unit |-> FALSE, applied |-> 0, identity |-> "none", traces |-> {}] \in SysStates
  BY Revs DEF SysStates, Identities
<1>3. DOMAIN call = CallFields /\ call.new = NoConfig /\ call.ok = TRUE /\ call.at = "off"
  BY DEF ServicesInit, Idle, CallFields
<1>4. \A c \in seedConf : c \in Configs
  BY DEF ServicesInit
<1>5. ServicesTypes
  BY <1>1, <1>2, <1>3, <1>4 DEF ServicesInit, ServicesTypes
<1>6. 0 \notin Revisions
  BY DEF Revisions
<1> QED BY <1>3, <1>5, <1>6 DEF ServicesInit, ServicesInv, At, Tidy, CephFit

LEMMA IdleCall == DOMAIN Idle = CallFields /\ Idle.at = "idle" /\ Idle.new \in Configs /\ Idle.ok = TRUE
BY ServicesAssumption DEF Idle, CallFields, NoConfig, Configs

LEMMA RebootedSys ==
    ASSUME NEW r \in SysStates
    PROVE  /\ Rebooted(r) \in SysStates /\ (svc # "ceph" => ~Rebooted(r).unit)
           /\ svc = "ceph" => Rebooted(r) = r
BY Revs DEF Rebooted, DownUnit, Hold, SysStates

\* The steps of an update.
LEMMA ServiceUpdateSteps ==
    ASSUME ServicesInv, (\E new \in Configs : ServicePut(new)) \/ UpdateStop \/ UpdateStart \/ UpdateSave
    PROVE  ServicesInv'
<1> USE DEF At
<1>1. ASSUME NEW new \in Configs, ServicePut(new) PROVE ServicesInv'
  <2>1. /\ DOMAIN call' = CallFields /\ call'.at = "stop" /\ call'.new = new /\ call'.ok = TRUE
    BY <1>1 DEF ServicePut, Idle, CallFields
  <2>2. UNCHANGED <<svc, seedConf, installed, conf, saved, sys, fine, seeded, cut>> /\ call.at = "idle"
    BY <1>1 DEF ServicePut, serviceConst
  <2>3. ServicesTypes'
    BY <2>1, <2>2 DEF ServicesInv, ServicesTypes
  <2> QED BY <2>1, <2>2, <2>3 DEF ServicesInv, Stops, Tidy, CephFit
<1>2. CASE UpdateStop
  <2>1. UNCHANGED <<svc, seedConf, installed, conf, saved, fine, seeded>> /\ call.at = "stop"
    BY <1>2 DEF UpdateStop, serviceConst
  <2>2. PICK o \in IF StopsFirst(svc, conf, call.new) THEN Stop(svc, sys) ELSE {Ok(sys)} :
          /\ sys' = o.sys
          /\ call' = [call EXCEPT !.at = IF o.ok THEN "update" ELSE "save", !.ok = o.ok]
          /\ cut' = (cut /\ ~(StopsFirst(svc, conf, call.new) /\ o.ok))
    BY <1>2 DEF UpdateStop
  <2>3. o.sys \in SysStates /\ o.ok \in BOOLEAN
    <3>1. sys \in SysStates /\ svc \in Services
      BY DEF ServicesInv, ServicesTypes
    <3>2. CASE o \in Stop(svc, sys)
      BY <3>1, <3>2, StopOutcome
    <3>3. CASE o = Ok(sys)
      BY <3>1, <3>3, Outcomes
    <3> QED BY <2>2, <3>2, <3>3
  <2>4. /\ DOMAIN call' = CallFields /\ call'.new = call.new /\ call'.ok = o.ok
        /\ call'.at = IF o.ok THEN "update" ELSE "save"
    BY <2>2 DEF ServicesInv, ServicesTypes, CallFields
  <2>5. ServicesTypes'
    BY <2>1, <2>2, <2>3, <2>4 DEF ServicesInv, ServicesTypes
  <2>6. StopsFirst(svc, conf, call.new) => o \in Stop(svc, sys) /\ svc # "usbip" /\ (o.ok => ~o.sys.unit)
    BY <2>2, StopOutcome DEF StopsFirst, ServicesInv, ServicesTypes
  <2>7. ~StopsFirst(svc, conf, call.new) => o.sys = sys /\ o.ok /\ cut' = cut
    BY <2>2, Outcomes DEF ServicesInv, ServicesTypes
  <2>8. svc = "ceph" => /\ CephFit(o.sys) /\ o.sys.traces \subseteq sys.traces
                        /\ StopsFirst(svc, conf, call.new) /\ o.ok => o.sys.traces = {}
    <3>1. sys \in SysStates
      BY DEF ServicesInv, ServicesTypes
    <3>2. ASSUME svc = "ceph" PROVE CephFit(sys)
      BY <3>2 DEF ServicesInv
    <3>3. ASSUME svc = "ceph", StopsFirst(svc, conf, call.new) PROVE o \in CephStop(sys)
      BY <2>6, <3>3 DEF Stop
    <3>4. ASSUME svc = "ceph", StopsFirst(svc, conf, call.new)
          PROVE  CephFit(o.sys) /\ o.sys.traces \subseteq sys.traces /\ (o.ok => o.sys.traces = {})
      BY <3>1, <3>2, <3>3, <3>4, CephStopped
    <3>5. ASSUME svc = "ceph", ~StopsFirst(svc, conf, call.new) PROVE o.sys = sys
      BY <2>7, <3>5
    <3> QED BY <3>2, <3>4, <3>5
  <2>9. cut' \/ (StopsFirst(svc, conf, call.new) /\ o.ok) \/ ~cut
    BY <2>2 DEF ServicesInv, ServicesTypes
  <2>10. Tidy(conf)'
    <3>1. CASE StopsFirst(svc, conf, call.new) /\ o.ok
      BY <2>1, <2>2, <2>6, <2>8, <3>1 DEF Tidy, Stops
    <3>2. CASE ~cut /\ ~conf.enabled
      <4>1. ~StopsFirst(svc, conf, call.new)
        BY <3>2 DEF StopsFirst
      <4> QED BY <2>1, <2>2, <2>7, <3>2, <4>1 DEF Tidy, Stops, ServicesInv
    <3>3. CASE ~cut /\ conf.enabled
      BY <2>1, <2>2, <2>8, <3>3 DEF Tidy, Stops, ServicesInv
    <3> QED BY <2>9, <3>1, <3>2, <3>3 DEF Tidy
  <2>11. ~cut' /\ o.ok /\ (~call.new.enabled \/ svc = "ceph") /\ Stops => ~o.sys.unit
    <3>1. Stops /\ conf.enabled /\ (~call.new.enabled \/ svc = "ceph") => StopsFirst(svc, conf, call.new)
      BY DEF StopsFirst, Stops
    <3>2. ~cut /\ Stops /\ ~conf.enabled => ~sys.unit
      BY <2>1 DEF ServicesInv, Tidy
    <3> QED BY <2>6, <2>7, <3>1, <3>2
  <2>12. (svc = "ceph" => CephFit(sys))'
    BY <2>1, <2>2, <2>8 DEF CephFit
  <2> QED BY <2>1, <2>2, <2>4, <2>5, <2>10, <2>11, <2>12 DEF ServicesInv, Stops
<1>3. CASE UpdateStart
  <2>1. UNCHANGED <<svc, seedConf, installed, saved, fine, seeded, cut>> /\ call.at = "update"
    BY <1>3 DEF UpdateStart, serviceConst
  <2>2. PICK o \in Update(svc, conf, call.new, sys) :
          /\ sys' = o.sys /\ conf' = Recorded(svc, conf, call.new, o.ok)
          /\ call' = [call EXCEPT !.at = "save", !.ok = o.ok]
    BY <1>3 DEF UpdateStart
  <2>3. /\ o.sys \in SysStates /\ o.ok \in BOOLEAN
        /\ o.ok /\ call.new.enabled /\ svc \notin {"netbird", "tailscale"}
                 => o.sys.applied = call.new.rev /\ (o.sys.unit \/ svc = "lvm")
        /\ ~call.new.enabled => o.sys.unit = sys.unit
    BY <2>2, UpdateOutcome DEF ServicesInv, ServicesTypes
  <2>4. /\ DOMAIN call' = CallFields /\ call'.new = call.new /\ call'.ok = o.ok /\ call'.at = "save"
    BY <2>2 DEF ServicesInv, ServicesTypes, CallFields
  <2>5. /\ conf' \in {conf, call.new}
        /\ svc \notin {"tailscale", "multipath"} => conf' = call.new
        /\ svc = "multipath" /\ ~conf'.enabled => ~call.new.enabled
    BY <2>2 DEF Recorded
  <2>6. ServicesTypes'
    BY <2>1, <2>2, <2>3, <2>4, <2>5 DEF ServicesInv, ServicesTypes
  <2>7. ~cut /\ Stops /\ ~conf'.enabled => ~o.sys.unit
    BY <2>1, <2>3, <2>5 DEF ServicesInv, Stops
  <2>8. o.ok => InEffect'
    BY <2>1, <2>2, <2>3, <2>5 DEF InEffect
  <2>9. svc = "ceph" => CephFit(o.sys) /\ (~cut => o.sys.traces \subseteq {conf'.rev})
    <3>1. ASSUME svc = "ceph" PROVE sys \in SysStates /\ CephFit(sys) /\ conf' = call.new /\ call.new \in Configs
      BY <2>5, <3>1 DEF ServicesInv, ServicesTypes
    <3>2. ASSUME svc = "ceph", ~cut PROVE sys.traces = {}
      BY <2>1, <3>1, <3>2 DEF ServicesInv, Stops, CephFit
    <3>3. ASSUME svc = "ceph" PROVE o = Ok(sys) \/ o \in CephStart(sys, call.new)
      BY <2>2, <3>3 DEF Update, CephUpdate
    <3> QED BY <3>1, <3>2, <3>3, Outcomes, CephStarted
  <2>10. Tidy(conf)' /\ (svc = "ceph" => CephFit(sys))'
    BY <2>1, <2>2, <2>7, <2>9 DEF Tidy, Stops, CephFit
  <2> QED BY <2>1, <2>2, <2>4, <2>6, <2>8, <2>10 DEF ServicesInv
<1>4. CASE UpdateSave
  <2>1. /\ UNCHANGED <<svc, seedConf, installed, conf, sys, seeded, cut>> /\ call.at = "save"
        /\ saved' = conf /\ fine' = call.ok
    BY <1>4 DEF UpdateSave, serviceConst
  <2>2. /\ DOMAIN call' = CallFields /\ call'.at \in {"idle", "seeded"} /\ call'.new \in Configs /\ call'.ok \in BOOLEAN
    <3>1. CASE call' = Idle
      BY <3>1, IdleCall
    <3>2. CASE call' = [call EXCEPT !.at = "seeded"]
      BY <3>2 DEF ServicesInv, ServicesTypes, CallFields
    <3> QED BY <1>4, <3>1, <3>2 DEF UpdateSave
  <2>3. ServicesTypes'
    BY <2>1, <2>2 DEF ServicesInv, ServicesTypes
  <2> QED BY <1>4, <2>1, <2>2, <2>3 DEF ServicesInv, Stops, InEffect, Tidy, CephFit, UpdateSave, Idle
<1> QED BY <1>1, <1>2, <1>3, <1>4

LEMMA ResetOutcome ==
    ASSUME NEW r \in SysStates, NEW c \in Configs
    PROVE  /\ \A o \in LvmReset(r, c) \cup NvmeReset(r, c) : Outcome(o, c.rev)
           /\ \A o \in OvnReset(r) : /\ o.sys \in SysStates /\ o.ok \in BOOLEAN
                                     /\ o.ok => o.sys.unit /\ o.sys.applied = r.applied
<1>1. DownUnit(r) \in SysStates /\ Up(r) \in SysStates /\ Up(r).unit /\ Up(r).applied = r.applied
  BY SysEdits, Revs
<1>2. \A o \in LvmStart(DownUnit(r), c) : Outcome(o, c.rev)
  BY <1>1, ConfiguringStarts
<1>3. \A o \in LvmReset(r, c) : Outcome(o, c.rev)
  <2>1. Outcome(Err(r), c.rev) /\ Outcome(Err(DownUnit(r)), c.rev)
    BY <1>1, Outcomes DEF Outcome
  <2> QED BY <1>2, <2>1 DEF LvmReset
<1>4. \A o \in NvmeReset(r, c) : Outcome(o, c.rev)
  BY ConfiguringStarts
<1>5. \A o \in OvnReset(r) : /\ o.sys \in SysStates /\ o.ok \in BOOLEAN
                             /\ o.ok => o.sys.unit /\ o.sys.applied = r.applied
  BY <1>1, Outcomes DEF OvnReset
<1> QED BY <1>3, <1>4, <1>5

LEMMA ServiceResetInv == ASSUME ServicesInv, ServiceReset PROVE ServicesInv'
<1> USE DEF At
<1>1. /\ UNCHANGED <<svc, seedConf, installed, conf, saved, call, seeded, cut>> /\ call.at = "idle"
      /\ conf.enabled /\ svc \in {"lvm", "nvme", "ovn"}
  BY DEF ServiceReset, serviceConst
<1>2. PICK o \in CASE svc = "lvm" -> LvmReset(sys, conf) [] svc = "nvme" -> NvmeReset(sys, conf) [] OTHER -> OvnReset(sys) :
        sys' = o.sys /\ fine' = (fine /\ o.ok)
  BY DEF ServiceReset
<1>3. sys \in SysStates /\ conf \in Configs /\ fine \in BOOLEAN
  BY DEF ServicesInv, ServicesTypes
<1>4. /\ o.sys \in SysStates /\ o.ok \in BOOLEAN
      /\ fine /\ o.ok => o.sys.unit /\ o.sys.applied = conf.rev
  <2>1. CASE svc \in {"lvm", "nvme"}
    BY <1>2, <1>3, <2>1, ResetOutcome DEF Outcome, Started
  <2>2. CASE svc = "ovn"
    BY <1>1, <1>2, <1>3, <2>2, ResetOutcome DEF ServicesInv, InEffect
  <2> QED BY <1>1, <2>1, <2>2
<1>5. ServicesTypes'
  BY <1>1, <1>2, <1>3, <1>4 DEF ServicesInv, ServicesTypes
<1>6. fine' => InEffect'
  BY <1>1, <1>2, <1>3, <1>4 DEF InEffect
<1> QED BY <1>1, <1>5, <1>6 DEF ServicesInv, Tidy, Stops

\* The daemon ends, and what it leaves is of the saved configuration or known to be cut off.
LEMMA EndsInv ==
    ASSUME ServicesInv, NEW r \in SysStates, NEW left \in BOOLEAN, Ends(r, left),
           UNCHANGED <<svc, seedConf, installed, conf, fine, seeded>>, saved' \in Configs,
           call' = [call EXCEPT !.at = "off"],
           svc = "ceph" => CephFit(r),
           ~left => (~saved'.enabled /\ Stops => ~r.unit) /\ (svc = "ceph" => r.traces \subseteq {saved'.rev})
    PROVE  ServicesInv'
<1> USE DEF At
<1>1. DOMAIN call' = CallFields /\ call'.at = "off" /\ call'.new = call.new /\ call'.ok = call.ok
  BY DEF ServicesInv, ServicesTypes, CallFields
<1>2. /\ Rebooted(r) \in SysStates /\ (svc # "ceph" => ~Rebooted(r).unit)
      /\ svc = "ceph" => Rebooted(r) = r
  BY RebootedSys
<1>3. sys' \in SysStates /\ cut' \in BOOLEAN
  BY <1>2 DEF Ends
<1>4. ServicesTypes'
  BY <1>1, <1>3 DEF ServicesInv, ServicesTypes
<1>5. Tidy(saved)' /\ (svc = "ceph" => CephFit(sys))'
  <2>1. CASE sys' = r /\ cut' = left
    BY <2>1 DEF Tidy, Stops, CephFit
  <2>2. CASE sys' = Rebooted(r) /\ cut' = (left /\ svc = "ceph")
    BY <1>2, <2>2 DEF Tidy, Stops, CephFit
  <2> QED BY <2>1, <2>2 DEF Ends
<1> QED BY <1>1, <1>4, <1>5 DEF ServicesInv

\* Boots, shutdowns and applications.
LEMMA ServiceBootSteps ==
    ASSUME ServicesInv,
           ServiceApplication \/ ServicesStart \/ SeedApplied \/ StartServices \/ ServicesShutdown \/ ServicesPowerLoss
    PROVE  ServicesInv'
<1> USE DEF At
<1>1. CASE ServiceApplication
  <2>1. /\ UNCHANGED <<svc, seedConf, conf, saved, sys, call, fine, seeded, cut>> /\ installed' = ~installed
    BY <1>1 DEF ServiceApplication, serviceConst
  <2> QED BY <2>1 DEF ServicesInv, ServicesTypes, InEffect, Stops, Tidy, CephFit
<1>2. CASE ServicesStart
  <2>1. /\ UNCHANGED <<svc, seedConf, installed, saved, sys, fine, seeded, cut>> /\ conf' = saved /\ call.at = "off"
    BY <1>2 DEF ServicesStart, serviceConst
  <2>2. /\ DOMAIN call' = CallFields /\ call'.at \in {"start", "seeded", "stop"} /\ call'.ok = TRUE
        /\ call'.new = IF seedConf = {} THEN NoConfig ELSE CHOOSE c \in seedConf : TRUE
    BY <1>2 DEF ServicesStart, Idle, CallFields
  <2>3. call'.new \in Configs
    BY <2>2, IdleCall DEF Idle, ServicesInv, ServicesTypes
  <2>4. ServicesTypes'
    BY <2>1, <2>2, <2>3 DEF ServicesInv, ServicesTypes
  <2> QED BY <2>1, <2>2, <2>4 DEF ServicesInv, Tidy, Stops, CephFit
<1>3. CASE SeedApplied
  <2>1. /\ UNCHANGED <<svc, seedConf, installed, conf, sys, fine, cut>> /\ saved' = conf /\ seeded' = TRUE
        /\ call' = [call EXCEPT !.at = "start"] /\ call.at = "seeded"
    BY <1>3 DEF SeedApplied, serviceConst, GoTo
  <2>2. DOMAIN call' = CallFields /\ call'.at = "start" /\ call'.new = call.new /\ call'.ok = call.ok
    BY <2>1 DEF ServicesInv, ServicesTypes, CallFields
  <2> QED BY <2>1, <2>2 DEF ServicesInv, ServicesTypes, Stops, Tidy, CephFit
<1>4. CASE StartServices
  <2>1. /\ UNCHANGED <<svc, seedConf, installed, conf, saved, seeded, cut>> /\ call' = Idle /\ call.at = "start"
    BY <1>4 DEF StartServices, serviceConst
  <2>2. CASE conf.enabled /\ \E o \in Start(svc, sys, conf) : sys' = o.sys /\ fine' = o.ok
    <3>1. PICK o \in Start(svc, sys, conf) : sys' = o.sys /\ fine' = o.ok
      BY <2>2
    <3>2. /\ o.sys \in SysStates /\ o.ok \in BOOLEAN
          /\ o.ok /\ svc \notin {"netbird", "tailscale"} => Started(o.sys, conf.rev)
      BY StartOutcome DEF ServicesInv, ServicesTypes
    <3>3. ServicesTypes'
      BY <2>1, <3>1, <3>2, IdleCall DEF ServicesInv, ServicesTypes
    <3>4. fine' => InEffect'
      BY <2>1, <3>1, <3>2 DEF InEffect, Started
    <3>5. svc = "ceph" => CephFit(o.sys) /\ o.sys.traces \subseteq sys.traces \cup {conf.rev}
      BY <3>1, CephStarted DEF Start, ServicesInv, ServicesTypes
    <3>6. Tidy(conf)' /\ (svc = "ceph" => CephFit(sys))'
      BY <2>1, <2>2, <3>1, <3>5 DEF ServicesInv, Tidy, Stops, CephFit
    <3> QED BY <2>1, <3>3, <3>4, <3>6, IdleCall DEF ServicesInv
  <2>3. CASE fine' = ~conf.enabled /\ UNCHANGED sys
    <3>1. ServicesTypes'
      BY <2>1, <2>3, IdleCall DEF ServicesInv, ServicesTypes, Configs
    <3> QED BY <2>1, <2>3, <3>1, IdleCall DEF ServicesInv, Stops, InEffect, Tidy, CephFit
  <2> QED BY <1>4, <2>2, <2>3 DEF StartServices
<1>5. CASE ServicesShutdown
  <2>1. /\ UNCHANGED <<svc, seedConf, installed, conf, fine, seeded>> /\ saved' = conf
        /\ call' = [call EXCEPT !.at = "off"] /\ call.at = "idle"
    BY <1>5 DEF ServicesShutdown, serviceConst, GoTo
  <2>2. CASE conf.enabled /\ \E o \in Stop(svc, sys) : Ends(o.sys, cut /\ ~o.ok)
    <3>1. PICK o \in Stop(svc, sys) : Ends(o.sys, cut /\ ~o.ok)
      BY <2>2
    <3>2. sys \in SysStates /\ svc \in Services /\ cut \in BOOLEAN
      BY DEF ServicesInv, ServicesTypes
    <3>3. o.sys \in SysStates /\ o.ok \in BOOLEAN
      BY <3>2, StopOutcome
    <3>4. svc = "ceph" => CephFit(o.sys) /\ o.sys.traces \subseteq sys.traces /\ (o.ok => o.sys.traces = {})
      BY <3>2, CephStopped DEF Stop, ServicesInv
    <3>5. ~(cut /\ ~o.ok) /\ svc = "ceph" => o.sys.traces \subseteq {conf.rev}
      BY <2>1, <3>3, <3>4 DEF ServicesInv, Tidy
    <3>6. ~(cut /\ ~o.ok) /\ ~conf.enabled /\ Stops => ~o.sys.unit
      BY <2>2
    <3> DEFINE left == cut /\ ~o.ok
    <3>7. left \in BOOLEAN /\ Ends(o.sys, left) /\ saved' \in Configs
      BY <2>1, <3>1, <3>2, <3>3 DEF ServicesInv, ServicesTypes
    <3>8. ~left => (~saved'.enabled /\ Stops => ~o.sys.unit) /\ (svc = "ceph" => o.sys.traces \subseteq {saved'.rev})
      BY <2>1, <3>5, <3>6
    <3> HIDE DEF left
    <3> QED BY <2>1, <3>3, <3>4, <3>7, <3>8, EndsInv
  <2>3. CASE Ends(sys, cut)
    <3>1. sys \in SysStates /\ cut \in BOOLEAN /\ (svc = "ceph" => CephFit(sys))
      BY DEF ServicesInv, ServicesTypes
    <3>2. ~cut => (~conf.enabled /\ Stops => ~sys.unit) /\ (svc = "ceph" => sys.traces \subseteq {conf.rev})
      BY <2>1 DEF ServicesInv, Tidy
    <3>3. saved' \in Configs
      BY <2>1 DEF ServicesInv, ServicesTypes
    <3> QED BY <2>1, <2>3, <3>1, <3>2, <3>3, EndsInv
  <2> QED BY <1>5, <2>2, <2>3 DEF ServicesShutdown
<1>6. CASE ServicesPowerLoss
  <2>1. /\ UNCHANGED <<svc, seedConf, installed, conf, saved, fine, seeded>> /\ call.at # "off"
        /\ call' = [call EXCEPT !.at = "off"] /\ Ends(sys, cut \/ (call.at = "save" /\ conf # saved))
    BY <1>6 DEF ServicesPowerLoss, serviceConst, GoTo
  <2>2. sys \in SysStates /\ cut \in BOOLEAN /\ (svc = "ceph" => CephFit(sys))
    BY DEF ServicesInv, ServicesTypes
  <2>3. ~(cut \/ (call.at = "save" /\ conf # saved)) =>
            (~saved.enabled /\ Stops => ~sys.unit) /\ (svc = "ceph" => sys.traces \subseteq {saved.rev})
    BY <2>1 DEF ServicesInv, Tidy
  <2> DEFINE left == cut \/ (call.at = "save" /\ conf # saved)
  <2>4. left \in BOOLEAN /\ Ends(sys, left) /\ saved' \in Configs
    BY <2>1, <2>2 DEF ServicesInv, ServicesTypes
  <2>5. ~left => (~saved'.enabled /\ Stops => ~sys.unit) /\ (svc = "ceph" => sys.traces \subseteq {saved'.rev})
    BY <2>1, <2>3
  <2> HIDE DEF left
  <2> QED BY <2>1, <2>2, <2>4, <2>5, EndsInv
<1> QED BY <1>1, <1>2, <1>3, <1>4, <1>5, <1>6

\* After any sequence of updates, resets, restarts, reboots, seeds, installations and removals of
\* the application, with every command of a service free to fail and the power lost or the daemon
\* killed anywhere (Update, Reset, Start and Stop of each service, ApplySeed, startup, shutdown):
\* an enabled service whose last update or start succeeded runs as it is recorded, but for
\* Netbird, Tailscale and multipath, and a disabled one does not run, but for Tailscale and
\* USB/IP; in both cases unless something is left of an update that ended before it was saved.
THEOREM RecordedRuns == ServicesSpec => []RecordedInEffect
<1>1. ServicesInit => ServicesInv
  BY ServicesInvInit
<1>2. ServicesInv /\ [ServicesNext]_serviceVars => ServicesInv'
  <2>1. CASE UNCHANGED serviceVars
    BY <2>1 DEF serviceVars, serviceConst, ServicesInv, ServicesTypes, InEffect, Stops, At, Tidy, CephFit
  <2> QED BY <2>1, ServiceUpdateSteps, ServiceResetInv, ServiceBootSteps DEF ServicesNext
<1>3. ServicesInv => RecordedInEffect
  <2>1. ServicesInv => conf.rev \in Revisions
    BY DEF ServicesInv, ServicesTypes, Configs, Revisions
  <2> QED BY <2>1 DEF ServicesInv, InEffect, Stops, RecordedInEffect, At, Tidy, CephFit
<1> QED BY <1>1, <1>2, <1>3, PTL DEF ServicesSpec
=============================================================================
