------------------------------- MODULE Storage -------------------------------
(***************************************************************************)
(* Drives, ZFS pools and encrypted drives, as the storage API and the      *)
(* start of the system change them. Every zpool, cryptsetup and blkdiscard *)
(* command is a step of its own, and so is every change of a key file      *)
(* under /var/lib/incus-os; the power may be lost between any two.         *)
(*                                                                         *)
(* A drive has a label, the pool it says it belongs to, and perhaps a LUKS *)
(* header. Drive 1 is the partition of the system drive. Keys are numbers, *)
(* 0 is no key. Log, cache and special devices take the same path as the   *)
(* data devices of a pool (updateZpoolHelper) and are not told apart. Of   *)
(* pools that share a name the model knows one.                            *)
(*                                                                         *)
(* zpool replace returns at once; the pool is then rebuilt onto the new    *)
(* drive (resilvered) while the old one stays in use. Until that is done   *)
(* zpool shows neither drive, but a vdev "replacing-0" in their place.     *)
(***************************************************************************)
EXTENDS Integers, FiniteSets, Sequences, SequencesExt

CONSTANTS
    MaxDrive,         \* drives 1 .. MaxDrive
    ExtraPools,       \* names of pools besides "local"
    StorageRequests,  \* requests that may be handled at the same time
    MaxKey,           \* how many keys are ever generated
    MaxStorageCalls,  \* how many requests and scrub jobs are ever started
    WrongKeys,        \* whether a user may give a key that is not the right one
    WipesNew,         \* whether a user may wipe a drive that a pool is being rebuilt onto
    PowerLosses       \* how often the power may be lost

Drives == 1 .. MaxDrive
Sys == 1
Pools == ExtraPools \cup {"local"}
PoolKeys == 0 .. MaxKey
Types == {"zfs-raid0", "zfs-raid1"}
NoPool == "none"

ASSUME StorageAssumption ==
    /\ MaxDrive \in Nat \ {0} /\ MaxKey \in Nat \ {0} /\ MaxStorageCalls \in Nat /\ PowerLosses \in Nat
    /\ WrongKeys \in BOOLEAN /\ WipesNew \in BOOLEAN /\ NoPool \notin Pools /\ "local" \notin ExtraPools

VARIABLES
    label,      \* the pool on the label of each drive
    header,     \* key of the LUKS header of each drive
    pool,       \* the pools that exist: type, devices online and degraded, key, and the
                \* old and new device of each replacement that is not finished
    live,       \* the pools that are imported
    loaded,     \* the pools whose key is loaded
    volumes,    \* datasets: pool and use
    poolFile,   \* zpool.<pool>.key
    driveFile,  \* luks.<drive>.key
    mapped,     \* drives that are open under /dev/mapper
    present,    \* drives that are plugged in
    scanning,   \* pools that are being scrubbed
    scrub,      \* the scrub job: the pools left and the one it waits for
    request,    \* requests that are being handled
    fresh,      \* keys generated so far
    calls,      \* requests and scrub jobs started so far
    losses      \* power losses left

disks == <<label, header, present>>
zpools == <<pool, live, loaded, volumes>>
keyFiles == <<poolFile, driveFile>>
scrubs == <<scanning, scrub>>
storageVars == <<disks, zpools, keyFiles, mapped, scrubs, request, fresh, calls, losses>>

NoPoolConfig == [type |-> "none", on |-> {}, off |-> {}, key |-> 0, swap |-> {}]
NoRequest == [at |-> "idle", pool |-> NoPool, devs |-> <<>>, type |-> "none", cur |-> <<>>,
              i |-> 0, todo |-> {}, now |-> 0, next |-> "idle", drive |-> 0, key |-> 0]
In(r, step) == request[r].at = step
Starting(r) == request[r].at \in {"off", "first", "firstCreate", "recover", "resilver"}
Go(r, step) == request' = [request EXCEPT ![r].at = step]
Done(r) == request' = [request EXCEPT ![r] = NoRequest]
Call == calls < MaxStorageCalls /\ calls' = calls + 1
Begin(r, rec) == In(r, "idle") /\ Call /\ request' = [request EXCEPT ![r] = rec]

Exists(p) == pool[p].type # "none"
Members(p) == pool[p].on \cup pool[p].off
Olds(p) == {s[1] : s \in pool[p].swap}
News(p) == {s[2] : s \in pool[p].swap}

\* The vdev "replacing-0" that stands for both devices of a replacement, as a device.
Replacing(s) == MaxDrive + s[2]
Healthy(p) == {s \in pool[p].swap : s[1] \in pool[p].on /\ s[2] \in present}
\* getZpoolMembersHelper: the devices listed as online and as degraded. A vdev of a pool without
\* redundancy that is none of the known types is an error.
ShownOn(p) == (pool[p].on \ Olds(p)) \cup {Replacing(s) : s \in Healthy(p)}
ShownOff(p) == (pool[p].off \ Olds(p)) \cup {Replacing(s) : s \in pool[p].swap \ Healthy(p)}
Listable(p) == pool[p].type = "zfs-raid0" => pool[p].swap = {}
\* Mutant: only drives that are online belong to a pool.
OnlineMemberPool(d) == {p \in live : d \in pool[p].on \ Olds(p)}
\* GetStorageInfo: the imported pool a drive is listed for; it fails if one cannot be listed.
MemberPool(d) == {p \in live : d \in Members(p) \ Olds(p)}
AllListable == \A p \in live : Listable(p)

\* zpool import finds enough of the pool.
Importable(p) ==
    /\ Exists(p)
    /\ LET there == {d \in pool[p].on \cap present : label[d] = p}
       IN  IF pool[p].type = "zfs-raid1" THEN there # {} ELSE there = pool[p].on
\* The pool as it is imported: a device that was wiped meanwhile is lost to it; of a
\* replacement the new one may be left, 0 is then the old one.
Found(p) == [pool[p] EXCEPT !.on = {d \in @ : label[d] = p}, !.off = {d \in @ : label[d] = p},
                            !.swap = {<<IF s[1] \in Members(p) /\ label[s[1]] = p THEN s[1] ELSE 0, s[2]>> :
                                         s \in {x \in @ : label[x[2]] = p}}]
\* A device zpool and cryptsetup may take: plugged in, without a label and not in use.
Usable(d) ==
    /\ d \in present /\ label[d] = NoPool /\ d \notin mapped
    /\ \A p \in live : d \notin Members(p) \cup News(p)

---------------------------------------------------------------------------
(* CreateZpool *)

\* The checks before anything is changed; they are not repeated.
CreateZpool(r, p, devs, type) ==
    /\ p \notin live
    /\ poolFile[p] = 0
    /\ Len(devs) >= (IF type = "zfs-raid1" THEN 2 ELSE 1)
    /\ Sys \notin Range(devs)
    /\ Begin(r, [NoRequest EXCEPT !.at = "createKey", !.pool = p, !.devs = devs, !.type = type])
    /\ UNCHANGED <<disks, zpools, keyFiles, mapped, scrubs, fresh, losses>>

GenerateEncryptionKeyFile(r) ==
    /\ In(r, "createKey") /\ fresh < MaxKey
    /\ poolFile' = [poolFile EXCEPT ![request[r].pool] = fresh + 1]
    /\ fresh' = fresh + 1
    /\ Go(r, "create")
    /\ UNCHANGED <<disks, zpools, driveFile, mapped, scrubs, calls, losses>>

\* zpool create reads the key file; when it fails the file is removed.
ZpoolCreate(r) ==
    LET p == request[r].pool
        devs == Range(request[r].devs)
    IN  /\ In(r, "create")
        /\ Done(r)
        /\ \/ /\ p \notin live /\ (\A d \in Drives : label[d] # p)
              /\ poolFile[p] # 0 /\ \A d \in devs : Usable(d)
              /\ Cardinality(devs) = Len(request[r].devs)
              /\ pool' = [pool EXCEPT ![p] = [type |-> request[r].type, on |-> devs, off |-> {}, key |-> poolFile[p], swap |-> {}]]
              /\ label' = [d \in Drives |-> IF d \in devs THEN p ELSE label[d]]
              /\ header' = [d \in Drives |-> IF d \in devs THEN 0 ELSE header[d]]
              /\ live' = live \cup {p} /\ loaded' = loaded \cup {p}
              /\ UNCHANGED poolFile
           \/ /\ poolFile' = [poolFile EXCEPT ![p] = 0]
              /\ UNCHANGED <<pool, label, header, live, loaded>>
        /\ UNCHANGED <<present, volumes, driveFile, mapped, scrubs, fresh, calls, losses>>

---------------------------------------------------------------------------
(* WipeDrive, also a part of other requests, which wipe several drives one by one *)

\* The boot drive and what is listed for a pool are refused; the key of an encrypted drive
\* goes first.
WipeCheck(r) ==
    /\ In(r, "wipe")
    /\ \E d \in request[r].todo :
          IF d = Sys \/ d \notin present \/ ~AllListable \/ MemberPool(d) # {}
          THEN Done(r) /\ UNCHANGED <<mapped, driveFile>>
          ELSE /\ request' = [request EXCEPT ![r].at = "clear", ![r].now = d, ![r].todo = @ \ {d}]
               /\ mapped' = mapped \ {d}
               /\ driveFile' = [driveFile EXCEPT ![d] = 0]
    /\ UNCHANGED <<disks, zpools, poolFile, scrubs, fresh, calls, losses>>

\* ClearBlock: discarding, overwriting, or at least zapping the partition table. It does not
\* ask who has the device open.
ClearBlock(r) ==
    LET d == request[r].now
    IN  /\ In(r, "clear")
        /\ label' = [label EXCEPT ![d] = NoPool]
        /\ header' = [header EXCEPT ![d] = 0]
        /\ Go(r, "wipe")
        /\ UNCHANGED <<present, zpools, keyFiles, mapped, scrubs, fresh, calls, losses>>

WipeDone(r) ==
    /\ In(r, "wipe") /\ request[r].todo = {}
    /\ IF request[r].next = "idle" THEN Done(r) ELSE Go(r, request[r].next)
    /\ UNCHANGED <<disks, zpools, keyFiles, mapped, scrubs, fresh, calls, losses>>

WipeDrive(r, d) ==
    /\ WipesNew \/ \A p \in live : d \notin News(p)
    /\ Begin(r, [NoRequest EXCEPT !.at = "wipe", !.todo = {d}])
    /\ UNCHANGED <<disks, zpools, keyFiles, mapped, scrubs, fresh, losses>>

---------------------------------------------------------------------------
(* DestroyZpool *)

\* The devices are read before the pool is destroyed and wiped afterwards. Of a pool that
\* is gone only the key file is left.
DestroyZpool(r, p) ==
    /\ p # "local"
    /\ IF p \in live
       THEN /\ Listable(p)
            /\ Begin(r, [NoRequest EXCEPT !.at = "destroyKey", !.pool = p, !.todo = ShownOn(p) \cup ShownOff(p)])
            /\ pool' = [pool EXCEPT ![p] = NoPoolConfig]
            /\ label' = [d \in Drives |-> IF label[d] = p THEN NoPool ELSE label[d]]
            /\ live' = live \ {p} /\ loaded' = loaded \ {p}
            /\ volumes' = {v \in volumes : v[1] # p}
            /\ scanning' = scanning \ {p}
            /\ UNCHANGED poolFile
       ELSE /\ In(r, "idle") /\ Call
            /\ poolFile[p] # 0
            /\ poolFile' = [poolFile EXCEPT ![p] = 0]
            /\ UNCHANGED <<pool, label, live, loaded, volumes, scanning, request>>
    /\ UNCHANGED <<header, present, driveFile, mapped, scrub, fresh, losses>>

DestroyKey(r) ==
    LET p == request[r].pool
    IN  /\ In(r, "destroyKey")
        /\ poolFile' = [poolFile EXCEPT ![p] = 0]
        /\ IF poolFile[p] = 0 THEN Done(r) ELSE Go(r, "wipe")
        /\ UNCHANGED <<disks, zpools, driveFile, mapped, scrubs, fresh, calls, losses>>

---------------------------------------------------------------------------
(* UpdateZpool: devices are compared position by position, 0 is an empty string *)

\* Degraded devices that are no longer there are to be replaced by extra new ones.
CurrentDevices(p, n) ==
    LET on == SetToSortSeq(ShownOn(p), <)
        gone == SetToSortSeq(ShownOff(p) \ present, <)
        extra == IF n > Len(on) THEN n - Len(on) ELSE 0
    IN  on \o SubSeq(gone, 1, IF extra < Len(gone) THEN extra ELSE Len(gone))

UpdateZpool(r, p, devs, type) ==
    /\ p \in live /\ Listable(p)
    /\ Len(devs) >= Cardinality(ShownOn(p))
    /\ p = "local" => Len(devs) <= 2 /\ Sys \in Range(devs)
    /\ IF pool[p].type = "zfs-raid0" /\ type = "zfs-raid1"
       THEN /\ Cardinality(pool[p].on) = 1 /\ Len(devs) = 2
            /\ Begin(r, [NoRequest EXCEPT !.at = "mirror", !.pool = p, !.devs = devs])
       ELSE Begin(r, [NoRequest EXCEPT !.at = "device", !.pool = p, !.devs = devs, !.type = type,
                                       !.cur = CurrentDevices(p, Len(devs)), !.i = 1])
    /\ UNCHANGED <<disks, zpools, keyFiles, mapped, scrubs, fresh, losses>>

\* convertPoolToMirror takes the first device, or the second if that is the pool's own.
ConvertPoolToMirror(r) ==
    LET p == request[r].pool
        devs == request[r].devs
        new == IF devs[1] \in pool[p].on THEN devs[2] ELSE devs[1]
    IN  /\ In(r, "mirror")
        /\ Done(r)
        /\ IF p \in live /\ new \in Drives /\ Usable(new)
           THEN /\ pool' = [pool EXCEPT ![p].on = @ \cup {new}, ![p].type = "zfs-raid1"]
                /\ label' = [label EXCEPT ![new] = p]
                /\ header' = [header EXCEPT ![new] = 0]
           ELSE UNCHANGED <<pool, label, header>>
        /\ UNCHANGED <<present, live, loaded, volumes, keyFiles, mapped, scrubs, fresh, calls, losses>>

\* One position: nothing to do, a removal or a replacement, which is only begun. The old device
\* is then wiped, unless it was only taken offline. A command zpool refuses ends the request.
UpdateDevice(r) ==
    LET q == request[r]
        p == q.pool
        old == q.cur[q.i]
        new == q.devs[q.i]
        goOn == [q EXCEPT !.i = @ + 1]
        wipeOld == [goOn EXCEPT !.at = "wipe", !.next = "device", !.todo = {old}]
        others == pool[p].on \ {old}
    IN  /\ In(r, "device") /\ q.i <= Len(q.cur)
        /\ \/ /\ new = old
              /\ request' = [request EXCEPT ![r] = goOn]
              /\ UNCHANGED <<pool, label>>
           \/ /\ new = 0 /\ q.type = "zfs-raid0" /\ pool[p].type = "zfs-raid0" /\ others # {}
              /\ old \in pool[p].on \ Olds(p)
              /\ pool' = [pool EXCEPT ![p].on = others]
              /\ label' = [label EXCEPT ![old] = NoPool]
              /\ request' = [request EXCEPT ![r] = wipeOld]
           \/ /\ new = 0 /\ q.type = "zfs-raid1" /\ pool[p].type = "zfs-raid1" /\ others # {}
              /\ old \in Members(p) \ Olds(p)
              /\ pool' = [pool EXCEPT ![p].on = others, ![p].off = @ \cup {old}]
              /\ request' = [request EXCEPT ![r] = goOn]
              /\ UNCHANGED label
           \/ /\ new \in Drives /\ Usable(new) /\ old \in Members(p) \ Olds(p)
              /\ pool' = [pool EXCEPT ![p].swap = @ \cup {<<old, new>>}]
              /\ label' = [label EXCEPT ![new] = p]
              /\ request' = [request EXCEPT ![r] = IF old \in present THEN wipeOld ELSE goOn]
           \/ /\ new # old
              /\ Done(r)
              /\ UNCHANGED <<pool, label>>
        /\ header' = [d \in Drives |-> IF label'[d] # NoPool THEN 0 ELSE header[d]]
        /\ UNCHANGED <<present, live, loaded, volumes, keyFiles, mapped, scrubs, fresh, calls, losses>>

\* The pool is rebuilt, and the old device let go.
ResilverDone(p) ==
    /\ p \in live
    /\ \E s \in pool[p].swap :
          /\ s[2] \in present /\ label[s[2]] = p
          /\ \E d \in pool[p].on \cap present : label[d] = p /\ (pool[p].type = "zfs-raid1" \/ d = s[1])
          /\ pool' = [pool EXCEPT ![p].on = (@ \ {s[1]}) \cup {s[2]}, ![p].off = @ \ {s[1]}, ![p].swap = @ \ {s}]
          /\ label' = [d \in Drives |-> IF d = s[1] /\ d \in Members(p) \cap present /\ label[d] = p THEN NoPool ELSE label[d]]
    /\ UNCHANGED <<header, present, live, loaded, volumes, keyFiles, mapped, scrubs, request, fresh, calls, losses>>

\* What is left is added: to a mirror one device, which may be one that was taken offline, or else
\* is attached to the first device listed. What zpool refuses ends the request as well.
AddDevices(r) ==
    LET q == request[r]
        p == q.pool
        add == SubSeq(q.devs, Len(q.cur) + 1, Len(q.devs))
        new == Range(add)
        mirror == q.type = "zfs-raid1"
    IN  /\ In(r, "device") /\ q.i > Len(q.cur)
        /\ Done(r)
        /\ \/ UNCHANGED <<pool, label>>
           \/ /\ new # {} /\ new \subseteq Drives /\ q.type = pool[p].type /\ (mirror => Len(add) = 1)
              /\ \/ /\ mirror /\ new \subseteq (pool[p].off \ Olds(p)) \cap present
                    /\ pool' = [pool EXCEPT ![p].on = @ \cup new, ![p].off = @ \ new] /\ UNCHANGED label
                 \/ /\ \A d \in new : Usable(d)
                    /\ mirror => pool[p].on \ Olds(p) # {}
                    /\ pool' = [pool EXCEPT ![p].on = @ \cup new]
                    /\ label' = [d \in Drives |-> IF d \in new THEN p ELSE label[d]]
        /\ header' = [d \in Drives |-> IF label'[d] # NoPool THEN 0 ELSE header[d]]
        /\ UNCHANGED <<present, live, loaded, volumes, keyFiles, mapped, scrubs, fresh, calls, losses>>

---------------------------------------------------------------------------
(* ImportExistingPool *)

ImportExistingPool(r, p, key) ==
    /\ p \notin live /\ Importable(p)
    /\ WrongKeys \/ key = pool[p].key
    /\ live' = live \cup {p} /\ pool' = [pool EXCEPT ![p] = Found(p)]
    /\ Begin(r, [NoRequest EXCEPT !.at = "import", !.pool = p, !.key = key])
    /\ UNCHANGED <<disks, loaded, volumes, keyFiles, mapped, scrubs, fresh, losses>>

\* A pool without encryption is imported and not managed; otherwise the key is written.
ImportKey(r) ==
    LET p == request[r].pool
        key == request[r].key
    IN  /\ In(r, "import")
        /\ IF pool[p].key # 0 /\ key # 0
           THEN poolFile' = [poolFile EXCEPT ![p] = key] /\ Go(r, "loadKey") /\ UNCHANGED live
           ELSE /\ live' = IF pool[p].key = key THEN live ELSE live \ {p}
                /\ Done(r)
                /\ UNCHANGED poolFile
        /\ UNCHANGED <<disks, pool, loaded, volumes, driveFile, mapped, scrubs, fresh, calls, losses>>

\* A key that does not open the pool is removed and the pool exported again.
ImportLoadKey(r) ==
    LET p == request[r].pool
        ok == poolFile[p] = pool[p].key
    IN  /\ In(r, "loadKey")
        /\ loaded' = IF ok THEN loaded \cup {p} ELSE loaded
        /\ live' = IF ok THEN live ELSE live \ {p}
        /\ poolFile' = IF ok THEN poolFile ELSE [poolFile EXCEPT ![p] = 0]
        /\ Done(r)
        /\ UNCHANGED <<disks, pool, volumes, driveFile, mapped, scrubs, fresh, calls, losses>>

---------------------------------------------------------------------------
(* Encrypted drives *)

EncryptDrive(r, d) ==
    /\ WipesNew \/ \A p \in live : d \notin News(p)
    /\ Begin(r, [NoRequest EXCEPT !.at = "wipe", !.todo = {d}, !.next = "encryptKey", !.drive = d])
    /\ UNCHANGED <<disks, zpools, keyFiles, mapped, scrubs, fresh, losses>>

EncryptKey(r) ==
    /\ In(r, "encryptKey") /\ fresh < MaxKey
    /\ driveFile' = [driveFile EXCEPT ![request[r].drive] = fresh + 1]
    /\ fresh' = fresh + 1
    /\ Go(r, "format")
    /\ UNCHANGED <<disks, zpools, poolFile, mapped, scrubs, calls, losses>>

\* Mutant: the key of the new header is not the one in the file.
LuksFormatStale(r) ==
    LET d == request[r].drive
    IN  /\ In(r, "format")
        /\ header' = [header EXCEPT ![d] = fresh]
        /\ mapped' = mapped \cup {d}
        /\ driveFile' = [driveFile EXCEPT ![d] = 0]
        /\ Done(r)
        /\ UNCHANGED <<label, present, zpools, poolFile, scrubs, fresh, calls, losses>>

LuksFormat(r) ==
    LET d == request[r].drive
    IN  /\ In(r, "format")
        /\ IF Usable(d)
           THEN header' = [header EXCEPT ![d] = driveFile[d]] /\ Go(r, "unlock")
           ELSE Done(r) /\ UNCHANGED header
        /\ UNCHANGED <<label, present, zpools, keyFiles, mapped, scrubs, fresh, calls, losses>>

ImportEncryptedDrive(r, d, key) ==
    /\ key # 0
    /\ WrongKeys \/ key = header[d]
    /\ driveFile' = [driveFile EXCEPT ![d] = key]
    /\ Begin(r, [NoRequest EXCEPT !.at = "importUnlock", !.drive = d])
    /\ UNCHANGED <<disks, zpools, poolFile, mapped, scrubs, fresh, losses>>

\* unlockDrive has nothing to do for a drive that is open. After a failed import the key
\* is removed, after a failed encryption it stays.
UnlockDrive(r) ==
    LET d == request[r].drive
        ok == d \in mapped \/ (d \in present /\ header[d] # 0 /\ header[d] = driveFile[d])
    IN  /\ In(r, "unlock") \/ In(r, "importUnlock")
        /\ mapped' = IF ok THEN mapped \cup {d} ELSE mapped
        /\ driveFile' = IF ~ok /\ In(r, "importUnlock") THEN [driveFile EXCEPT ![d] = 0] ELSE driveFile
        /\ Done(r)
        /\ UNCHANGED <<disks, zpools, poolFile, scrubs, fresh, calls, losses>>

---------------------------------------------------------------------------
(* Volumes and scrubs *)

CreateVolume(r, p, use) ==
    /\ In(r, "idle") /\ Call /\ p \in live
    /\ use = "linstor" \/ pool[p].key = 0 \/ p \in loaded
    /\ volumes' = volumes \cup {<<p, use>>}
    /\ UNCHANGED <<disks, pool, live, loaded, keyFiles, mapped, scrubs, request, fresh, losses>>

DeleteVolume(r, p, use) ==
    /\ In(r, "idle") /\ Call /\ p \in live
    /\ volumes' = volumes \ {<<p, use>>}
    /\ UNCHANGED <<disks, pool, live, loaded, keyFiles, mapped, scrubs, request, fresh, losses>>

\* Resilvering counts as a scrub under way.
Scanned == scanning \cup {p \in live : pool[p].swap # {}}

ScrubZpool(r, p) ==
    /\ In(r, "idle") /\ Call /\ p \in live \ Scanned /\ AllListable
    /\ scanning' = scanning \cup {p}
    /\ UNCHANGED <<disks, zpools, keyFiles, mapped, scrub, request, fresh, losses>>

\* The job, scheduled once the system is up, takes the pools one by one and skips those being
\* scrubbed already.
ScrubAllPools ==
    /\ Call /\ AllListable
    /\ \A r \in StorageRequests : ~Starting(r)
    /\ scrub = [todo |-> {}, on |-> NoPool]
    /\ scrub' = [scrub EXCEPT !.todo = live \ Scanned]
    /\ UNCHANGED <<disks, zpools, keyFiles, mapped, scanning, request, fresh, losses>>

\* A pool that is gone or being rebuilt ends the job.
ScrubNext(p) ==
    LET ok == p \in live /\ pool[p].swap = {}
    IN  /\ scrub.on = NoPool /\ p \in scrub.todo
        /\ scrub' = IF ok THEN [todo |-> scrub.todo \ {p}, on |-> p] ELSE [todo |-> {}, on |-> NoPool]
        /\ scanning' = IF ok THEN scanning \cup {p} ELSE scanning
        /\ UNCHANGED <<disks, zpools, keyFiles, mapped, request, fresh, calls, losses>>

\* The job waits as long as the pool reports no finished scrub; it ends when the pools
\* cannot be listed.
ScrubFinished ==
    /\ scrub.on # NoPool
    /\ \/ AllListable /\ scrub.on \in live \ Scanned /\ scrub' = [scrub EXCEPT !.on = NoPool]
       \/ ~AllListable /\ scrub' = [todo |-> {}, on |-> NoPool]
    /\ UNCHANGED <<disks, zpools, keyFiles, mapped, scanning, request, fresh, calls, losses>>

ScanEnds(p) ==
    /\ p \in scanning
    /\ scanning' = scanning \ {p}
    /\ UNCHANGED <<disks, zpools, keyFiles, mapped, scrub, request, fresh, calls, losses>>

---------------------------------------------------------------------------
(* Boots and drives *)

Booting(step) == \A r \in StorageRequests : In(r, step)
AllAt(step) == request' = [r \in StorageRequests |-> [NoRequest EXCEPT !.at = step]]

StoragePowerLoss ==
    /\ losses > 0
    /\ losses' = losses - 1
    /\ live' = {} /\ loaded' = {} /\ mapped' = {} /\ scanning' = {}
    /\ scrub' = [todo |-> {}, on |-> NoPool]
    /\ AllAt("off")
    /\ UNCHANGED <<disks, pool, volumes, keyFiles, fresh, calls>>

\* Whatever drive has the right key file is opened.
DecryptDrives == mapped' = mapped \cup {d \in present : driveFile[d] # 0 /\ driveFile[d] = header[d]}

\* getPoolsWithKnownKeys
KnownPools == {p \in Pools : poolFile[p] # 0}

\* zpool import of a pool fails when only a part of it is there; it may be imported already,
\* by a start that failed.
ImportFails(p) == p \notin live /\ ~Importable(p) /\ \E d \in present : label[d] = p
LoadKeyFails(p) == (p \in live \/ Importable(p)) /\ p \notin loaded /\ poolFile[p] # pool[p].key

Imported(new) == [p \in Pools |-> IF p \in new \ live THEN Found(p) ELSE pool[p]]
\* The known pools a start imports and opens if nothing keeps it from it.
Loadable == {p \in KnownPools : (p \in live \/ Importable(p)) /\ ~LoadKeyFails(p)}

\* setupLocalStorage: drives are opened and the known pools imported. A pool "local" whose key
\* is not known is imported to see if it needs a new drive; without any this is the first boot.
LoadPools ==
    LET found == IF "local" \notin live \cup Loadable /\ Importable("local") THEN {"local"} ELSE {}
    IN  /\ Booting("off")
        /\ \A p \in KnownPools : ~ImportFails(p) /\ ~LoadKeyFails(p)
        /\ DecryptDrives
        /\ live' = live \cup Loadable \cup found /\ loaded' = loaded \cup Loadable
        /\ pool' = Imported(Loadable \cup found)
        /\ AllAt(IF found # {} THEN "recover"
                 ELSE IF "local" \in live' THEN "idle"
                 ELSE IF poolFile["local"] = 0 THEN "first" ELSE "off")
        /\ UNCHANGED <<disks, volumes, keyFiles, scrubs, fresh, calls, losses>>

\* A pool that cannot be imported or opened ends the start; it is tried again with what is
\* imported already.
LoadPoolsFails ==
    \E p \in KnownPools, before \in SUBSET Loadable :
        LET found == before \cup (IF LoadKeyFails(p) THEN {p} ELSE {})
        IN  /\ Booting("off")
            /\ ImportFails(p) \/ LoadKeyFails(p)
            /\ DecryptDrives
            /\ live' = live \cup found /\ loaded' = loaded \cup before
            /\ pool' = Imported(found)
            /\ UNCHANGED <<disks, volumes, keyFiles, scrubs, request, fresh, calls, losses>>

\* recoverLocalPool: of a mirror that lost its part on the system drive the missing device is
\* replaced. Otherwise the pool is left to the user, who has the key.
RecoverLocalPool ==
    LET on == ShownOn("local")
        off == ShownOff("local")
        needed == Cardinality(on) = 1 /\ Cardinality(off) = 1 /\ Sys \notin on
        replaced == off \subseteq Drives /\ Usable(Sys)
    IN  /\ Booting("recover")
        /\ \/ /\ Listable("local") /\ needed /\ replaced
              /\ pool' = [pool EXCEPT !["local"].swap = @ \cup (off \X {Sys})]
              /\ label' = [label EXCEPT ![Sys] = "local"] /\ header' = [header EXCEPT ![Sys] = 0]
              /\ AllAt("resilver") /\ UNCHANGED live
           \/ /\ Listable("local") /\ ~needed
              /\ live' = live \ {"local"}
              /\ AllAt("idle") /\ UNCHANGED <<pool, label, header>>
           \/ /\ ~Listable("local") \/ (needed /\ ~replaced)
              /\ AllAt("off") /\ UNCHANGED <<pool, label, header, live>>
        /\ UNCHANGED <<present, loaded, volumes, keyFiles, mapped, scrubs, fresh, calls, losses>>

\* It waits until the pool is whole again.
RecoverEnds ==
    /\ Booting("resilver") /\ pool["local"].swap = {} /\ pool["local"].off = {}
    /\ live' = live \ {"local"}
    /\ AllAt("idle")
    /\ UNCHANGED <<disks, pool, loaded, volumes, keyFiles, mapped, scrubs, fresh, calls, losses>>

\* CreateZpool for "local" on the system drive, which may fail as above.
FirstKey ==
    /\ Booting("first") /\ fresh < MaxKey
    /\ poolFile' = [poolFile EXCEPT !["local"] = fresh + 1]
    /\ fresh' = fresh + 1
    /\ AllAt("firstCreate")
    /\ UNCHANGED <<disks, zpools, driveFile, mapped, scrubs, calls, losses>>

FirstCreate ==
    /\ Booting("firstCreate")
    /\ \/ /\ Usable(Sys)
          /\ pool' = [pool EXCEPT !["local"] = [type |-> "zfs-raid0", on |-> {Sys}, off |-> {},
                                               key |-> poolFile["local"], swap |-> {}]]
          /\ label' = [label EXCEPT ![Sys] = "local"] /\ header' = [header EXCEPT ![Sys] = 0]
          /\ live' = live \cup {"local"} /\ loaded' = loaded \cup {"local"}
          /\ AllAt("idle") /\ UNCHANGED poolFile
       \/ /\ poolFile' = [poolFile EXCEPT !["local"] = 0]
          /\ AllAt("off") /\ UNCHANGED <<pool, label, header, live, loaded>>
    /\ UNCHANGED <<present, volumes, driveFile, mapped, scrubs, fresh, calls, losses>>

\* A drive of a mirror fails or is pulled while another one stays, or one that a pool is being
\* rebuilt onto.
LoseDrive(d) ==
    /\ d # Sys /\ d \in present /\ d \notin mapped
    /\ \E p \in live :
          \/ /\ d \in pool[p].on /\ pool[p].type = "zfs-raid1" /\ pool[p].on # {d}
             /\ pool' = [pool EXCEPT ![p].on = @ \ {d}, ![p].off = @ \cup {d}]
          \/ d \in News(p) /\ UNCHANGED pool
    /\ present' = present \ {d}
    /\ UNCHANGED <<label, header, live, loaded, volumes, keyFiles, mapped, scrubs, request, fresh, calls, losses>>

---------------------------------------------------------------------------
\* The first boot, on drives that are empty, that hold a pool of another system, encrypted with
\* key 1 or not at all, or, after a new installation, what is left of the pool "local".
Foreign == [type : {"zfs-raid0"}, on : {{MaxDrive}}, off : {{}}, key : {0, 1}, swap : {{}}]
LeftOver == [type |-> "zfs-raid1", on |-> {MaxDrive}, off |-> {MaxDrive - 1}, key |-> 1, swap |-> {}]
StorageInit ==
    \E foreign \in {NoPoolConfig} \cup Foreign, left \in {NoPoolConfig, LeftOver} :
        /\ left # NoPoolConfig => foreign = NoPoolConfig /\ MaxDrive > 2
        /\ pool = [p \in Pools |-> IF p = "local" THEN left ELSE foreign]
        /\ label = [d \in Drives |-> IF d \in left.on \cup left.off THEN "local"
                                     ELSE IF ExtraPools # {} /\ d \in foreign.on THEN CHOOSE p \in ExtraPools : TRUE ELSE NoPool]
        /\ header = [d \in Drives |-> 0]
        /\ present = Drives \ left.off
        /\ live = {} /\ loaded = {} /\ volumes = {} /\ mapped = {}
        /\ poolFile = [p \in Pools |-> 0]
        /\ driveFile = [d \in Drives |-> 0]
        /\ scanning = {} /\ scrub = [todo |-> {}, on |-> NoPool]
        /\ request = [r \in StorageRequests |-> [NoRequest EXCEPT !.at = "off"]]
        /\ fresh = 1 /\ calls = 0 /\ losses = PowerLosses

---------------------------------------------------------------------------
(* The requests: what a handler decodes, checks and calls *)

\* PUT of the storage configuration, for one pool; 0 stands for an empty device.
StoragePut(r) ==
    /\ In(r, "idle") /\ calls < MaxStorageCalls
    /\ \E p \in Pools, type \in Types :
        \/ \E devs \in UNION {[1 .. n -> Drives] : n \in 1 .. 2} : CreateZpool(r, p, devs, type)
        \/ \E devs \in UNION {[1 .. n -> {0} \cup Drives \cup ShownOn(p)] : n \in 1 .. 2} : UpdateZpool(r, p, devs, type)
StorageDeletePool(r) == \E p \in Pools : DestroyZpool(r, p)
StorageImportPool(r) == \E p \in Pools, key \in PoolKeys : ImportExistingPool(r, p, key)
StorageCreateVolume(r) == \E p \in Pools, use \in {"incus", "linstor"} : CreateVolume(r, p, use)
StorageDeleteVolume(r) == \E p \in Pools, use \in {"incus", "linstor"} : DeleteVolume(r, p, use)
StorageScrubPool(r) == \E p \in Pools : ScrubZpool(r, p)
StorageImportEncryptedDrive(r) == \E d \in Drives, key \in PoolKeys : ImportEncryptedDrive(r, d, key)

StorageNext ==
    \/ \E r \in StorageRequests :
          \/ StoragePut(r) \/ StorageDeletePool(r) \/ StorageImportPool(r)
          \/ StorageCreateVolume(r) \/ StorageDeleteVolume(r) \/ StorageScrubPool(r)
          \/ StorageImportEncryptedDrive(r) \/ \E d \in Drives : WipeDrive(r, d) \/ EncryptDrive(r, d)
          \/ GenerateEncryptionKeyFile(r) \/ ZpoolCreate(r)
          \/ WipeCheck(r) \/ ClearBlock(r) \/ WipeDone(r) \/ DestroyKey(r)
          \/ ConvertPoolToMirror(r) \/ UpdateDevice(r) \/ AddDevices(r)
          \/ ImportKey(r) \/ ImportLoadKey(r)
          \/ EncryptKey(r) \/ LuksFormat(r) \/ UnlockDrive(r)
    \/ ScrubAllPools \/ ScrubFinished \/ \E p \in Pools : ScrubNext(p) \/ ScanEnds(p)
    \/ StoragePowerLoss \/ LoadPools \/ LoadPoolsFails \/ RecoverLocalPool \/ RecoverEnds
    \/ FirstKey \/ FirstCreate \/ (\E p \in Pools : ResilverDone(p)) \/ \E d \in Drives : LoseDrive(d)

StorageSpec == StorageInit /\ [][StorageNext]_storageVars
---------------------------------------------------------------------------
(* Properties *)

StorageTypeOK ==
    /\ label \in [Drives -> Pools \cup {NoPool}] /\ header \in [Drives -> PoolKeys]
    /\ pool \in [Pools -> [type : Types \cup {"none"}, on : SUBSET Drives, off : SUBSET Drives, key : PoolKeys,
                          swap : SUBSET (({0} \cup Drives) \X Drives)]]
    /\ loaded \subseteq live /\ live \subseteq {p \in Pools : Exists(p)}
    /\ volumes \subseteq {p \in Pools : Exists(p)} \X {"incus", "linstor"}
    /\ poolFile \in [Pools -> PoolKeys] /\ driveFile \in [Drives -> PoolKeys]
    /\ mapped \subseteq Drives /\ present \subseteq Drives /\ scanning \subseteq live
    /\ fresh \in PoolKeys

\* The drives of a pool stay its own: whatever sequence of creations, updates with removals
\* and replacements, destructions, wipes and encryptions, with the power lost at any command, a
\* drive that a pool in use counts on is never wiped, encrypted or given to another pool. The
\* exception is the drive a mirror is to be rid of, which is wiped while the mirror is still
\* rebuilt; a pool without redundancy keeps it.
PoolsIntact ==
    \A p \in live : \A d \in Members(p) :
        pool[p].type = "zfs-raid0" \/ d \notin Olds(p) => label[d] = p /\ header[d] = 0

\* What is open now opens at the next boot: the key file of every pool whose key is loaded
\* and of every drive that is unlocked holds the key it is encrypted with.
KeysKept ==
    /\ \A p \in loaded : poolFile[p] = pool[p].key
    /\ \A d \in mapped : driveFile[d] = header[d]
=============================================================================
