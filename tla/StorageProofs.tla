---------------------------- MODULE StorageProofs ----------------------------
(***************************************************************************)
(* Proofs about Storage, for every number of drives, pools, keys, requests *)
(* and power losses, when requests are handled one at a time: the drives   *)
(* of the pools in use stay their own, and what is open opens again. And   *)
(* about Ceph, for every number of members, images and failing calls.      *)
(***************************************************************************)
EXTENDS Storage, Ceph, FiniteSetTheorems, TLAPS

\* Requests are handled one after the other.
OneRequest == \E r : StorageRequests = {r}

Fields == {"at", "pool", "devs", "type", "cur", "i", "todo", "now", "next", "drive", "key"}
PoolConfigs == [type : Types \cup {"none"}, on : SUBSET Drives, off : SUBSET Drives, key : PoolKeys,
                swap : SUBSET (({0} \cup Drives) \X Drives)]

DiskTypes ==
    /\ label \in [Drives -> Pools \cup {NoPool}] /\ header \in [Drives -> PoolKeys]
    /\ pool \in [Pools -> PoolConfigs]
    /\ live \subseteq Pools /\ loaded \subseteq live
    /\ poolFile \in [Pools -> PoolKeys] /\ driveFile \in [Drives -> PoolKeys]
    /\ mapped \subseteq Drives /\ present \subseteq Drives /\ fresh \in PoolKeys

RequestTypes ==
    /\ DOMAIN request = StorageRequests
    /\ \A r \in StorageRequests : DOMAIN request[r] = Fields /\ request[r].key \in PoolKeys

\* A drive is online or offline, or one the pool is rebuilt onto, in one replacement.
Shape(c) ==
    /\ c.on \cap c.off = {}
    /\ \A s \in c.swap : s[2] \notin c.on \cup c.off
    /\ \A s, t \in c.swap : s[2] = t[2] => s = t

\* The labels of the drives of a pool: only what a mirror is to be rid of may have lost its own.
Labelled(c, p, labels) ==
    /\ \A d \in c.on \cup c.off :
          /\ labels[d] \in {p, NoPool}
          /\ labels[d] = p \/ (c.type # "zfs-raid0" /\ \E s \in c.swap : s[1] = d)
    /\ \A s \in c.swap : labels[s[2]] = p

\* A drive with the label of a pool has no LUKS header, and the drives of a pool in use have
\* its label.
LabelsAgree ==
    /\ \A d \in Drives : label[d] # NoPool => header[d] = 0
    /\ \A p \in Pools : Shape(pool[p])
    /\ \A p \in live : Labelled(pool[p], p, label)

\* A drive that no pool in use counts on.
Unneeded(d) ==
    \A p \in live :
        /\ d \in Members(p) => pool[p].type # "zfs-raid0" /\ \E s \in pool[p].swap : s[1] = d
        /\ \A s \in pool[p].swap : s[2] # d

\* What the checks of a request established and its later steps rely on without repeating
\* them: the pool it works on, and that the drive to be wiped or encrypted is free.
RequestHolds(q) ==
    /\ q.at \in {"createKey", "create"} => q.pool \in Pools \ live /\ q.type \in Types
    /\ q.at = "destroyKey" => q.pool \in Pools \ live /\ q.next = "idle"
    /\ q.at \in {"import", "loadKey"} => q.pool \in live \ loaded
    /\ q.at \in {"mirror", "device"} => q.pool \in live
    /\ q.at \in {"destroyKey", "wipe", "clear"} => \A p \in live : \A s \in pool[p].swap : s[2] \notin q.todo
    /\ q.at \in {"wipe", "clear"} => q.next \in {"idle", "device", "encryptKey"}
    /\ q.at \in {"wipe", "clear"} /\ q.next = "device" => q.pool \in live
    /\ q.at = "clear" => q.now \notin mapped /\ Unneeded(q.now)
    /\ q.at = "wipe" /\ q.next = "encryptKey" => q.todo = {q.drive} \/ (q.todo = {} /\ q.drive \notin mapped)
    /\ q.at = "clear" /\ q.next = "encryptKey" => q.todo = {} /\ q.now = q.drive
    /\ q.at \in {"encryptKey", "format"} => q.drive \notin mapped
    /\ q.at \in {"recover", "resilver"} => "local" \in live \ loaded
    /\ q.at \in {"first", "firstCreate"} => "local" \notin live

\* The keys of what is open; a user who gives the wrong key for a drive that is open
\* replaces the file of the right one.
KeysMatch ==
    /\ \A p \in loaded : poolFile[p] = pool[p].key
    /\ ~WrongKeys => \A d \in mapped : driveFile[d] = header[d]

LiveExist == \A p \in live : Exists(p)

StorageInv ==
    /\ DiskTypes /\ RequestTypes /\ LiveExist /\ LabelsAgree /\ KeysMatch
    /\ \A r \in StorageRequests : RequestHolds(request[r])

LEMMA RequestFields == DOMAIN NoRequest = Fields /\ NoRequest.key \in PoolKeys
<1>1. 0 \in PoolKeys
  BY StorageAssumption DEF PoolKeys
<1> QED BY <1>1 DEF NoRequest, Fields

LEMMA StorageInvInit == ASSUME StorageInit PROVE StorageInv
<1>1. PICK foreign \in {NoPoolConfig} \cup Foreign, left \in {NoPoolConfig, LeftOver} :
        /\ left # NoPoolConfig => foreign = NoPoolConfig /\ MaxDrive > 2
        /\ pool = [p \in Pools |-> IF p = "local" THEN left ELSE foreign]
        /\ label = [d \in Drives |-> IF d \in left.on \cup left.off THEN "local"
                                     ELSE IF ExtraPools # {} /\ d \in foreign.on THEN CHOOSE p \in ExtraPools : TRUE ELSE NoPool]
        /\ header = [d \in Drives |-> 0]
        /\ present = Drives \ left.off
        /\ live = {} /\ loaded = {} /\ volumes = {} /\ mapped = {}
        /\ poolFile = [p \in Pools |-> 0]
        /\ driveFile = [d \in Drives |-> 0]
        /\ scanning = {} /\ scrub = [todo |-> {}, on |-> NoPool]
        /\ request = [r \in StorageRequests |-> [NoRequest EXCEPT !.at = "off"]]
        /\ fresh = 1 /\ calls = 0 /\ losses = PowerLosses
  BY DEF StorageInit
<1>2. 0 \in PoolKeys /\ 1 \in PoolKeys /\ MaxDrive \in Drives
  BY StorageAssumption DEF PoolKeys, Drives
<1>3. foreign \in PoolConfigs /\ NoPoolConfig \in PoolConfigs /\ Shape(foreign)
  BY <1>2 DEF PoolConfigs, NoPoolConfig, Foreign, Types, Shape
<1>4. left \in PoolConfigs /\ Shape(left)
  <2>1. CASE left = NoPoolConfig
    BY <1>3, <2>1 DEF NoPoolConfig, Shape
  <2>2. CASE left = LeftOver /\ left # NoPoolConfig
    <3>1. MaxDrive > 2
      BY <1>1, <2>2
    <3>2. MaxDrive - 1 \in Drives /\ MaxDrive - 1 # MaxDrive
      BY <3>1, StorageAssumption DEF Drives
    <3> QED BY <1>2, <2>2, <3>2 DEF PoolConfigs, LeftOver, Types, Shape
  <2> QED BY <2>1, <2>2
<1>5. DiskTypes
  <2>1. label \in [Drives -> Pools \cup {NoPool}]
    BY <1>1 DEF Pools
  <2> QED BY <1>1, <1>2, <1>3, <1>4, <2>1 DEF DiskTypes
<1>6. RequestTypes /\ \A r \in StorageRequests : request[r].at = "off"
  BY <1>1, RequestFields DEF RequestTypes, NoRequest, Fields
<1>7. LabelsAgree
  BY <1>1, <1>3, <1>4 DEF LabelsAgree
<1>8. KeysMatch
  BY <1>1 DEF KeysMatch
<1>9. LiveExist
  BY <1>1 DEF LiveExist
<1> QED BY <1>5, <1>6, <1>7, <1>8, <1>9 DEF StorageInv, RequestHolds

-----------------------------------------------------------------------------
(* Steps of a request.                                                     *)

\* With one request the invariant is about these six things.
LEMMA RequestStep ==
    ASSUME StorageInv, NEW r, StorageRequests = {r},
           DiskTypes', RequestTypes', LabelsAgree', KeysMatch', LiveExist', RequestHolds(request[r])'
    PROVE  StorageInv'
BY DEF StorageInv

\* The request is done.
LEMMA RequestDone ==
    ASSUME StorageInv, NEW r, StorageRequests = {r}, Done(r)
    PROVE  request'[r] = NoRequest /\ RequestTypes' /\ RequestHolds(request[r])'
<1>1. request'[r] = NoRequest
  BY DEF Done, StorageInv, RequestTypes
<1>2. RequestTypes'
  BY <1>1, RequestFields DEF Done, StorageInv, RequestTypes
<1>3. NoRequest.at = "idle"
  BY DEF NoRequest
<1> QED BY <1>1, <1>2, <1>3 DEF RequestHolds

\* It goes on with another step.
LEMMA RequestGoes ==
    ASSUME StorageInv, NEW r, StorageRequests = {r}, NEW step, Go(r, step)
    PROVE  /\ request'[r] = [request[r] EXCEPT !.at = step] /\ RequestTypes' /\ request'[r].at = step
           /\ request'[r].pool = request[r].pool /\ request'[r].key = request[r].key
           /\ request'[r].todo = request[r].todo /\ request'[r].next = request[r].next
           /\ request'[r].drive = request[r].drive /\ request'[r].type = request[r].type
BY DEF Go, StorageInv, RequestTypes, Fields

\* A step that changes the keys and what is open, but no pool and no label.
LEMMA KeysStep ==
    ASSUME StorageInv, NEW r, StorageRequests = {r},
           UNCHANGED <<label, header, present, pool>>, live' \subseteq live,
           loaded' \subseteq live', mapped' \subseteq Drives,
           poolFile' \in [Pools -> PoolKeys], driveFile' \in [Drives -> PoolKeys], fresh' \in PoolKeys,
           RequestTypes', RequestHolds(request[r])', KeysMatch'
    PROVE  StorageInv'
<1>1. DiskTypes'
  BY DEF StorageInv, DiskTypes
<1>2. LabelsAgree'
  BY DEF StorageInv, LabelsAgree
<1>3. LiveExist'
  BY DEF StorageInv, LiveExist, Exists
<1> QED BY <1>1, <1>2, <1>3, RequestStep

\* A request that begins, or goes on, with nothing else changed.
LEMMA RequestBegins ==
    ASSUME StorageInv, NEW r, StorageRequests = {r}, NEW q, Begin(r, q),
           DOMAIN q = Fields, q.key \in PoolKeys, RequestHolds(q),
           UNCHANGED <<label, header, present, pool, live, loaded, poolFile, driveFile, mapped, fresh>>
    PROVE  StorageInv'
<1>1. request' = [request EXCEPT ![r] = q]
  BY DEF Begin
<1>2. request'[r] = q /\ RequestTypes'
  BY <1>1 DEF StorageInv, RequestTypes
<1>3. RequestHolds(request[r])'
  BY <1>2 DEF RequestHolds, Unneeded, Members
<1>4. KeysMatch'
  BY DEF StorageInv, KeysMatch
<1> QED BY <1>2, <1>3, <1>4, KeysStep DEF StorageInv, DiskTypes

LEMMA FreshKey == ASSUME StorageInv, fresh < MaxKey PROVE fresh + 1 \in PoolKeys
BY StorageAssumption DEF StorageInv, DiskTypes, PoolKeys

\* The labels of a pool that is not touched, when only drives of another pool and drives of
\* none change theirs.
LEMMA LabelsKept ==
    ASSUME StorageInv, NEW p \in Pools, NEW s \in live, s # p, NEW labels,
           \A d \in Drives : labels[d] # label[d] => label[d] = p \/ (label[d] = NoPool /\ d \notin Members(s))
    PROVE  Labelled(pool[s], s, labels)
<1>1. pool[s] \in PoolConfigs /\ s # NoPool /\ p # NoPool /\ Labelled(pool[s], s, label)
  <2>1. s \in Pools /\ pool \in [Pools -> PoolConfigs]
    BY DEF StorageInv, DiskTypes
  <2>2. Labelled(pool[s], s, label)
    BY DEF StorageInv, LabelsAgree
  <2>3. s # NoPool /\ p # NoPool
    BY <2>1, StorageAssumption
  <2> QED BY <2>1, <2>2, <2>3
<1>2. \A d \in Members(s) : d \in Drives
  BY <1>1 DEF PoolConfigs, Members
<1>3. \A d \in Members(s) : labels[d] = label[d]
  BY <1>1, <1>2 DEF Labelled, Members
<1>4. ASSUME NEW x \in pool[s].swap PROVE labels[x[2]] = s
  <2>1. x[2] \in Drives /\ label[x[2]] = s
    BY <1>1, <1>4 DEF PoolConfigs, Labelled
  <2> QED BY <1>1, <2>1
<1> QED BY <1>1, <1>3, <1>4 DEF Labelled, Members

LEMMA CreateSteps ==
    ASSUME StorageInv, NEW r, StorageRequests = {r},
           \/ \E p \in Pools, type \in Types, devs \in UNION {[1 .. n -> Drives] : n \in 1 .. 2} : CreateZpool(r, p, devs, type)
           \/ GenerateEncryptionKeyFile(r) \/ ZpoolCreate(r)
    PROVE  StorageInv'
<1> USE DEF In
<1>1. ASSUME NEW p \in Pools, NEW type \in Types, NEW devs, CreateZpool(r, p, devs, type) PROVE StorageInv'
  <2> DEFINE q == [NoRequest EXCEPT !.at = "createKey", !.pool = p, !.devs = devs, !.type = type]
  <2>1. q.at = "createKey" /\ q.pool = p /\ q.type = type /\ q.key = NoRequest.key /\ DOMAIN q = Fields
    BY DEF NoRequest, Fields
  <2>2. Begin(r, q) /\ p \notin live
    BY <1>1 DEF CreateZpool
  <2>3. UNCHANGED <<label, header, present, pool, live, loaded, poolFile, driveFile, mapped, fresh>>
    BY <1>1 DEF CreateZpool, disks, zpools, keyFiles
  <2> HIDE DEF q
  <2>4. RequestHolds(q) /\ q.key \in PoolKeys
    BY <2>1, <2>2, RequestFields DEF RequestHolds
  <2> QED BY <2>1, <2>2, <2>3, <2>4, RequestBegins
<1>2. CASE GenerateEncryptionKeyFile(r)
  <2>1. Go(r, "create") /\ request[r].at = "createKey"
    BY <1>2 DEF GenerateEncryptionKeyFile
  <2>2. request[r].pool \in Pools \ live /\ request[r].type \in Types
    BY <2>1 DEF StorageInv, RequestHolds
  <2>3. /\ poolFile' = [poolFile EXCEPT ![request[r].pool] = fresh + 1] /\ fresh' = fresh + 1
        /\ UNCHANGED <<label, header, present, pool, live, loaded, driveFile, mapped>>
    BY <1>2 DEF GenerateEncryptionKeyFile, disks, zpools
  <2>4. fresh + 1 \in PoolKeys
    BY <1>2, FreshKey DEF GenerateEncryptionKeyFile
  <2>5. RequestTypes' /\ RequestHolds(request[r])'
    <3>1. /\ RequestTypes' /\ request'[r].at = "create" /\ request'[r].pool = request[r].pool
          /\ request'[r].type = request[r].type
      BY <2>1, RequestGoes
    <3> QED BY <2>2, <2>3, <3>1 DEF RequestHolds
  <2>6. poolFile' \in [Pools -> PoolKeys]
    BY <2>2, <2>3, <2>4 DEF StorageInv, DiskTypes
  <2>7. KeysMatch'
    BY <2>2, <2>3 DEF StorageInv, DiskTypes, KeysMatch
  <2> QED BY <2>3, <2>4, <2>5, <2>6, <2>7, KeysStep DEF StorageInv, DiskTypes
<1>3. CASE ZpoolCreate(r)
  <2> DEFINE p == request[r].pool
             devs == Range(request[r].devs)
             c == [type |-> request[r].type, on |-> devs, off |-> {}, key |-> poolFile[p], swap |-> {}]
  <2>1. Done(r) /\ request[r].at = "create"
    BY <1>3 DEF ZpoolCreate
  <2>2. p \in Pools \ live /\ request[r].type \in Types /\ p # NoPool
    BY <2>1, StorageAssumption DEF StorageInv, RequestHolds
  <2>3. RequestTypes' /\ RequestHolds(request[r])'
    BY <2>1, RequestDone
  <2>4. UNCHANGED <<present, driveFile, mapped, fresh>>
    BY <1>3 DEF ZpoolCreate
  <2>5. CASE poolFile' = [poolFile EXCEPT ![p] = 0] /\ UNCHANGED <<pool, label, header, live, loaded>>
    <3>1. 0 \in PoolKeys
      BY StorageAssumption DEF PoolKeys
    <3>2. poolFile' \in [Pools -> PoolKeys]
      BY <2>2, <2>5, <3>1 DEF StorageInv, DiskTypes
    <3>3. KeysMatch'
      BY <2>2, <2>4, <2>5 DEF StorageInv, DiskTypes, KeysMatch
    <3> QED BY <2>3, <2>4, <2>5, <3>2, <3>3, KeysStep DEF StorageInv, DiskTypes
  <2>6. CASE /\ \A d \in devs : Usable(d)
             /\ pool' = [pool EXCEPT ![p] = c]
             /\ label' = [d \in Drives |-> IF d \in devs THEN p ELSE label[d]]
             /\ header' = [d \in Drives |-> IF d \in devs THEN 0 ELSE header[d]]
             /\ live' = live \cup {p} /\ loaded' = loaded \cup {p}
             /\ UNCHANGED poolFile
    <3>1. /\ c.type = request[r].type /\ c.on = devs /\ c.off = {} /\ c.swap = {} /\ c.key = poolFile[p]
      OBVIOUS
    <3>2. devs \subseteq Drives /\ \A d \in devs : label[d] = NoPool /\ d \notin mapped /\ \A s \in live : d \notin Members(s)
      BY <2>6 DEF Usable, StorageInv, DiskTypes
    <3>3. c \in PoolConfigs /\ Shape(c)
      BY <2>2, <3>2 DEF PoolConfigs, StorageInv, DiskTypes, Shape
    <3> HIDE DEF p, devs, c
    <3>4. pool'[p] = c /\ \A s \in Pools \ {p} : pool'[s] = pool[s]
      BY <2>2, <2>6 DEF StorageInv, DiskTypes
    <3>5. DiskTypes'
      <4>1. pool' \in [Pools -> PoolConfigs]
        BY <3>3, <2>6 DEF StorageInv, DiskTypes
      <4>2. label' \in [Drives -> Pools \cup {NoPool}] /\ header' \in [Drives -> PoolKeys]
        BY <2>2, <2>6, StorageAssumption DEF StorageInv, DiskTypes, PoolKeys
      <4> QED BY <2>2, <2>4, <2>6, <4>1, <4>2 DEF StorageInv, DiskTypes
    <3>6. LabelsAgree'
      <4>1. \A d \in Drives : label'[d] # NoPool => header'[d] = 0
        BY <2>6 DEF StorageInv, LabelsAgree
      <4>2. \A s \in Pools : Shape(pool'[s])
        BY <3>3, <3>4 DEF StorageInv, LabelsAgree
      <4>3. Labelled(pool'[p], p, label')
        BY <2>6, <3>1, <3>2, <3>4 DEF Labelled
      <4>4. ASSUME NEW s \in live, s # p PROVE Labelled(pool'[s], s, label')
        <5>1. \A d \in Drives : label'[d] # label[d] => label[d] = NoPool /\ d \notin Members(s)
          BY <2>6, <3>2
        <5>2. s \in Pools /\ pool'[s] = pool[s]
          BY <3>4, <4>4 DEF StorageInv, DiskTypes
        <5>3. Labelled(pool[s], s, label')
          BY <2>2, <4>4, <5>1, LabelsKept
        <5> QED BY <5>2, <5>3
      <4>5. \A s \in live' : Labelled(pool'[s], s, label')
        BY <2>6, <4>3, <4>4
      <4> QED BY <4>1, <4>2, <4>5 DEF LabelsAgree
    <3>7. KeysMatch'
      <4>1. \A s \in loaded' : poolFile'[s] = pool'[s].key
        BY <2>6, <3>1, <3>4 DEF StorageInv, DiskTypes, KeysMatch
      <4>2. \A d \in mapped : header'[d] = header[d]
        BY <2>6, <3>2 DEF StorageInv, DiskTypes
      <4> QED BY <2>4, <4>1, <4>2 DEF KeysMatch, StorageInv
    <3>8. LiveExist'
      BY <2>2, <2>6, <3>1, <3>4 DEF StorageInv, LiveExist, Exists, DiskTypes, Types
    <3> QED BY <2>3, <3>5, <3>6, <3>7, <3>8, RequestStep
  <2> QED BY <1>3, <2>5, <2>6 DEF ZpoolCreate
<1> QED BY <1>1, <1>2, <1>3

\* WipeDrive, and the wipes of other requests.
LEMMA WipeSteps ==
    ASSUME ~WipesNew, StorageInv, NEW r, StorageRequests = {r},
           (\E d \in Drives : WipeDrive(r, d) \/ EncryptDrive(r, d)) \/ WipeCheck(r) \/ ClearBlock(r) \/ WipeDone(r)
    PROVE  StorageInv'
<1> USE DEF In
<1>1. ASSUME NEW d \in Drives, WipeDrive(r, d) PROVE StorageInv'
  <2> DEFINE q == [NoRequest EXCEPT !.at = "wipe", !.todo = {d}]
  <2>1. q.at = "wipe" /\ q.next = "idle" /\ q.todo = {d} /\ q.key = NoRequest.key /\ DOMAIN q = Fields
    BY DEF NoRequest, Fields
  <2>2. /\ Begin(r, q) /\ \A p \in live : \A s \in pool[p].swap : s[2] # d
        /\ UNCHANGED <<label, header, present, pool, live, loaded, poolFile, driveFile, mapped, fresh>>
    BY <1>1 DEF WipeDrive, News, disks, zpools, keyFiles
  <2> HIDE DEF q
  <2>3. RequestHolds(q) /\ q.key \in PoolKeys
    BY <2>1, <2>2, RequestFields DEF RequestHolds
  <2> QED BY <2>1, <2>2, <2>3, RequestBegins
<1>2. ASSUME NEW d \in Drives, EncryptDrive(r, d) PROVE StorageInv'
  <2> DEFINE q == [NoRequest EXCEPT !.at = "wipe", !.todo = {d}, !.next = "encryptKey", !.drive = d]
  <2>1. q.at = "wipe" /\ q.next = "encryptKey" /\ q.todo = {d} /\ q.drive = d /\ q.key = NoRequest.key /\ DOMAIN q = Fields
    BY DEF NoRequest, Fields
  <2>2. /\ Begin(r, q) /\ \A p \in live : \A s \in pool[p].swap : s[2] # d
        /\ UNCHANGED <<label, header, present, pool, live, loaded, poolFile, driveFile, mapped, fresh>>
    BY <1>2 DEF EncryptDrive, News, disks, zpools, keyFiles
  <2> HIDE DEF q
  <2>3. RequestHolds(q) /\ q.key \in PoolKeys
    BY <2>1, <2>2, RequestFields DEF RequestHolds
  <2> QED BY <2>1, <2>2, <2>3, RequestBegins
<1>3. CASE WipeCheck(r)
  <2>1. request[r].at = "wipe" /\ UNCHANGED <<label, header, present, pool, live, loaded, poolFile, fresh>>
    BY <1>3 DEF WipeCheck, disks, zpools
  <2>2. CASE Done(r) /\ UNCHANGED <<mapped, driveFile>>
    <3>1. KeysMatch'
      BY <2>1, <2>2 DEF StorageInv, KeysMatch
    <3> QED BY <2>1, <2>2, <3>1, RequestDone, KeysStep DEF StorageInv, DiskTypes
  <2>3. ASSUME NEW d \in request[r].todo, d \in present, AllListable, MemberPool(d) = {},
               request' = [request EXCEPT ![r].at = "clear", ![r].now = d, ![r].todo = @ \ {d}],
               mapped' = mapped \ {d}, driveFile' = [driveFile EXCEPT ![d] = 0]
        PROVE  StorageInv'
    <3>1. driveFile' \in [Drives -> PoolKeys]
      BY <2>3, StorageAssumption DEF StorageInv, DiskTypes, PoolKeys
    <3>2. KeysMatch'
      BY <2>1, <2>3 DEF StorageInv, DiskTypes, KeysMatch
    <3>3. /\ RequestTypes' /\ request'[r].at = "clear" /\ request'[r].pool = request[r].pool
          /\ request'[r].todo = request[r].todo \ {d} /\ request'[r].now = d
          /\ request'[r].next = request[r].next /\ request'[r].drive = request[r].drive
      BY <2>3 DEF StorageInv, RequestTypes, Fields
    <3>4. \A p \in live : \A s \in pool[p].swap : s[2] \notin request[r].todo
      BY <2>1 DEF StorageInv, RequestHolds
    <3>5. Unneeded(d)
      BY <2>3, <3>4 DEF Unneeded, MemberPool, AllListable, Listable, Olds
    <3>6. request[r].next = "encryptKey" => request[r].todo = {request[r].drive}
      BY <2>1, <2>3 DEF StorageInv, RequestHolds
    <3>7. /\ request[r].next \in {"idle", "device", "encryptKey"}
          /\ request[r].next = "device" => request[r].pool \in live
      BY <2>1 DEF StorageInv, RequestHolds
    <3>8. Unneeded(request[r].now)' /\ request'[r].now \notin mapped'
      <4>1. \A p \in live : /\ d \in pool[p].on \cup pool[p].off =>
                                 pool[p].type # "zfs-raid0" /\ \E s \in pool[p].swap : s[1] = d
                            /\ \A s \in pool[p].swap : s[2] # d
        BY <3>5 DEF Unneeded, Members
      <4>2. live' = live /\ pool' = pool /\ request'[r].now = d
        BY <2>1, <3>3
      <4>3. Unneeded(request[r].now)'
        BY <4>1, <4>2 DEF Unneeded, Members
      <4> QED BY <2>3, <4>2, <4>3
    <3>9. RequestHolds(request[r])'
      <4>1. \A p \in live' : \A s \in pool'[p].swap : s[2] \notin request'[r].todo
        BY <2>1, <3>3, <3>4
      <4>2. request'[r].next = "encryptKey" => request'[r].todo = {} /\ request'[r].now = request'[r].drive
        BY <2>3, <3>3, <3>6
      <4>3. /\ request'[r].next \in {"idle", "device", "encryptKey"}
            /\ request'[r].next = "device" => request'[r].pool \in live'
        BY <2>1, <3>3, <3>7
      <4> QED BY <3>3, <3>8, <4>1, <4>2, <4>3 DEF RequestHolds
    <3> QED BY <2>1, <2>3, <3>1, <3>2, <3>3, <3>9, KeysStep DEF StorageInv, DiskTypes
  <2> QED BY <1>3, <2>2, <2>3 DEF WipeCheck
<1>4. CASE ClearBlock(r)
  <2> DEFINE d == request[r].now
  <2>1. request[r].at = "clear" /\ Go(r, "wipe")
    BY <1>4 DEF ClearBlock
  <2>2. /\ label' = [label EXCEPT ![d] = NoPool] /\ header' = [header EXCEPT ![d] = 0]
        /\ UNCHANGED <<present, pool, live, loaded, poolFile, driveFile, mapped, fresh>>
    BY <1>4 DEF ClearBlock, zpools, keyFiles
  <2>3. d \notin mapped /\ Unneeded(d)
    BY <2>1 DEF StorageInv, RequestHolds
  <2>4. /\ RequestTypes' /\ request'[r].at = "wipe" /\ request'[r].todo = request[r].todo
        /\ request'[r].next = request[r].next /\ request'[r].pool = request[r].pool
        /\ request'[r].drive = request[r].drive
    BY <2>1, RequestGoes
  <2>5. /\ request[r].next \in {"idle", "device", "encryptKey"}
        /\ request[r].next = "device" => request[r].pool \in live
        /\ request[r].next = "encryptKey" => request[r].todo = {} /\ d = request[r].drive
        /\ \A p \in live : \A s \in pool[p].swap : s[2] \notin request[r].todo
    BY <2>1 DEF StorageInv, RequestHolds
  <2> HIDE DEF d
  <2>6. RequestHolds(request[r])'
    BY <2>2, <2>3, <2>4, <2>5 DEF RequestHolds
  <2>7. DiskTypes'
    <3>1. 0 \in PoolKeys
      BY StorageAssumption DEF PoolKeys
    <3>2. label' \in [Drives -> Pools \cup {NoPool}] /\ header' \in [Drives -> PoolKeys]
      BY <2>2, <3>1 DEF StorageInv, DiskTypes
    <3> QED BY <2>2, <3>2 DEF StorageInv, DiskTypes
  <2>8. LabelsAgree'
    <3>1. \A x \in Drives : label'[x] # NoPool => header'[x] = 0
      BY <2>2 DEF StorageInv, LabelsAgree, DiskTypes
    <3>2. ASSUME NEW p \in live PROVE Labelled(pool[p], p, label')
      <4>1. Labelled(pool[p], p, label) /\ pool[p] \in PoolConfigs
        BY DEF StorageInv, LabelsAgree, DiskTypes
      <4>2. \A x \in Drives : label'[x] = IF x = d THEN NoPool ELSE label[x]
        BY <2>2 DEF StorageInv, DiskTypes
      <4>3. \A x \in pool[p].on \cup pool[p].off : x \in Drives
        BY <4>1 DEF PoolConfigs
      <4>4. \A s \in pool[p].swap : s[2] \in Drives
        BY <4>1 DEF PoolConfigs
      <4> QED BY <2>3, <4>1, <4>2, <4>3, <4>4 DEF Labelled, Unneeded, Members
    <3> QED BY <2>2, <3>1, <3>2 DEF StorageInv, LabelsAgree
  <2>9. KeysMatch'
    BY <2>2, <2>3 DEF StorageInv, KeysMatch, DiskTypes
  <2>10. LiveExist'
    BY <2>2 DEF StorageInv, LiveExist, Exists
  <2> QED BY <2>4, <2>6, <2>7, <2>8, <2>9, <2>10, RequestStep
<1>5. CASE WipeDone(r)
  <2>1. request[r].at = "wipe" /\ request[r].todo = {}
    BY <1>5 DEF WipeDone
  <2>2. UNCHANGED <<label, header, present, pool, live, loaded, poolFile, driveFile, mapped, fresh>>
    BY <1>5 DEF WipeDone, disks, zpools, keyFiles
  <2>3. KeysMatch'
    BY <2>2 DEF StorageInv, KeysMatch
  <2>4. CASE Done(r)
    BY <2>1, <2>2, <2>3, <2>4, RequestDone, KeysStep DEF StorageInv, DiskTypes
  <2>5. CASE request[r].next # "idle" /\ Go(r, request[r].next)
    <3>1. /\ RequestTypes' /\ request'[r].at = request[r].next /\ request'[r].pool = request[r].pool
          /\ request'[r].drive = request[r].drive
      BY <2>5, RequestGoes
    <3>2. /\ request[r].next \in {"device", "encryptKey"}
          /\ request[r].next = "device" => request[r].pool \in live
          /\ request[r].next = "encryptKey" => request[r].drive \notin mapped
      BY <2>1, <2>5 DEF StorageInv, RequestHolds
    <3>3. RequestHolds(request[r])'
      BY <2>2, <3>1, <3>2 DEF RequestHolds
    <3> QED BY <2>1, <2>2, <2>3, <3>1, <3>3, KeysStep DEF StorageInv, DiskTypes
  <2> QED BY <1>5, <2>4, <2>5 DEF WipeDone
<1> QED BY <1>1, <1>2, <1>3, <1>4, <1>5

\* A step that changes one pool in use, and labels only drives that were free or the pool's.
LEMMA PoolChange ==
    ASSUME StorageInv, NEW p \in live, NEW c \in PoolConfigs, pool' = [pool EXCEPT ![p] = c],
           c.key = pool[p].key, c.type # "none", Shape(c),
           label' \in [Drives -> Pools \cup {NoPool}], header' \in [Drives -> PoolKeys], present' \subseteq Drives,
           Labelled(c, p, label'),
           \A d \in Drives : label'[d] # label[d] =>
               label[d] = p \/ (label[d] = NoPool /\ \A s \in live : d \notin Members(s)),
           \A d \in Drives : header'[d] = IF label'[d] # NoPool THEN 0 ELSE header[d],
           \A d \in Drives : label[d] = NoPool /\ label'[d] # NoPool => d \notin mapped,
           UNCHANGED <<live, loaded, poolFile, driveFile, mapped, fresh>>
    PROVE  /\ DiskTypes' /\ LabelsAgree' /\ KeysMatch' /\ LiveExist'
           /\ p \in Pools /\ pool'[p] = c /\ \A s \in Pools \ {p} : pool'[s] = pool[s]
<1>1. p \in Pools /\ pool'[p] = c /\ \A s \in Pools \ {p} : pool'[s] = pool[s]
  BY DEF StorageInv, DiskTypes
<1>2. DiskTypes'
  BY <1>1 DEF StorageInv, DiskTypes
<1>3. LabelsAgree'
  <2>1. \A s \in Pools : Shape(pool'[s])
    BY <1>1 DEF StorageInv, LabelsAgree
  <2>2. ASSUME NEW s \in live, s # p PROVE Labelled(pool'[s], s, label')
    <3>1. s \in Pools /\ pool'[s] = pool[s]
      BY <1>1, <2>2 DEF StorageInv, DiskTypes
    <3>2. Labelled(pool[s], s, label')
      BY <1>1, <2>2, LabelsKept
    <3> QED BY <3>1, <3>2
  <2>3. \A d \in Drives : label'[d] # NoPool => header'[d] = 0
    OBVIOUS
  <2> QED BY <1>1, <2>1, <2>2, <2>3 DEF LabelsAgree
<1>4. KeysMatch'
  <2>1. \A s \in loaded : poolFile[s] = pool'[s].key
    BY <1>1 DEF StorageInv, KeysMatch, DiskTypes
  <2>2. \A d \in mapped : header'[d] = header[d]
    BY DEF StorageInv, LabelsAgree, DiskTypes
  <2> QED BY <2>1, <2>2 DEF StorageInv, KeysMatch
<1>5. LiveExist'
  BY <1>1 DEF StorageInv, LiveExist, Exists, DiskTypes
<1> QED BY <1>1, <1>2, <1>3, <1>4, <1>5

LEMMA DestroySteps ==
    ASSUME StorageInv, NEW r, StorageRequests = {r}, (\E p \in Pools : DestroyZpool(r, p)) \/ DestroyKey(r)
    PROVE  StorageInv'
<1> USE DEF In
<1>0. 0 \in PoolKeys
  BY StorageAssumption DEF PoolKeys
<1>1. ASSUME NEW p \in Pools, DestroyZpool(r, p), p \in live PROVE StorageInv'
  <2>1. PICK q : q = [NoRequest EXCEPT !.at = "destroyKey", !.pool = p, !.todo = ShownOn(p) \cup ShownOff(p)]
    OBVIOUS
  <2>2. /\ q.at = "destroyKey" /\ q.pool = p /\ q.next = "idle" /\ q.key = NoRequest.key
        /\ q.todo = ShownOn(p) \cup ShownOff(p) /\ DOMAIN q = Fields
    BY <2>1 DEF NoRequest, Fields
  <2>3. Begin(r, q)
    BY <1>1, <2>1 DEF DestroyZpool
  <2>4. /\ pool' = [pool EXCEPT ![p] = NoPoolConfig]
        /\ label' = [d \in Drives |-> IF label[d] = p THEN NoPool ELSE label[d]]
        /\ live' = live \ {p} /\ loaded' = loaded \ {p}
        /\ UNCHANGED <<poolFile, header, present, driveFile, mapped, fresh>>
    BY <1>1 DEF DestroyZpool
  <2>5. request' = [request EXCEPT ![r] = q]
    BY <2>3 DEF Begin
  <2>6. request'[r] = q /\ RequestTypes'
    BY <2>2, <2>5, RequestFields DEF StorageInv, RequestTypes
  <2>8. pool'[p] = NoPoolConfig /\ NoPoolConfig \in PoolConfigs /\ \A s \in Pools \ {p} : pool'[s] = pool[s]
    BY <1>0, <2>4 DEF StorageInv, DiskTypes, NoPoolConfig, PoolConfigs
  <2>7. RequestHolds(request[r])'
    <3>1. ASSUME NEW s \in live \ {p}, NEW x \in pool'[s].swap PROVE x[2] \notin q.todo
      <4>1. pool'[s] = pool[s] /\ pool[s] \in PoolConfigs /\ pool[p] \in PoolConfigs /\ s # NoPool
        BY <1>1, <2>8, StorageAssumption DEF StorageInv, DiskTypes
      <4>2. x[2] \in Drives /\ label[x[2]] = s
        BY <3>1, <4>1 DEF StorageInv, LabelsAgree, Labelled, PoolConfigs
      <4>3. \A d \in Members(p) : label[d] \in {p, NoPool}
        BY <1>1 DEF StorageInv, LabelsAgree, Labelled, Members
      <4>4. ASSUME NEW y \in pool[p].swap PROVE Replacing(y) \notin Drives
        <5>1. y[2] \in 1 .. MaxDrive
          BY <4>1, <4>4 DEF PoolConfigs, Drives
        <5> QED BY <5>1, StorageAssumption DEF Replacing, Drives
      <4>5. Healthy(p) \subseteq pool[p].swap
        BY DEF Healthy
      <4> QED BY <2>2, <3>1, <4>1, <4>2, <4>3, <4>4, <4>5 DEF ShownOn, ShownOff, Members
    <3> QED BY <1>1, <2>2, <2>4, <2>6, <3>1 DEF RequestHolds
  <2>9. DiskTypes'
    BY <2>4, <2>8 DEF StorageInv, DiskTypes
  <2>10. LabelsAgree'
    <3>1. \A d \in Drives : label'[d] # NoPool => header'[d] = 0
      BY <2>4 DEF StorageInv, LabelsAgree
    <3>2. \A s \in Pools : Shape(pool'[s])
      BY <2>8 DEF StorageInv, LabelsAgree, Shape, NoPoolConfig
    <3>3. ASSUME NEW s \in live \ {p} PROVE Labelled(pool'[s], s, label')
      <4>1. pool'[s] = pool[s]
        BY <2>8 DEF StorageInv, DiskTypes
      <4>2. \A d \in Drives : label'[d] # label[d] => label[d] = p
        BY <2>4
      <4>3. Labelled(pool[s], s, label')
        BY <4>2, LabelsKept
      <4> QED BY <4>1, <4>3
    <3> QED BY <2>4, <3>1, <3>2, <3>3 DEF LabelsAgree
  <2>11. KeysMatch'
    BY <2>4, <2>8 DEF StorageInv, KeysMatch, DiskTypes
  <2>12. LiveExist'
    BY <2>4, <2>8 DEF StorageInv, LiveExist, Exists, DiskTypes
  <2> QED BY <2>6, <2>7, <2>9, <2>10, <2>11, <2>12, RequestStep
<1>2. ASSUME NEW p \in Pools, DestroyZpool(r, p), p \notin live PROVE StorageInv'
  <2>1. /\ poolFile' = [poolFile EXCEPT ![p] = 0] /\ request[r].at = "idle"
        /\ UNCHANGED <<label, header, present, pool, live, loaded, driveFile, mapped, fresh, request>>
    BY <1>2 DEF DestroyZpool
  <2>2. poolFile' \in [Pools -> PoolKeys]
    BY <1>0, <2>1 DEF StorageInv, DiskTypes
  <2>3. KeysMatch'
    BY <1>2, <2>1 DEF StorageInv, KeysMatch, DiskTypes
  <2>4. RequestHolds(request[r])' /\ RequestTypes'
    BY <2>1 DEF RequestHolds, StorageInv, RequestTypes
  <2> QED BY <2>1, <2>2, <2>3, <2>4, KeysStep DEF StorageInv, DiskTypes
<1>3. CASE DestroyKey(r)
  <2> DEFINE p == request[r].pool
  <2>1. request[r].at = "destroyKey"
    BY <1>3 DEF DestroyKey
  <2>2. /\ p \in Pools \ live /\ request[r].next = "idle"
        /\ \A s \in live : \A x \in pool[s].swap : x[2] \notin request[r].todo
    BY <2>1 DEF StorageInv, RequestHolds
  <2>3. /\ poolFile' = [poolFile EXCEPT ![p] = 0]
        /\ UNCHANGED <<label, header, present, pool, live, loaded, driveFile, mapped, fresh>>
    BY <1>3 DEF DestroyKey, disks, zpools
  <2>4. poolFile' \in [Pools -> PoolKeys]
    BY <1>0, <2>2, <2>3 DEF StorageInv, DiskTypes
  <2>5. KeysMatch'
    BY <2>2, <2>3 DEF StorageInv, KeysMatch, DiskTypes
  <2>6. RequestHolds(request[r])' /\ RequestTypes'
    <3>1. CASE Done(r)
      BY <3>1, RequestDone
    <3>2. CASE Go(r, "wipe")
      <4>1. /\ RequestTypes' /\ request'[r].at = "wipe" /\ request'[r].next = request[r].next
            /\ request'[r].todo = request[r].todo
        BY <3>2, RequestGoes
      <4> QED BY <2>2, <2>3, <4>1 DEF RequestHolds
    <3> QED BY <1>3, <3>1, <3>2 DEF DestroyKey
  <2> QED BY <2>3, <2>4, <2>5, <2>6, KeysStep DEF StorageInv, DiskTypes
<1> QED BY <1>1, <1>2, <1>3

LEMMA UpdateZpoolInv ==
    ASSUME StorageInv, NEW r, StorageRequests = {r}, NEW p \in Pools, NEW type \in Types, NEW devs, UpdateZpool(r, p, devs, type)
    PROVE  StorageInv'
<1> USE DEF In
<1>1. PICK q : /\ Begin(r, q)
               /\ \/ q = [NoRequest EXCEPT !.at = "mirror", !.pool = p, !.devs = devs]
                  \/ q = [NoRequest EXCEPT !.at = "device", !.pool = p, !.devs = devs, !.type = type,
                                           !.cur = CurrentDevices(p, Len(devs)), !.i = 1]
  BY DEF UpdateZpool
<1>2. q.at \in {"mirror", "device"} /\ q.pool = p /\ q.key = NoRequest.key /\ DOMAIN q = Fields
  BY <1>1 DEF NoRequest, Fields
<1>3. p \in live /\ UNCHANGED <<label, header, present, pool, live, loaded, poolFile, driveFile, mapped, fresh>>
  BY DEF UpdateZpool, disks, zpools, keyFiles
<1>4. RequestHolds(q) /\ q.key \in PoolKeys
  BY <1>2, <1>3, RequestFields DEF RequestHolds
<1> QED BY <1>1, <1>2, <1>3, <1>4, RequestBegins

\* What is known of a pool in use, and of a drive that may be taken.
LEMMA PoolFacts ==
    ASSUME StorageInv, NEW p \in live
    PROVE  /\ p \in Pools /\ p # NoPool /\ pool[p] \in PoolConfigs /\ pool[p].type # "none"
           /\ Shape(pool[p]) /\ Labelled(pool[p], p, label)
<1>1. p \in Pools /\ pool[p] \in PoolConfigs /\ p # NoPool
  BY StorageAssumption DEF StorageInv, DiskTypes
<1>2. pool[p].type # "none"
  BY DEF StorageInv, LiveExist, Exists
<1>3. Shape(pool[p]) /\ Labelled(pool[p], p, label)
  BY <1>1 DEF StorageInv, LabelsAgree
<1> QED BY <1>1, <1>2, <1>3

LEMMA FreeDrive ==
    ASSUME StorageInv, NEW d, Usable(d)
    PROVE  /\ d \in Drives /\ label[d] = NoPool /\ d \notin mapped
           /\ \A p \in live : d \notin Members(p) /\ \A s \in pool[p].swap : s[2] # d
BY DEF Usable, News, StorageInv, DiskTypes

\* No pool is rebuilt onto a drive of a pool in use.
LEMMA MembersNotNew ==
    ASSUME StorageInv, NEW p \in live, NEW d \in Members(p), NEW q \in live, NEW s \in pool[q].swap
    PROVE  s[2] # d
<1>1. Labelled(pool[p], p, label) /\ Shape(pool[p]) /\ p # NoPool
  BY PoolFacts
<1>2. Labelled(pool[q], q, label) /\ q # NoPool
  BY PoolFacts
<1> QED BY <1>1, <1>2 DEF Labelled, Shape, Members

\* A step of a request that changes one pool.
LEMMA PoolStep ==
    ASSUME StorageInv, NEW r, StorageRequests = {r}, NEW p \in live, NEW c \in PoolConfigs, pool' = [pool EXCEPT ![p] = c],
           c.key = pool[p].key, c.type # "none", Shape(c),
           label' \in [Drives -> Pools \cup {NoPool}], header' \in [Drives -> PoolKeys], present' \subseteq Drives,
           Labelled(c, p, label'),
           \A d \in Drives : label'[d] # label[d] =>
               label[d] = p \/ (label[d] = NoPool /\ \A s \in live : d \notin Members(s)),
           \A d \in Drives : header'[d] = IF label'[d] # NoPool THEN 0 ELSE header[d],
           \A d \in Drives : label[d] = NoPool /\ label'[d] # NoPool => d \notin mapped,
           UNCHANGED <<live, loaded, poolFile, driveFile, mapped, fresh>>,
           RequestTypes', RequestHolds(request[r])'
    PROVE  StorageInv'
BY PoolChange, RequestStep

\* One that changes no pool.
LEMMA NothingStep ==
    ASSUME StorageInv, NEW r, StorageRequests = {r}, RequestTypes', RequestHolds(request[r])',
           UNCHANGED <<pool, label, present, live, loaded, poolFile, driveFile, mapped, fresh>>,
           header' = header \/ header' = [d \in Drives |-> IF label'[d] # NoPool THEN 0 ELSE header[d]]
    PROVE  StorageInv'
<1>1. header' = header
  BY DEF StorageInv, DiskTypes, LabelsAgree
<1>2. KeysMatch'
  BY <1>1 DEF StorageInv, KeysMatch
<1> QED BY <1>1, <1>2, KeysStep DEF StorageInv, DiskTypes

LEMMA ConvertPoolToMirrorInv ==
    ASSUME StorageInv, NEW r, StorageRequests = {r}, ConvertPoolToMirror(r)
    PROVE  StorageInv'
<1> DEFINE p == request[r].pool
           new == IF request[r].devs[1] \in pool[p].on THEN request[r].devs[2] ELSE request[r].devs[1]
<1>1. request[r].at = "mirror" /\ Done(r)
  BY DEF ConvertPoolToMirror, In
<1>2. p \in live
  BY <1>1 DEF StorageInv, RequestHolds
<1>3. RequestTypes' /\ RequestHolds(request[r])'
  BY <1>1, RequestDone
<1>4. UNCHANGED <<present, live, loaded, poolFile, driveFile, mapped, fresh>>
  BY DEF ConvertPoolToMirror, keyFiles
<1>5. CASE UNCHANGED <<pool, label, header>>
  BY <1>3, <1>4, <1>5, NothingStep
<1>6. CASE /\ new \in Drives /\ Usable(new)
           /\ pool' = [pool EXCEPT ![p].on = @ \cup {new}, ![p].type = "zfs-raid1"]
           /\ label' = [label EXCEPT ![new] = p] /\ header' = [header EXCEPT ![new] = 0]
  <2> HIDE DEF p, new
  <2> DEFINE c == [pool[p] EXCEPT !.on = @ \cup {new}, !.type = "zfs-raid1"]
  <2>1. /\ p \in Pools /\ p # NoPool /\ pool[p] \in PoolConfigs
        /\ Shape(pool[p]) /\ Labelled(pool[p], p, label)
    BY <1>2, PoolFacts
  <2>2. /\ label[new] = NoPool /\ new \notin mapped
        /\ \A s \in live : new \notin Members(s) /\ \A x \in pool[s].swap : x[2] # new
    BY <1>6, FreeDrive
  <2>3. /\ pool' = [pool EXCEPT ![p] = c] /\ c \in PoolConfigs /\ c.key = pool[p].key /\ c.type = "zfs-raid1"
        /\ c.on = pool[p].on \cup {new} /\ c.off = pool[p].off /\ c.swap = pool[p].swap
    BY <1>6, <2>1 DEF PoolConfigs, Types, StorageInv, DiskTypes
  <2> HIDE DEF c
  <2>4. Shape(c)
    BY <1>2, <2>1, <2>2, <2>3 DEF Shape, Members
  <2>5. \A d \in Drives : label'[d] = IF d = new THEN p ELSE label[d]
    BY <1>6 DEF StorageInv, DiskTypes
  <2>6. Labelled(c, p, label')
    <3>1. \A d \in c.on \cup c.off : d \in Drives
      BY <2>3 DEF PoolConfigs
    <3>2. \A s \in c.swap : s[2] \in Drives
      BY <2>3 DEF PoolConfigs
    <3> QED BY <2>1, <2>3, <2>5, <3>1, <3>2 DEF Labelled
  <2>7. label' \in [Drives -> Pools \cup {NoPool}] /\ header' \in [Drives -> PoolKeys]
    BY <1>6, <2>1, StorageAssumption DEF StorageInv, DiskTypes, PoolKeys
  <2>8. /\ \A d \in Drives : label'[d] # label[d] => label[d] = NoPool /\ \A s \in live : d \notin Members(s)
        /\ \A d \in Drives : label[d] = NoPool /\ label'[d] # NoPool => d \notin mapped
    BY <2>2, <2>5
  <2>9. \A d \in Drives : header'[d] = IF label'[d] # NoPool THEN 0 ELSE header[d]
    BY <1>6, <2>1, <2>5 DEF StorageInv, DiskTypes, LabelsAgree
  <2> QED BY <1>2, <1>3, <1>4, <2>3, <2>4, <2>6, <2>7, <2>8, <2>9, PoolStep DEF StorageInv, DiskTypes
<1> QED BY <1>5, <1>6 DEF ConvertPoolToMirror

LEMMA UpdateDeviceInv ==
    ASSUME StorageInv, NEW r, StorageRequests = {r}, UpdateDevice(r)
    PROVE  StorageInv'
<1> DEFINE q == request[r]
           p == q.pool
           old == q.cur[q.i]
           new == q.devs[q.i]
           goOn == [q EXCEPT !.i = @ + 1]
           wipeOld == [goOn EXCEPT !.at = "wipe", !.next = "device", !.todo = {old}]
           others == pool[p].on \ {old}
<1>1. q.at = "device"
  BY DEF UpdateDevice, In
<1>2. p \in live
  BY <1>1 DEF StorageInv, RequestHolds
<1>3. /\ header' = [d \in Drives |-> IF label'[d] # NoPool THEN 0 ELSE header[d]]
      /\ UNCHANGED <<present, live, loaded, poolFile, driveFile, mapped, fresh>>
  BY DEF UpdateDevice, keyFiles
<1>4. ASSUME NEW s, s \in {goOn, wipeOld}, request' = [request EXCEPT ![r] = s],
             s = wipeOld => \A x \in live' : \A y \in pool'[x].swap : y[2] # old
      PROVE  RequestTypes' /\ RequestHolds(request[r])'
  <2>1. /\ DOMAIN s = Fields /\ s.key \in PoolKeys /\ s.pool = p
        /\ s.at = "device" \/ (s.at = "wipe" /\ s.next = "device" /\ s.todo = {old} /\ s = wipeOld)
    BY <1>1, <1>4 DEF StorageInv, RequestTypes, Fields
  <2>2. request'[r] = s /\ RequestTypes'
    BY <1>4, <2>1 DEF StorageInv, RequestTypes
  <2> HIDE DEF p, goOn, wipeOld, q, old
  <2> QED BY <1>2, <1>3, <1>4, <2>1, <2>2 DEF RequestHolds
<1>5. ASSUME NEW c \in PoolConfigs, pool' = [pool EXCEPT ![p] = c], c.key = pool[p].key, c.type = pool[p].type,
             Shape(c), label' \in [Drives -> Pools \cup {NoPool}], Labelled(c, p, label'),
             \A d \in Drives : label'[d] # label[d] =>
                 label[d] = p \/ (label[d] = NoPool /\ \A s \in live : d \notin Members(s)),
             \A d \in Drives : label[d] = NoPool /\ label'[d] # NoPool => d \notin mapped,
             RequestTypes', RequestHolds(request[r])'
      PROVE  StorageInv'
  <2>1. header' \in [Drives -> PoolKeys] /\ \A d \in Drives : header'[d] = IF label'[d] # NoPool THEN 0 ELSE header[d]
    BY <1>3, StorageAssumption DEF StorageInv, DiskTypes, PoolKeys
  <2>2. pool[p].type # "none"
    BY <1>2, PoolFacts
  <2> HIDE DEF p, q
  <2> QED BY <1>2, <1>3, <1>5, <2>1, <2>2, PoolStep DEF StorageInv, DiskTypes, q
<1>6. /\ p \in Pools /\ p # NoPool /\ pool[p] \in PoolConfigs /\ Shape(pool[p]) /\ Labelled(pool[p], p, label)
  BY <1>2, PoolFacts
<1>7. ASSUME old \in Members(p) PROVE \A x \in live : \A y \in pool[x].swap : y[2] # old
  <2> HIDE DEF p, old
  <2> QED BY <1>2, <1>7, MembersNotNew
<1>8. CASE new = old /\ request' = [request EXCEPT ![r] = goOn] /\ UNCHANGED <<pool, label>>
  <2>1. goOn # wipeOld
    BY <1>1 DEF StorageInv, RequestTypes, Fields
  <2>2. RequestTypes' /\ RequestHolds(request[r])'
    BY <1>4, <1>8, <2>1
  <2> QED BY <1>3, <1>8, <2>2, NothingStep
<1>9. CASE /\ new = 0 /\ q.type = "zfs-raid0" /\ pool[p].type = "zfs-raid0" /\ others # {}
           /\ old \in pool[p].on \ Olds(p)
           /\ pool' = [pool EXCEPT ![p].on = others]
           /\ label' = [label EXCEPT ![old] = NoPool]
           /\ request' = [request EXCEPT ![r] = wipeOld]
  <2> DEFINE c == [pool[p] EXCEPT !.on = others]
  <2>1. pool' = [pool EXCEPT ![p] = c] /\ c \in PoolConfigs /\ c.key = pool[p].key /\ c.type = pool[p].type
        /\ c.on = others /\ c.off = pool[p].off /\ c.swap = pool[p].swap
    BY <1>6, <1>9 DEF PoolConfigs, StorageInv, DiskTypes
  <2>2. old \in Members(p) /\ old \in Drives
    BY <1>6, <1>9 DEF Members, PoolConfigs
  <2>3. \A x \in live' : \A y \in pool'[x].swap : y[2] # old
    <3> HIDE DEF c, old
    <3> QED BY <1>3, <1>6, <1>7, <2>1, <2>2 DEF StorageInv, DiskTypes
  <2>4. RequestTypes' /\ RequestHolds(request[r])'
    BY <1>4, <1>9, <2>3
  <2> HIDE DEF c, p, new, old, goOn, wipeOld, q
  <2>5. label' \in [Drives -> Pools \cup {NoPool}] /\ \A d \in Drives : label'[d] = IF d = old THEN NoPool ELSE label[d]
    BY <1>9 DEF StorageInv, DiskTypes
  <2>6. Shape(c)
    BY <1>6, <2>1 DEF Shape
  <2>7. label[old] = p /\ \A s \in pool[p].swap : s[2] # old
    BY <1>2, <1>6, <1>7, <1>9, <2>2 DEF Labelled
  <2>8. Labelled(c, p, label')
    <3>1. \A d \in c.on \cup c.off : d \in Drives /\ d # old /\ d \in pool[p].on \cup pool[p].off
      BY <1>6, <1>9, <2>1 DEF PoolConfigs, Shape
    <3>2. \A s \in c.swap : s[2] \in Drives /\ s[2] # old
      BY <2>1, <2>7 DEF PoolConfigs
    <3> QED BY <1>6, <2>1, <2>5, <3>1, <3>2 DEF Labelled
  <2>9. /\ \A d \in Drives : label'[d] # label[d] => label[d] = p
        /\ \A d \in Drives : label[d] = NoPool /\ label'[d] # NoPool => d \notin mapped
    BY <2>5, <2>7
  <2> QED BY <1>5, <2>1, <2>4, <2>5, <2>6, <2>8, <2>9
<1>10. CASE /\ new = 0 /\ q.type = "zfs-raid1" /\ pool[p].type = "zfs-raid1" /\ others # {}
            /\ old \in Members(p) \ Olds(p)
            /\ pool' = [pool EXCEPT ![p].on = others, ![p].off = @ \cup {old}]
            /\ request' = [request EXCEPT ![r] = goOn]
            /\ UNCHANGED label
  <2> DEFINE c == [pool[p] EXCEPT !.on = others, !.off = @ \cup {old}]
  <2>0. goOn # wipeOld
    BY <1>1 DEF StorageInv, RequestTypes, Fields
  <2>1. RequestTypes' /\ RequestHolds(request[r])'
    BY <1>4, <1>10, <2>0
  <2>20. c.key = pool[p].key /\ c.type = pool[p].type
         /\ c.on = others /\ c.off = pool[p].off \cup {old} /\ c.swap = pool[p].swap
    BY <1>6 DEF PoolConfigs
  <2>21. old \in Drives /\ others \subseteq Drives
    BY <1>6, <1>10 DEF PoolConfigs, Members
  <2>22. c \in PoolConfigs
    BY <1>6, <2>21 DEF PoolConfigs
  <2>23. pool' = [pool EXCEPT ![p] = c]
    BY <1>6, <1>10 DEF PoolConfigs, StorageInv, DiskTypes
  <2>2. pool' = [pool EXCEPT ![p] = c] /\ c \in PoolConfigs /\ c.key = pool[p].key /\ c.type = pool[p].type
        /\ c.on = others /\ c.off = pool[p].off \cup {old} /\ c.swap = pool[p].swap
    BY <2>20, <2>22, <2>23
  <2> HIDE DEF c, p, new, old, goOn, wipeOld, q
  <2>3. label' \in [Drives -> Pools \cup {NoPool}]
    BY <1>10 DEF StorageInv, DiskTypes
  <2>4. Shape(c) /\ Labelled(c, p, label')
    <3>1. c.on \cup c.off = pool[p].on \cup pool[p].off
      BY <1>10, <2>2 DEF Members
    <3>2. c.on \cap c.off = {}
      BY <1>6, <2>2 DEF Shape
    <3> QED BY <1>6, <1>10, <2>2, <3>1, <3>2 DEF Shape, Labelled
  <2>5. /\ \A d \in Drives : label'[d] # label[d] => label[d] = p
        /\ \A d \in Drives : label[d] = NoPool /\ label'[d] # NoPool => d \notin mapped
    BY <1>10
  <2> QED BY <1>5, <2>1, <2>2, <2>3, <2>4, <2>5
<1>11. CASE /\ new \in Drives /\ Usable(new) /\ old \in Members(p) \ Olds(p)
            /\ pool' = [pool EXCEPT ![p].swap = @ \cup {<<old, new>>}]
            /\ label' = [label EXCEPT ![new] = p]
            /\ request' = [request EXCEPT ![r] = IF old \in present THEN wipeOld ELSE goOn]
  <2> DEFINE c == [pool[p] EXCEPT !.swap = @ \cup {<<old, new>>}]
  <2>1. /\ label[new] = NoPool /\ new \notin mapped
        /\ \A s \in live : new \notin Members(s) /\ \A x \in pool[s].swap : x[2] # new
    <3> HIDE DEF new
    <3> QED BY <1>11, FreeDrive
  <2>2. old \in Members(p) /\ old \in Drives /\ old # new
    BY <1>2, <1>6, <1>11, <2>1 DEF Members, PoolConfigs
  <2>3. pool' = [pool EXCEPT ![p] = c] /\ c \in PoolConfigs /\ c.key = pool[p].key /\ c.type = pool[p].type
        /\ c.on = pool[p].on /\ c.off = pool[p].off /\ c.swap = pool[p].swap \cup {<<old, new>>}
    <3> HIDE DEF p, old, new, goOn, wipeOld, q
    <3>1. <<old, new>> \in ({0} \cup Drives) \X Drives
      BY <1>11, <2>2
    <3>2. pool[p].swap \cup {<<old, new>>} \in SUBSET (({0} \cup Drives) \X Drives)
      BY <1>6, <3>1 DEF PoolConfigs
    <3>3. c.swap = pool[p].swap \cup {<<old, new>>} /\ c.key = pool[p].key /\ c.type = pool[p].type
          /\ c.on = pool[p].on /\ c.off = pool[p].off
      BY <1>6 DEF PoolConfigs
    <3>4. c \in PoolConfigs
      BY <1>6, <3>2 DEF PoolConfigs
    <3> HIDE DEF c
    <3>5. pool' = [pool EXCEPT ![p] = c]
      BY <1>11 DEF c
    <3> QED BY <3>3, <3>4, <3>5
  <2>4. \A x \in live' : \A y \in pool'[x].swap : y[2] # old
    <3> HIDE DEF c, old, new
    <3>1. \A s \in Pools \ {p} : pool'[s] = pool[s]
      BY <2>3 DEF StorageInv, DiskTypes
    <3>2. pool'[p] = c
      BY <1>6, <2>3 DEF StorageInv, DiskTypes
    <3> QED BY <1>3, <1>6, <1>7, <2>2, <2>3, <3>1, <3>2 DEF StorageInv, DiskTypes
  <2>5. RequestTypes' /\ RequestHolds(request[r])'
    <3> HIDE DEF goOn, wipeOld
    <3> QED BY <1>4, <1>11, <2>4
  <2> HIDE DEF c, p, new, old, goOn, wipeOld, q
  <2>6. label' \in [Drives -> Pools \cup {NoPool}] /\ \A d \in Drives : label'[d] = IF d = new THEN p ELSE label[d]
    BY <1>6, <1>11 DEF StorageInv, DiskTypes
  <2>7. Shape(c)
    BY <1>2, <1>6, <2>1, <2>3 DEF Shape, Members
  <2>8. Labelled(c, p, label')
    <3>1. \A d \in c.on \cup c.off : d \in Drives /\ d # new /\ d \in pool[p].on \cup pool[p].off
      BY <1>2, <2>1, <2>3 DEF PoolConfigs, Members
    <3>2. \A s \in c.swap : s[2] \in Drives /\ (s[2] = new \/ s \in pool[p].swap)
      BY <2>3 DEF PoolConfigs
    <3>3. \A s \in c.swap : label'[s[2]] = p
      BY <1>6, <2>6, <3>2 DEF Labelled
    <3> QED BY <1>6, <2>3, <2>6, <3>1, <3>3 DEF Labelled
  <2>9. /\ \A d \in Drives : label'[d] # label[d] => label[d] = NoPool /\ \A s \in live : d \notin Members(s)
        /\ \A d \in Drives : label[d] = NoPool /\ label'[d] # NoPool => d \notin mapped
    BY <2>1, <2>6
  <2> QED BY <1>5, <2>3, <2>5, <2>6, <2>7, <2>8, <2>9
<1>12. CASE new # old /\ Done(r) /\ UNCHANGED <<pool, label>>
  BY <1>3, <1>12, RequestDone, NothingStep
<1> QED BY <1>8, <1>9, <1>10, <1>11, <1>12 DEF UpdateDevice


LEMMA AddDevicesInv ==
    ASSUME StorageInv, NEW r, StorageRequests = {r}, AddDevices(r)
    PROVE  StorageInv'
<1> DEFINE p == request[r].pool
           new == Range(SubSeq(request[r].devs, Len(request[r].cur) + 1, Len(request[r].devs)))
<1>1. request[r].at = "device" /\ Done(r)
  BY DEF AddDevices, In
<1>2. p \in live
  BY <1>1 DEF StorageInv, RequestHolds
<1>3. RequestTypes' /\ RequestHolds(request[r])'
  BY <1>1, RequestDone
<1>4. /\ header' = [d \in Drives |-> IF label'[d] # NoPool THEN 0 ELSE header[d]]
      /\ UNCHANGED <<present, live, loaded, poolFile, driveFile, mapped, fresh>>
  BY DEF AddDevices, keyFiles
<1>5. header' \in [Drives -> PoolKeys] /\ \A d \in Drives : header'[d] = IF label'[d] # NoPool THEN 0 ELSE header[d]
  BY <1>4, StorageAssumption DEF StorageInv, DiskTypes, PoolKeys
<1>6. /\ p \in Pools /\ p # NoPool /\ pool[p] \in PoolConfigs /\ pool[p].type # "none"
      /\ Shape(pool[p]) /\ Labelled(pool[p], p, label)
  BY <1>2, PoolFacts
<1>7. CASE UNCHANGED <<pool, label>>
  BY <1>3, <1>4, <1>7, NothingStep
\* A device that had been taken offline comes back.
<1>8. CASE /\ new \subseteq (pool[p].off \ Olds(p)) \cap present
           /\ pool' = [pool EXCEPT ![p].on = @ \cup new, ![p].off = @ \ new] /\ UNCHANGED label
  <2> HIDE DEF p, new
  <2> DEFINE c == [pool[p] EXCEPT !.on = @ \cup new, !.off = @ \ new]
  <2>1. pool' = [pool EXCEPT ![p] = c]
    BY <1>6, <1>8 DEF StorageInv, DiskTypes
  <2>2. /\ c \in PoolConfigs /\ c.key = pool[p].key /\ c.type = pool[p].type
        /\ c.on = pool[p].on \cup new /\ c.off = pool[p].off \ new /\ c.swap = pool[p].swap
    BY <1>6, <1>8 DEF PoolConfigs
  <2> HIDE DEF c
  <2>3. Shape(c) /\ Labelled(c, p, label')
    <3>1. c.on \cup c.off = pool[p].on \cup pool[p].off
      BY <1>8, <2>2
    <3>2. c.on \cap c.off = {}
      BY <1>6, <2>2 DEF Shape
    <3> QED BY <1>6, <1>8, <2>2, <3>1, <3>2 DEF Shape, Labelled
  <2>4. label' \in [Drives -> Pools \cup {NoPool}]
    BY <1>8 DEF StorageInv, DiskTypes
  <2>5. /\ \A d \in Drives : label'[d] # label[d] => label[d] = p
        /\ \A d \in Drives : label[d] = NoPool /\ label'[d] # NoPool => d \notin mapped
    BY <1>8
  <2> QED BY <1>2, <1>3, <1>4, <1>5, <1>6, <2>1, <2>2, <2>3, <2>4, <2>5, PoolStep DEF StorageInv, DiskTypes
<1>9. CASE /\ \A d \in new : Usable(d)
           /\ pool' = [pool EXCEPT ![p].on = @ \cup new]
           /\ label' = [d \in Drives |-> IF d \in new THEN p ELSE label[d]]
  <2> HIDE DEF p, new
  <2> DEFINE c == [pool[p] EXCEPT !.on = @ \cup new]
  <2>1. pool' = [pool EXCEPT ![p] = c]
    BY <1>6, <1>9 DEF StorageInv, DiskTypes
  <2>2. \A d \in new : /\ d \in Drives /\ label[d] = NoPool /\ d \notin mapped
                       /\ \A s \in live : d \notin Members(s) /\ \A x \in pool[s].swap : x[2] # d
    BY <1>9, FreeDrive
  <2>3. /\ c \in PoolConfigs /\ c.key = pool[p].key /\ c.type = pool[p].type
        /\ c.on = pool[p].on \cup new /\ c.off = pool[p].off /\ c.swap = pool[p].swap
    BY <1>6, <2>2 DEF PoolConfigs
  <2> HIDE DEF c
  <2>4. Shape(c)
    BY <1>2, <1>6, <2>2, <2>3 DEF Shape, Members
  <2>5. label' \in [Drives -> Pools \cup {NoPool}]
    BY <1>6, <1>9 DEF StorageInv, DiskTypes
  <2>6. Labelled(c, p, label')
    <3>1. \A d \in c.on \cup c.off : d \in Drives
      BY <2>3 DEF PoolConfigs
    <3>2. \A s \in c.swap : s[2] \in Drives
      BY <2>3 DEF PoolConfigs
    <3>3. \A d \in Drives : label'[d] = IF d \in new THEN p ELSE label[d]
      BY <1>9
    <3> QED BY <1>6, <2>3, <3>1, <3>2, <3>3 DEF Labelled
  <2>7. /\ \A d \in Drives : label'[d] # label[d] => label[d] = NoPool /\ \A s \in live : d \notin Members(s)
        /\ \A d \in Drives : label[d] = NoPool /\ label'[d] # NoPool => d \notin mapped
    BY <1>9, <2>2
  <2> QED BY <1>2, <1>3, <1>4, <1>5, <1>6, <2>1, <2>3, <2>4, <2>5, <2>6, <2>7, PoolStep DEF StorageInv, DiskTypes
<1> QED BY <1>7, <1>8, <1>9 DEF AddDevices

\* A pool as it is found on the drives.
LEMMA FoundPool ==
    ASSUME StorageInv, NEW p \in Pools
    PROVE  /\ Found(p) \in PoolConfigs /\ Found(p).type = pool[p].type /\ Found(p).key = pool[p].key
           /\ Shape(Found(p)) /\ Labelled(Found(p), p, label)
<1> DEFINE c == Found(p)
           old(s) == IF s[1] \in Members(p) /\ label[s[1]] = p THEN s[1] ELSE 0
<1>1. pool[p] \in PoolConfigs /\ Shape(pool[p]) /\ label \in [Drives -> Pools \cup {NoPool}]
  BY DEF StorageInv, DiskTypes, LabelsAgree
<1>2. /\ c.type = pool[p].type /\ c.key = pool[p].key
      /\ c.on = {d \in pool[p].on : label[d] = p} /\ c.off = {d \in pool[p].off : label[d] = p}
      /\ c.swap = {<<old(s), s[2]>> : s \in {x \in pool[p].swap : label[x[2]] = p}}
  BY <1>1 DEF Found, PoolConfigs
<1>3. \A s \in pool[p].swap : s[1] \in {0} \cup Drives /\ s[2] \in Drives
  BY <1>1 DEF PoolConfigs
<1>4. \A s \in pool[p].swap : <<old(s), s[2]>> \in ({0} \cup Drives) \X Drives
  BY <1>3
<1>5. c \in PoolConfigs
  <2>1. {d \in pool[p].on : label[d] = p} \in SUBSET Drives /\ {d \in pool[p].off : label[d] = p} \in SUBSET Drives
    BY <1>1 DEF PoolConfigs
  <2>2. {<<old(s), s[2]>> : s \in {x \in pool[p].swap : label[x[2]] = p}} \in SUBSET (({0} \cup Drives) \X Drives)
    BY <1>4
  <2> HIDE DEF old
  <2> QED BY <1>1, <2>1, <2>2 DEF PoolConfigs, Found, old
<1> HIDE DEF c
<1>6. ASSUME NEW t \in c.swap
      PROVE  \E s \in pool[p].swap : label[s[2]] = p /\ t[2] = s[2] /\ t = <<old(s), s[2]>>
  BY <1>2, <1>6
<1> HIDE DEF old
<1>7. Shape(c)
  <2>1. c.on \cap c.off = {} /\ c.on \subseteq pool[p].on /\ c.off \subseteq pool[p].off
    BY <1>1, <1>2 DEF Shape
  <2>2. \A t \in c.swap : t[2] \notin c.on \cup c.off
    BY <1>1, <1>6, <2>1 DEF Shape
  <2>3. ASSUME NEW t \in c.swap, NEW u \in c.swap, t[2] = u[2] PROVE t = u
    <3>1. PICK s \in pool[p].swap : t[2] = s[2] /\ t = <<old(s), s[2]>>
      BY <1>6
    <3>2. PICK v \in pool[p].swap : u[2] = v[2] /\ u = <<old(v), v[2]>>
      BY <1>6
    <3>3. s = v
      BY <1>1, <2>3, <3>1, <3>2 DEF Shape
    <3> QED BY <3>1, <3>2, <3>3
  <2> QED BY <2>1, <2>2, <2>3 DEF Shape
<1>8. Labelled(c, p, label)
  BY <1>2, <1>6 DEF Labelled
<1> QED BY <1>2, <1>5, <1>7, <1>8 DEF c

\* Pools that are imported as they are found.
LEMMA ImportPools ==
    ASSUME StorageInv, NEW new \in SUBSET Pools, \A p \in new : Exists(p),
           live' = live \cup new, pool' = Imported(new),
           UNCHANGED <<label, header>>
    PROVE  /\ pool' \in [Pools -> PoolConfigs] /\ live' \subseteq Pools /\ LabelsAgree' /\ LiveExist'
           /\ \A p \in Pools : pool'[p].key = pool[p].key
<1>1. ASSUME NEW p \in Pools
      PROVE  /\ pool'[p] \in PoolConfigs /\ pool'[p].type = pool[p].type /\ pool'[p].key = pool[p].key
             /\ Shape(pool'[p]) /\ (p \in live' => Labelled(pool'[p], p, label))
  <2>1. pool'[p] = IF p \in new \ live THEN Found(p) ELSE pool[p]
    BY DEF Imported
  <2>2. pool[p] \in PoolConfigs /\ Shape(pool[p]) /\ (p \in live => Labelled(pool[p], p, label))
    BY DEF StorageInv, DiskTypes, LabelsAgree
  <2> QED BY <2>1, <2>2, FoundPool
<1>2. pool' \in [Pools -> PoolConfigs] /\ live' \subseteq Pools
  BY <1>1 DEF Imported, StorageInv, DiskTypes
<1>3. LabelsAgree'
  BY <1>1, <1>2 DEF StorageInv, LabelsAgree
<1>4. LiveExist'
  BY <1>1, <1>2 DEF StorageInv, LiveExist, Exists, DiskTypes
<1> QED BY <1>1, <1>2, <1>3, <1>4

LEMMA ImportSteps ==
    ASSUME StorageInv, NEW r, StorageRequests = {r},
           (\E p \in Pools, key \in PoolKeys : ImportExistingPool(r, p, key)) \/ ImportKey(r) \/ ImportLoadKey(r)
    PROVE  StorageInv'
<1> USE DEF In
<1>0. 0 \in PoolKeys
  BY StorageAssumption DEF PoolKeys
<1>1. ASSUME NEW p \in Pools, NEW key \in PoolKeys, ImportExistingPool(r, p, key) PROVE StorageInv'
  <2> DEFINE q == [NoRequest EXCEPT !.at = "import", !.pool = p, !.key = key]
  <2>1. q.at = "import" /\ q.pool = p /\ q.key = key /\ DOMAIN q = Fields
    BY DEF NoRequest, Fields
  <2>2. /\ p \notin live /\ Exists(p) /\ live' = live \cup {p} /\ pool' = [pool EXCEPT ![p] = Found(p)] /\ Begin(r, q)
        /\ UNCHANGED <<label, header, present, loaded, poolFile, driveFile, mapped, fresh>>
    BY <1>1 DEF ImportExistingPool, Importable, disks, keyFiles
  <2>3. request' = [request EXCEPT ![r] = q]
    BY <2>2 DEF Begin
  <2> HIDE DEF q
  <2>4. request'[r] = q /\ RequestTypes'
    BY <2>1, <2>3 DEF StorageInv, RequestTypes
  <2>5. RequestHolds(request[r])'
    BY <2>1, <2>2, <2>4 DEF RequestHolds, StorageInv, DiskTypes
  <2>6. pool' = Imported({p})
    BY <2>2 DEF Imported, StorageInv, DiskTypes
  <2>7. /\ pool' \in [Pools -> PoolConfigs] /\ live' \subseteq Pools /\ LabelsAgree' /\ LiveExist'
        /\ \A s \in Pools : pool'[s].key = pool[s].key
    BY <2>2, <2>6, ImportPools
  <2>8. DiskTypes'
    BY <2>2, <2>7 DEF StorageInv, DiskTypes
  <2>9. KeysMatch'
    BY <2>2, <2>7 DEF StorageInv, KeysMatch, DiskTypes
  <2> QED BY <2>4, <2>5, <2>7, <2>8, <2>9, RequestStep
<1>2. CASE ImportKey(r)
  <2> DEFINE p == request[r].pool
             key == request[r].key
  <2>1. request[r].at = "import"
    BY <1>2 DEF ImportKey
  <2>2. p \in live \ loaded /\ p \in Pools /\ key \in PoolKeys
    BY <2>1 DEF StorageInv, RequestHolds, DiskTypes, RequestTypes
  <2>3. UNCHANGED <<label, header, present, pool, loaded, driveFile, mapped, fresh>>
    BY <1>2 DEF ImportKey, disks
  <2>4. CASE poolFile' = [poolFile EXCEPT ![p] = key] /\ Go(r, "loadKey") /\ UNCHANGED live
    <3>1. RequestTypes' /\ request'[r].at = "loadKey" /\ request'[r].pool = p
      BY <2>4, RequestGoes
    <3> HIDE DEF p, key
    <3>2. RequestHolds(request[r])'
      BY <2>2, <2>3, <2>4, <3>1 DEF RequestHolds
    <3>3. KeysMatch' /\ poolFile' \in [Pools -> PoolKeys]
      BY <2>2, <2>3, <2>4 DEF StorageInv, KeysMatch, DiskTypes
    <3> QED BY <2>3, <2>4, <3>1, <3>2, <3>3, KeysStep DEF StorageInv, DiskTypes
  <2>5. CASE live' = (IF pool[p].key = key THEN live ELSE live \ {p}) /\ Done(r) /\ UNCHANGED poolFile
    <3>1. RequestTypes' /\ RequestHolds(request[r])'
      BY <2>5, RequestDone
    <3>2. KeysMatch'
      BY <2>3, <2>5 DEF StorageInv, KeysMatch
    <3>3. live' \subseteq live /\ loaded \subseteq live'
      BY <2>2, <2>5 DEF StorageInv, DiskTypes
    <3> QED BY <2>3, <2>5, <3>1, <3>2, <3>3, KeysStep DEF StorageInv, DiskTypes
  <2> QED BY <1>2, <2>4, <2>5 DEF ImportKey
<1>3. CASE ImportLoadKey(r)
  <2> DEFINE p == request[r].pool
             ok == poolFile[p] = pool[p].key
  <2>1. request[r].at = "loadKey" /\ Done(r)
    BY <1>3 DEF ImportLoadKey
  <2>2. p \in live \ loaded /\ p \in Pools
    BY <2>1 DEF StorageInv, RequestHolds, DiskTypes
  <2>3. /\ loaded' = (IF ok THEN loaded \cup {p} ELSE loaded) /\ live' = (IF ok THEN live ELSE live \ {p})
        /\ poolFile' = (IF ok THEN poolFile ELSE [poolFile EXCEPT ![p] = 0])
        /\ UNCHANGED <<label, header, present, pool, driveFile, mapped, fresh>>
    BY <1>3 DEF ImportLoadKey, disks
  <2>4. RequestTypes' /\ RequestHolds(request[r])'
    BY <2>1, RequestDone
  <2> HIDE DEF p
  <2>5. KeysMatch' /\ poolFile' \in [Pools -> PoolKeys]
    BY <1>0, <2>2, <2>3 DEF StorageInv, KeysMatch, DiskTypes
  <2>6. live' \subseteq live /\ loaded' \subseteq live'
    BY <2>2, <2>3 DEF StorageInv, DiskTypes
  <2> QED BY <2>3, <2>4, <2>5, <2>6, KeysStep DEF StorageInv, DiskTypes
<1> QED BY <1>1, <1>2, <1>3

-----------------------------------------------------------------------------
(* Encrypted drives, volumes, scrubs.                                      *)

LEMMA DriveSteps ==
    ASSUME StorageInv, NEW r, StorageRequests = {r},
           \/ \E d \in Drives, key \in PoolKeys : ImportEncryptedDrive(r, d, key)
           \/ EncryptKey(r) \/ LuksFormat(r) \/ UnlockDrive(r)
    PROVE  StorageInv'
<1> USE DEF In
<1>0. 0 \in PoolKeys
  BY StorageAssumption DEF PoolKeys
<1>1. ASSUME NEW d \in Drives, NEW key \in PoolKeys, ImportEncryptedDrive(r, d, key) PROVE StorageInv'
  <2> DEFINE q == [NoRequest EXCEPT !.at = "importUnlock", !.drive = d]
  <2>1. q.at = "importUnlock" /\ q.key = NoRequest.key /\ DOMAIN q = Fields
    BY DEF NoRequest, Fields
  <2>2. /\ Begin(r, q) /\ driveFile' = [driveFile EXCEPT ![d] = key] /\ (WrongKeys \/ key = header[d])
        /\ UNCHANGED <<label, header, present, pool, live, loaded, poolFile, mapped, fresh>>
    BY <1>1 DEF ImportEncryptedDrive, disks, zpools
  <2>3. request' = [request EXCEPT ![r] = q]
    BY <2>2 DEF Begin
  <2> HIDE DEF q
  <2>4. request'[r] = q /\ RequestTypes'
    BY <2>1, <2>3, RequestFields DEF StorageInv, RequestTypes
  <2>5. RequestHolds(request[r])'
    BY <2>1, <2>4 DEF RequestHolds
  <2>6. KeysMatch' /\ driveFile' \in [Drives -> PoolKeys]
    BY <2>2 DEF StorageInv, KeysMatch, DiskTypes
  <2> QED BY <2>2, <2>4, <2>5, <2>6, KeysStep DEF StorageInv, DiskTypes
<1>2. CASE EncryptKey(r)
  <2> DEFINE d == request[r].drive
  <2>1. request[r].at = "encryptKey" /\ Go(r, "format")
    BY <1>2 DEF EncryptKey
  <2>2. /\ driveFile' = [driveFile EXCEPT ![d] = fresh + 1] /\ fresh' = fresh + 1
        /\ UNCHANGED <<label, header, present, pool, live, loaded, poolFile, mapped>>
    BY <1>2 DEF EncryptKey, disks, zpools
  <2>3. fresh + 1 \in PoolKeys
    BY <1>2, FreshKey DEF EncryptKey
  <2>4. RequestTypes' /\ request'[r].at = "format" /\ request'[r].drive = d
    BY <2>1, RequestGoes
  <2>5. d \notin mapped
    BY <2>1 DEF StorageInv, RequestHolds
  <2> HIDE DEF d
  <2>6. RequestHolds(request[r])'
    BY <2>2, <2>4, <2>5 DEF RequestHolds
  <2>7. KeysMatch' /\ driveFile' \in [Drives -> PoolKeys]
    BY <2>2, <2>3, <2>5 DEF StorageInv, KeysMatch, DiskTypes
  <2> QED BY <2>2, <2>3, <2>4, <2>6, <2>7, KeysStep DEF StorageInv, DiskTypes
<1>3. CASE LuksFormat(r)
  <2> DEFINE d == request[r].drive
  <2>1. UNCHANGED <<label, present, pool, live, loaded, poolFile, driveFile, mapped, fresh>>
    BY <1>3 DEF LuksFormat, zpools, keyFiles
  <2>2. CASE Done(r) /\ UNCHANGED header
    <3>1. KeysMatch'
      BY <2>1, <2>2 DEF StorageInv, KeysMatch
    <3> QED BY <2>1, <2>2, <3>1, RequestDone, KeysStep DEF StorageInv, DiskTypes
  <2>3. CASE Usable(d) /\ header' = [header EXCEPT ![d] = driveFile[d]] /\ Go(r, "unlock")
    <3>1. RequestTypes' /\ request'[r].at = "unlock"
      BY <2>3, RequestGoes
    <3>2. RequestHolds(request[r])'
      BY <3>1 DEF RequestHolds
    <3> HIDE DEF d
    <3>3. d \in Drives /\ label[d] = NoPool /\ d \notin mapped
      BY <2>3, FreeDrive
    <3>4. DiskTypes'
      BY <2>1, <2>3, <3>3 DEF StorageInv, DiskTypes
    <3>5. LabelsAgree'
      BY <2>1, <2>3, <3>3 DEF StorageInv, LabelsAgree, DiskTypes
    <3>6. KeysMatch'
      BY <2>1, <2>3, <3>3 DEF StorageInv, KeysMatch, DiskTypes
    <3>7. LiveExist'
      BY <2>1 DEF StorageInv, LiveExist, Exists
    <3> QED BY <3>1, <3>2, <3>4, <3>5, <3>6, <3>7, RequestStep
  <2> QED BY <1>3, <2>2, <2>3 DEF LuksFormat
<1>4. CASE UnlockDrive(r)
  <2> DEFINE d == request[r].drive
             ok == d \in mapped \/ (d \in present /\ header[d] # 0 /\ header[d] = driveFile[d])
  <2>1. Done(r)
    BY <1>4 DEF UnlockDrive
  <2>2. /\ mapped' = (IF ok THEN mapped \cup {d} ELSE mapped)
        /\ driveFile' = driveFile \/ (~ok /\ driveFile' = [driveFile EXCEPT ![d] = 0])
        /\ UNCHANGED <<label, header, present, pool, live, loaded, poolFile, fresh>>
    BY <1>4 DEF UnlockDrive, disks, zpools
  <2>3. RequestTypes' /\ RequestHolds(request[r])'
    BY <2>1, RequestDone
  <2> HIDE DEF d
  <2>4. mapped' \subseteq Drives /\ driveFile' \in [Drives -> PoolKeys]
    BY <1>0, <2>2 DEF StorageInv, DiskTypes
  <2>5. KeysMatch'
    BY <2>2 DEF StorageInv, KeysMatch, DiskTypes
  <2> QED BY <2>2, <2>3, <2>4, <2>5, KeysStep DEF StorageInv, DiskTypes
<1> QED BY <1>1, <1>2, <1>3, <1>4

\* Volumes, scrubs and calls do not matter to the invariant.
LEMMA StorageSame ==
    ASSUME StorageInv,
           UNCHANGED <<label, header, present, pool, live, loaded, poolFile, driveFile, mapped, fresh, request>>
    PROVE  StorageInv'
<1>1. DiskTypes' /\ RequestTypes' /\ KeysMatch' /\ LiveExist'
  BY DEF StorageInv, DiskTypes, RequestTypes, KeysMatch, LiveExist, Exists
<1>2. LabelsAgree'
  BY DEF StorageInv, LabelsAgree
<1>3. ASSUME NEW r \in StorageRequests PROVE RequestHolds(request[r])'
  <2>1. RequestHolds(request[r])
    BY DEF StorageInv
  <2> QED BY <2>1 DEF RequestHolds, Unneeded, Members
<1> QED BY <1>1, <1>2, <1>3 DEF StorageInv

LEMMA VolumeSteps ==
    ASSUME StorageInv, NEW r,
           StorageCreateVolume(r) \/ StorageDeleteVolume(r) \/ StorageScrubPool(r)
    PROVE  StorageInv'
<1>1. UNCHANGED <<label, header, present, pool, live, loaded, poolFile, driveFile, mapped, fresh, request>>
  BY DEF StorageCreateVolume, StorageDeleteVolume, StorageScrubPool, CreateVolume, DeleteVolume, ScrubZpool,
         disks, zpools, keyFiles
<1> QED BY <1>1, StorageSame

LEMMA ScrubSteps ==
    ASSUME StorageInv, ScrubAllPools \/ ScrubFinished \/ \E p \in Pools : ScrubNext(p) \/ ScanEnds(p)
    PROVE  StorageInv'
<1>1. UNCHANGED <<label, header, present, pool, live, loaded, poolFile, driveFile, mapped, fresh, request>>
  BY DEF ScrubAllPools, ScrubFinished, ScrubNext, ScanEnds, disks, zpools, keyFiles
<1> QED BY <1>1, StorageSame

-----------------------------------------------------------------------------
(* Starts and drives that fail.                                            *)

LEMMA EveryRequestAt ==
    ASSUME StorageInv, NEW step, AllAt(step)
    PROVE  RequestTypes' /\ \A r \in StorageRequests : request'[r].at = step
BY RequestFields DEF AllAt, RequestTypes, NoRequest, Fields

LEMMA PowerLossInv == ASSUME StorageInv, StoragePowerLoss PROVE StorageInv'
<1>1. RequestTypes' /\ \A r \in StorageRequests : request'[r].at = "off"
  BY EveryRequestAt DEF StoragePowerLoss
<1>2. /\ live' = {} /\ loaded' = {} /\ mapped' = {}
      /\ UNCHANGED <<label, header, present, pool, poolFile, driveFile, fresh>>
  BY DEF StoragePowerLoss, disks, keyFiles
<1>3. DiskTypes' /\ KeysMatch' /\ LiveExist'
  BY <1>2 DEF StorageInv, DiskTypes, KeysMatch, LiveExist
<1>4. LabelsAgree'
  BY <1>2 DEF StorageInv, LabelsAgree
<1>5. \A r \in StorageRequests : RequestHolds(request[r])'
  BY <1>1 DEF RequestHolds
<1> QED BY <1>1, <1>3, <1>4, <1>5 DEF StorageInv

\* The pools a start takes in, in whatever state it finds them; of those, the ones it opens
\* have the key of their file.
LEMMA TakeIn ==
    ASSUME StorageInv, NEW opened \in SUBSET Loadable, NEW others \in SUBSET Pools, \A p \in others : Exists(p),
           live' = live \cup opened \cup others, loaded' = loaded \cup opened, pool' = Imported(opened \cup others),
           DecryptDrives, UNCHANGED <<label, header, present, poolFile, driveFile, fresh>>
    PROVE  DiskTypes' /\ LabelsAgree' /\ KeysMatch' /\ LiveExist'
<1>1. \A p \in opened : p \in Pools /\ (p \in live \/ Exists(p)) /\ (p \in loaded \/ poolFile[p] = pool[p].key)
  BY DEF Loadable, KnownPools, LoadKeyFails, Importable
<1>2. \A p \in opened \cup others : p \in Pools /\ Exists(p)
  BY <1>1 DEF StorageInv, LiveExist
<1>3. /\ pool' \in [Pools -> PoolConfigs] /\ live' \subseteq Pools /\ LabelsAgree' /\ LiveExist'
      /\ \A p \in Pools : pool'[p].key = pool[p].key
  <2>1. opened \cup others \in SUBSET Pools /\ live' = live \cup (opened \cup others)
    BY <1>2
  <2> QED BY <1>2, <2>1, ImportPools
<1>4. mapped' = mapped \cup {d \in present : driveFile[d] # 0 /\ driveFile[d] = header[d]}
  BY DEF DecryptDrives
<1>5. DiskTypes'
  BY <1>3, <1>4 DEF StorageInv, DiskTypes
<1>6. KeysMatch'
  <2>1. \A p \in loaded' : p \in Pools /\ poolFile[p] = pool[p].key
    BY <1>1 DEF StorageInv, KeysMatch, DiskTypes
  <2>2. ~WrongKeys => \A d \in mapped' : driveFile[d] = header[d]
    BY <1>4 DEF StorageInv, KeysMatch
  <2> QED BY <1>3, <2>1, <2>2 DEF KeysMatch
<1> QED BY <1>3, <1>5, <1>6

LEMMA LoadPoolsInv == ASSUME StorageInv, LoadPools PROVE StorageInv'
<1> DEFINE found == IF "local" \notin live \cup Loadable /\ Importable("local") THEN {"local"} ELSE {}
           step == IF found # {} THEN "recover"
                   ELSE IF "local" \in live' THEN "idle"
                   ELSE IF poolFile["local"] = 0 THEN "first" ELSE "off"
<1>1. /\ live' = live \cup Loadable \cup found /\ loaded' = loaded \cup Loadable
      /\ pool' = Imported(Loadable \cup found) /\ AllAt(step) /\ DecryptDrives
      /\ UNCHANGED <<label, header, present, poolFile, driveFile, fresh>>
  BY DEF LoadPools, disks, keyFiles
<1>2. found \in SUBSET Pools /\ \A p \in found : Exists(p)
  BY DEF Pools, Importable
<1>3. DiskTypes' /\ LabelsAgree' /\ KeysMatch' /\ LiveExist'
  BY <1>1, <1>2, TakeIn
<1>4. RequestTypes' /\ \A r \in StorageRequests : request'[r].at = step
  BY <1>1, EveryRequestAt
<1>5. found # {} => "local" \in live' \ loaded'
  BY <1>1 DEF StorageInv, DiskTypes
<1> HIDE DEF found
<1>6. \A r \in StorageRequests : RequestHolds(request[r])'
  BY <1>4, <1>5 DEF RequestHolds
<1> QED BY <1>3, <1>4, <1>6 DEF StorageInv

LEMMA LoadPoolsFailsInv == ASSUME StorageInv, LoadPoolsFails PROVE StorageInv'
<1>1. PICK p \in KnownPools, before \in SUBSET Loadable :
          LET found == before \cup (IF LoadKeyFails(p) THEN {p} ELSE {})
          IN  /\ Booting("off") /\ DecryptDrives
              /\ live' = live \cup found /\ loaded' = loaded \cup before /\ pool' = Imported(found)
              /\ UNCHANGED <<label, header, present, poolFile, driveFile, request, fresh>>
  BY DEF LoadPoolsFails, disks, keyFiles
<1> DEFINE others == IF LoadKeyFails(p) THEN {p} ELSE {}
<1>2. others \in SUBSET Pools /\ \A s \in others : Exists(s)
  BY DEF KnownPools, LoadKeyFails, Importable, StorageInv, LiveExist
<1>3. live' = live \cup before \cup others /\ loaded' = loaded \cup before /\ pool' = Imported(before \cup others)
  BY <1>1
<1> HIDE DEF others
<1>4. DiskTypes' /\ LabelsAgree' /\ KeysMatch' /\ LiveExist'
  BY <1>1, <1>2, <1>3, TakeIn
<1>5. RequestTypes' /\ \A r \in StorageRequests : request'[r].at = "off"
  BY <1>1 DEF StorageInv, RequestTypes, Booting, In
<1>6. \A r \in StorageRequests : RequestHolds(request[r])'
  BY <1>5 DEF RequestHolds
<1> QED BY <1>4, <1>5, <1>6 DEF StorageInv

\* The request is given up together with the pool, or nothing changes but where it is.
LEMMA StartStep ==
    ASSUME StorageInv, NEW step, AllAt(step), step \in {"idle", "off"}, live' \subseteq live, loaded' \subseteq live',
           UNCHANGED <<label, header, present, pool, loaded, poolFile, driveFile, mapped, fresh>>
    PROVE  StorageInv'
<1>1. RequestTypes' /\ \A r \in StorageRequests : request'[r].at = step
  BY EveryRequestAt
<1>2. \A r \in StorageRequests : RequestHolds(request[r])'
  BY <1>1 DEF RequestHolds
<1>3. DiskTypes' /\ KeysMatch' /\ LiveExist'
  BY DEF StorageInv, DiskTypes, KeysMatch, LiveExist, Exists
<1>4. LabelsAgree'
  BY DEF StorageInv, LabelsAgree
<1> QED BY <1>1, <1>2, <1>3, <1>4 DEF StorageInv

LEMMA RecoverLocalPoolInv ==
    ASSUME StorageInv, NEW r, StorageRequests = {r}, RecoverLocalPool
    PROVE  StorageInv'
<1> DEFINE off == ShownOff("local")
<1>1. request[r].at = "recover" /\ "local" \in live \ loaded
  BY DEF RecoverLocalPool, Booting, In, StorageInv, RequestHolds
<1>2. UNCHANGED <<present, loaded, poolFile, driveFile, mapped, fresh>>
  BY DEF RecoverLocalPool, keyFiles
<1>3. CASE /\ Cardinality(off) = 1 /\ off \subseteq Drives /\ Usable(Sys)
           /\ pool' = [pool EXCEPT !["local"].swap = @ \cup (off \X {Sys})]
           /\ label' = [label EXCEPT ![Sys] = "local"] /\ header' = [header EXCEPT ![Sys] = 0]
           /\ AllAt("resilver") /\ UNCHANGED live
  <2>1. PICK old \in Drives : off = {old}
    <3> HIDE DEF off
    <3>1. IsFiniteSet(1 .. MaxDrive)
      BY StorageAssumption, FS_Interval
    <3>2. off \subseteq 1 .. MaxDrive
      BY <1>3 DEF Drives
    <3>3. IsFiniteSet(off)
      BY <3>1, <3>2, FS_Subset
    <3>4. \E x : off = {x}
      BY <1>3, <3>3, FS_Singleton
    <3> QED BY <1>3, <3>4
  <2> HIDE DEF off
  <2> DEFINE c == [pool["local"] EXCEPT !.swap = @ \cup {<<old, Sys>>}]
  <2>2. /\ "local" \in Pools /\ "local" # NoPool /\ pool["local"] \in PoolConfigs /\ pool["local"].type # "none"
        /\ Shape(pool["local"]) /\ Labelled(pool["local"], "local", label)
    BY <1>1, PoolFacts
  <2>3. /\ Sys \in Drives /\ label[Sys] = NoPool /\ Sys \notin mapped
        /\ \A s \in live : Sys \notin Members(s) /\ \A x \in pool[s].swap : x[2] # Sys
    BY <1>3, FreeDrive
  <2>4. /\ c.swap = pool["local"].swap \cup {<<old, Sys>>} /\ c.key = pool["local"].key
        /\ c.type = pool["local"].type /\ c.on = pool["local"].on /\ c.off = pool["local"].off
    BY <2>2 DEF PoolConfigs
  <2>5. c \in PoolConfigs
    <3>1. <<old, Sys>> \in ({0} \cup Drives) \X Drives
      BY <2>3
    <3>2. pool["local"].swap \cup {<<old, Sys>>} \in SUBSET (({0} \cup Drives) \X Drives)
      BY <2>2, <3>1 DEF PoolConfigs
    <3> QED BY <2>2, <3>2 DEF PoolConfigs
  <2>6. pool' = [pool EXCEPT !["local"] = c]
    <3>1. off \X {Sys} = {<<old, Sys>>}
      BY <2>1
    <3> QED BY <1>3, <3>1
  <2> HIDE DEF c
  <2>7. label' \in [Drives -> Pools \cup {NoPool}] /\ \A d \in Drives : label'[d] = IF d = Sys THEN "local" ELSE label[d]
    BY <1>3, <2>2 DEF StorageInv, DiskTypes
  <2>8. header' \in [Drives -> PoolKeys] /\ \A d \in Drives : header'[d] = IF label'[d] # NoPool THEN 0 ELSE header[d]
    BY <1>3, <2>2, <2>7, StorageAssumption DEF StorageInv, DiskTypes, LabelsAgree, PoolKeys
  <2>9. Shape(c)
    BY <1>1, <2>2, <2>3, <2>4 DEF Shape, Members
  <2>10. Labelled(c, "local", label')
    <3>1. \A d \in c.on \cup c.off : d \in Drives
      BY <2>5 DEF PoolConfigs
    <3>2. \A s \in c.swap : s[2] \in Drives /\ (s[2] = Sys \/ s \in pool["local"].swap)
      BY <2>4, <2>5 DEF PoolConfigs
    <3>3. \A s \in c.swap : label'[s[2]] = "local"
      BY <2>2, <2>7, <3>2 DEF Labelled
    <3> QED BY <2>2, <2>4, <2>7, <3>1, <3>3 DEF Labelled
  <2>11. /\ \A d \in Drives : label'[d] # label[d] => label[d] = NoPool /\ \A s \in live : d \notin Members(s)
         /\ \A d \in Drives : label[d] = NoPool /\ label'[d] # NoPool => d \notin mapped
    BY <2>3, <2>7
  <2>12. RequestTypes' /\ request'[r].at = "resilver"
    BY <1>3, EveryRequestAt
  <2>13. RequestHolds(request[r])'
    BY <1>1, <1>2, <1>3, <2>12 DEF RequestHolds
  <2>14. UNCHANGED <<live, loaded, poolFile, driveFile, mapped, fresh>> /\ present' \subseteq Drives
    BY <1>2, <1>3 DEF StorageInv, DiskTypes
  <2>15. "local" \in live
    BY <1>1
  <2> QED BY <2>2, <2>4, <2>5, <2>6, <2>7, <2>8, <2>9, <2>10, <2>11, <2>12, <2>13, <2>14, <2>15, PoolStep
<1>4. CASE live' = live \ {"local"} /\ AllAt("idle") /\ UNCHANGED <<pool, label, header>>
  <2>1. loaded \subseteq live'
    BY <1>1, <1>4 DEF StorageInv, DiskTypes
  <2> QED BY <1>2, <1>4, <2>1, StartStep
<1>5. CASE AllAt("off") /\ UNCHANGED <<pool, label, header, live>>
  BY <1>2, <1>5, StartStep DEF StorageInv, DiskTypes
<1> QED BY <1>3, <1>4, <1>5 DEF RecoverLocalPool

LEMMA RecoverEndsInv ==
    ASSUME StorageInv, NEW r, StorageRequests = {r}, RecoverEnds
    PROVE  StorageInv'
<1>1. "local" \notin loaded
  BY DEF RecoverEnds, Booting, In, StorageInv, RequestHolds
<1>2. /\ live' = live \ {"local"} /\ AllAt("idle")
      /\ UNCHANGED <<label, header, present, pool, loaded, poolFile, driveFile, mapped, fresh>>
  BY DEF RecoverEnds, disks, keyFiles
<1>3. loaded \subseteq live'
  BY <1>1, <1>2 DEF StorageInv, DiskTypes
<1> QED BY <1>2, <1>3, StartStep

LEMMA FirstKeyInv ==
    ASSUME StorageInv, NEW r, StorageRequests = {r}, FirstKey
    PROVE  StorageInv'
<1>1. /\ fresh < MaxKey /\ AllAt("firstCreate")
      /\ poolFile' = [poolFile EXCEPT !["local"] = fresh + 1] /\ fresh' = fresh + 1
      /\ UNCHANGED <<label, header, present, pool, live, loaded, driveFile, mapped>>
  BY DEF FirstKey, disks, zpools
<1>2. "local" \notin live
  BY DEF FirstKey, Booting, In, StorageInv, RequestHolds
<1>3. fresh + 1 \in PoolKeys
  BY <1>1, FreshKey
<1>4. RequestTypes' /\ request'[r].at = "firstCreate"
  BY <1>1, EveryRequestAt
<1>5. RequestHolds(request[r])'
  BY <1>1, <1>2, <1>4 DEF RequestHolds
<1>6. poolFile' \in [Pools -> PoolKeys]
  BY <1>1, <1>3 DEF StorageInv, DiskTypes
<1>7. KeysMatch'
  BY <1>1, <1>2 DEF StorageInv, KeysMatch, DiskTypes
<1> QED BY <1>1, <1>3, <1>4, <1>5, <1>6, <1>7, KeysStep DEF StorageInv, DiskTypes

LEMMA FirstCreateInv ==
    ASSUME StorageInv, NEW r, StorageRequests = {r}, FirstCreate
    PROVE  StorageInv'
<1> DEFINE c == [type |-> "zfs-raid0", on |-> {Sys}, off |-> {}, key |-> poolFile["local"], swap |-> {}]
<1>1. UNCHANGED <<present, driveFile, mapped, fresh>>
  BY DEF FirstCreate
<1>2. "local" \notin live /\ "local" \in Pools /\ "local" # NoPool /\ 0 \in PoolKeys
  BY StorageAssumption DEF FirstCreate, Booting, In, StorageInv, RequestHolds, Pools, PoolKeys
<1>3. CASE /\ Usable(Sys) /\ pool' = [pool EXCEPT !["local"] = c]
           /\ label' = [label EXCEPT ![Sys] = "local"] /\ header' = [header EXCEPT ![Sys] = 0]
           /\ live' = live \cup {"local"} /\ loaded' = loaded \cup {"local"}
           /\ AllAt("idle") /\ UNCHANGED poolFile
  <2>1. /\ Sys \in Drives /\ label[Sys] = NoPool /\ Sys \notin mapped
        /\ \A s \in live : Sys \notin Members(s) /\ \A x \in pool[s].swap : x[2] # Sys
    BY <1>3, FreeDrive
  <2>2. c \in PoolConfigs /\ Shape(c)
    BY <1>2, <2>1 DEF PoolConfigs, Types, Shape, StorageInv, DiskTypes
  <2>3. c.type # "none" /\ c.on = {Sys} /\ c.off = {} /\ c.swap = {} /\ c.key = poolFile["local"]
    OBVIOUS
  <2> HIDE DEF c
  <2>4. pool'["local"] = c /\ \A s \in Pools \ {"local"} : pool'[s] = pool[s]
    BY <1>2, <1>3 DEF StorageInv, DiskTypes
  <2>5. \A d \in Drives : label'[d] = IF d = Sys THEN "local" ELSE label[d]
    BY <1>3 DEF StorageInv, DiskTypes
  <2>6. RequestTypes' /\ request'[r].at = "idle"
    BY <1>3, EveryRequestAt
  <2>7. DiskTypes'
    <3>1. pool' \in [Pools -> PoolConfigs]
      BY <1>3, <2>2 DEF StorageInv, DiskTypes
    <3>2. label' \in [Drives -> Pools \cup {NoPool}] /\ header' \in [Drives -> PoolKeys]
      BY <1>2, <1>3 DEF StorageInv, DiskTypes
    <3> QED BY <1>1, <1>2, <1>3, <3>1, <3>2 DEF StorageInv, DiskTypes
  <2>8. LiveExist'
    BY <1>3, <2>3, <2>4 DEF StorageInv, LiveExist, Exists, DiskTypes
  <2>9. LabelsAgree'
    <3>1. \A d \in Drives : label'[d] # NoPool => header'[d] = 0
      BY <1>3, <2>5 DEF StorageInv, LabelsAgree, DiskTypes
    <3>2. \A s \in Pools : Shape(pool'[s])
      BY <2>2, <2>4 DEF StorageInv, LabelsAgree
    <3>3. Labelled(pool'["local"], "local", label')
      BY <2>1, <2>3, <2>4, <2>5 DEF Labelled
    <3>4. ASSUME NEW s \in live PROVE Labelled(pool'[s], s, label')
      <4>1. s # "local" /\ s \in Pools
        BY <1>2, <3>4 DEF StorageInv, DiskTypes
      <4>2. \A d \in Drives : label'[d] # label[d] => label[d] = NoPool /\ d \notin Members(s)
        BY <2>1, <2>5
      <4>3. Labelled(pool[s], s, label')
        BY <1>2, <4>1, <4>2, LabelsKept
      <4> QED BY <2>4, <4>1, <4>3
    <3> QED BY <1>3, <3>1, <3>2, <3>3, <3>4 DEF LabelsAgree
  <2>10. KeysMatch'
    <3>1. \A s \in loaded' : poolFile[s] = pool'[s].key
      BY <1>3, <2>3, <2>4 DEF StorageInv, KeysMatch, DiskTypes
    <3>2. \A d \in mapped : header'[d] = header[d]
      BY <1>3, <2>1 DEF StorageInv, DiskTypes
    <3> QED BY <1>1, <1>3, <3>1, <3>2 DEF StorageInv, KeysMatch
  <2>11. RequestHolds(request[r])'
    BY <2>6 DEF RequestHolds
  <2> QED BY <2>6, <2>7, <2>8, <2>9, <2>10, <2>11, RequestStep
<1>4. CASE /\ poolFile' = [poolFile EXCEPT !["local"] = 0] /\ AllAt("off")
           /\ UNCHANGED <<pool, label, header, live, loaded>>
  <2>1. RequestTypes' /\ request'[r].at = "off"
    BY <1>4, EveryRequestAt
  <2>2. RequestHolds(request[r])'
    BY <2>1 DEF RequestHolds
  <2>3. poolFile' \in [Pools -> PoolKeys]
    BY <1>2, <1>4 DEF StorageInv, DiskTypes
  <2>4. KeysMatch'
    BY <1>1, <1>2, <1>4 DEF StorageInv, KeysMatch, DiskTypes
  <2> QED BY <1>1, <1>4, <2>1, <2>2, <2>3, <2>4, KeysStep DEF StorageInv, DiskTypes
<1> QED BY <1>3, <1>4 DEF FirstCreate

LEMMA LoseDriveInv ==
    ASSUME StorageInv, NEW r, StorageRequests = {r}, NEW d \in Drives, LoseDrive(d)
    PROVE  StorageInv'
<1>1. /\ present' = present \ {d} /\ present' \subseteq Drives
      /\ UNCHANGED <<label, header, live, loaded, poolFile, driveFile, mapped, fresh, request>>
  BY DEF LoseDrive, keyFiles, StorageInv, DiskTypes
<1>2. RequestTypes' /\ RequestHolds(request[r])
  BY <1>1 DEF StorageInv, RequestTypes
<1>3. ASSUME NEW p \in live, d \in pool[p].on, pool[p].type = "zfs-raid1",
             pool' = [pool EXCEPT ![p].on = @ \ {d}, ![p].off = @ \cup {d}]
      PROVE  StorageInv'
  <2> DEFINE c == [pool[p] EXCEPT !.on = @ \ {d}, !.off = @ \cup {d}]
  <2>1. p \in Pools /\ p # NoPool /\ pool[p] \in PoolConfigs /\ Shape(pool[p]) /\ Labelled(pool[p], p, label)
    BY PoolFacts
  <2>2. pool' = [pool EXCEPT ![p] = c]
    BY <1>3, <2>1 DEF StorageInv, DiskTypes
  <2>3. /\ c \in PoolConfigs /\ c.key = pool[p].key /\ c.type = pool[p].type /\ c.type # "none"
        /\ c.on = pool[p].on \ {d} /\ c.off = pool[p].off \cup {d} /\ c.swap = pool[p].swap
    BY <1>3, <2>1 DEF PoolConfigs
  <2> HIDE DEF c
  <2>4. Shape(c) /\ Labelled(c, p, label')
    <3>1. c.on \cup c.off = pool[p].on \cup pool[p].off
      BY <1>3, <2>3
    <3>2. c.on \cap c.off = {}
      BY <2>1, <2>3 DEF Shape
    <3> QED BY <1>1, <2>1, <2>3, <3>1, <3>2 DEF Shape, Labelled
  <2>5. /\ label' \in [Drives -> Pools \cup {NoPool}] /\ header' \in [Drives -> PoolKeys]
        /\ \A x \in Drives : header'[x] = IF label'[x] # NoPool THEN 0 ELSE header[x]
        /\ \A x \in Drives : label'[x] = label[x]
    BY <1>1 DEF StorageInv, DiskTypes, LabelsAgree
  <2>6. RequestHolds(request[r])'
    <3>1. \A s \in live : /\ pool'[s].on \cup pool'[s].off = pool[s].on \cup pool[s].off
                          /\ pool'[s].type = pool[s].type /\ pool'[s].swap = pool[s].swap
      BY <1>3, <2>1, <2>2, <2>3 DEF StorageInv, DiskTypes
    <3> QED BY <1>1, <1>2, <3>1 DEF RequestHolds, Unneeded, Members
  <2> QED BY <1>1, <1>2, <2>2, <2>3, <2>4, <2>5, <2>6, PoolStep
<1>4. CASE UNCHANGED pool
  <2>1. KeysMatch' /\ LiveExist' /\ DiskTypes'
    BY <1>1, <1>4 DEF StorageInv, KeysMatch, LiveExist, Exists, DiskTypes
  <2>2. LabelsAgree'
    BY <1>1, <1>4 DEF StorageInv, LabelsAgree
  <2>3. RequestHolds(request[r])'
    BY <1>1, <1>2, <1>4 DEF RequestHolds, Unneeded, Members
  <2> QED BY <1>2, <2>1, <2>2, <2>3, RequestStep
<1> QED BY <1>3, <1>4 DEF LoseDrive

\* The old device of a replacement is no longer a member, the new one is.
LEMMA ResilverDoneInv ==
    ASSUME StorageInv, NEW r, StorageRequests = {r}, NEW p \in Pools, ResilverDone(p)
    PROVE  StorageInv'
<1>1. PICK s \in pool[p].swap :
          /\ label[s[2]] = p
          /\ pool' = [pool EXCEPT ![p].on = (@ \ {s[1]}) \cup {s[2]}, ![p].off = @ \ {s[1]}, ![p].swap = @ \ {s}]
          /\ label' = [d \in Drives |-> IF d = s[1] /\ d \in Members(p) \cap present /\ label[d] = p THEN NoPool ELSE label[d]]
  BY DEF ResilverDone
<1>2. p \in live /\ UNCHANGED <<header, present, live, loaded, poolFile, driveFile, mapped, request, fresh>>
  BY DEF ResilverDone, keyFiles
<1>3. p # NoPool /\ pool[p] \in PoolConfigs /\ pool[p].type # "none" /\ Shape(pool[p]) /\ Labelled(pool[p], p, label)
  BY <1>2, PoolFacts
<1> DEFINE c == [pool[p] EXCEPT !.on = (@ \ {s[1]}) \cup {s[2]}, !.off = @ \ {s[1]}, !.swap = @ \ {s}]
<1>4. pool' = [pool EXCEPT ![p] = c]
  BY <1>1, <1>3 DEF StorageInv, DiskTypes
<1>5. s[2] \in Drives /\ s[2] \notin Members(p)
  BY <1>1, <1>3 DEF PoolConfigs, Shape, Members
<1>6. /\ c.key = pool[p].key /\ c.type = pool[p].type /\ c.on = (pool[p].on \ {s[1]}) \cup {s[2]}
      /\ c.off = pool[p].off \ {s[1]} /\ c.swap = pool[p].swap \ {s}
  BY <1>3 DEF PoolConfigs
<1>7. c \in PoolConfigs
  BY <1>3, <1>5 DEF PoolConfigs
<1> HIDE DEF c
<1>8. label' \in [Drives -> Pools \cup {NoPool}]
  BY <1>1 DEF StorageInv, DiskTypes
<1>9. \A d \in Drives : d # s[1] \/ d \notin Members(p) => label'[d] = label[d]
  BY <1>1
<1>10. Shape(c)
  BY <1>1, <1>3, <1>5, <1>6 DEF Shape, Members
<1>11. Labelled(c, p, label')
  <2>1. ASSUME NEW d \in c.on \cup c.off
        PROVE  label'[d] \in {p, NoPool} /\ (label'[d] = p \/ (c.type # "zfs-raid0" /\ \E t \in c.swap : t[1] = d))
    <3>1. CASE d = s[2]
      BY <1>1, <1>5, <1>9, <3>1
    <3>2. CASE d # s[2]
      <4>1. d \in pool[p].on \cup pool[p].off /\ d # s[1] /\ d \in Drives
        BY <1>3, <1>6, <2>1, <3>2 DEF PoolConfigs
      <4>2. label'[d] = label[d]
        BY <1>9, <4>1
      <4> QED BY <1>3, <1>6, <4>1, <4>2 DEF Labelled
    <3> QED BY <3>1, <3>2
  <2>2. ASSUME NEW t \in c.swap PROVE label'[t[2]] = p
    <3>1. t \in pool[p].swap /\ t[2] \in Drives /\ t[2] \notin Members(p)
      BY <1>3, <1>6, <2>2 DEF PoolConfigs, Shape, Members
    <3> QED BY <1>3, <1>9, <3>1 DEF Labelled
  <2> QED BY <2>1, <2>2 DEF Labelled
<1>12. /\ \A d \in Drives : label'[d] # label[d] => label[d] = p
       /\ \A d \in Drives : label[d] = NoPool /\ label'[d] # NoPool => d \notin mapped
       /\ \A d \in Drives : header'[d] = IF label'[d] # NoPool THEN 0 ELSE header[d]
  BY <1>1, <1>2, <1>3 DEF StorageInv, LabelsAgree
<1>13. RequestTypes' /\ RequestHolds(request[r]) /\ header' \in [Drives -> PoolKeys] /\ present' \subseteq Drives
  BY <1>2 DEF StorageInv, RequestTypes, DiskTypes
<1>14. RequestHolds(request[r])'
  <2>1. pool'[p] = c /\ \A x \in live \ {p} : pool'[x] = pool[x]
    BY <1>4 DEF StorageInv, DiskTypes
  <2>2. \A x \in live : pool'[x].swap \subseteq pool[x].swap
    BY <1>6, <2>1
  <2>3. ASSUME NEW d, Unneeded(d) PROVE Unneeded(d)'
    <3>1. /\ d \in c.on \cup c.off => c.type # "zfs-raid0" /\ \E t \in c.swap : t[1] = d
          /\ \A t \in c.swap : t[2] # d
      BY <1>2, <1>6, <2>3 DEF Unneeded, Members
    <3>2. \A x \in live : /\ d \in pool'[x].on \cup pool'[x].off => pool'[x].type # "zfs-raid0" /\ \E t \in pool'[x].swap : t[1] = d
                          /\ \A t \in pool'[x].swap : t[2] # d
      BY <2>1, <2>3, <3>1 DEF Unneeded, Members
    <3> QED BY <1>2, <3>2 DEF Unneeded, Members
  <2>4. Unneeded(request[r].now) => Unneeded(request[r].now)'
    <3> DEFINE d == request[r].now
    <3>1. d' = d
      BY <1>2
    <3> HIDE DEF d
    <3>2. Unneeded(d) => Unneeded(d)'
      <4> SUFFICES ASSUME Unneeded(d) PROVE \A x \in live' : /\ d \in pool'[x].on \cup pool'[x].off => pool'[x].type # "zfs-raid0" /\ \E t \in pool'[x].swap : t[1] = d
                          /\ \A t \in pool'[x].swap : t[2] # d
        BY <3>1 DEF Unneeded, Members
      <4> QED BY <2>3 DEF Unneeded, Members
    <3> QED BY <3>2 DEF d
  <2> QED BY <1>2, <1>13, <2>2, <2>4 DEF RequestHolds
<1> QED BY <1>2, <1>3, <1>4, <1>6, <1>7, <1>8, <1>10, <1>11, <1>12, <1>13, <1>14, PoolStep

-----------------------------------------------------------------------------
LEMMA StorageInvNext == ASSUME OneRequest, ~WipesNew, StorageInv, [StorageNext]_storageVars PROVE StorageInv'
<1>1. CASE UNCHANGED storageVars
  BY <1>1, StorageSame DEF storageVars, disks, zpools, keyFiles
<1>2. PICK r : StorageRequests = {r}
  BY DEF OneRequest
<1>3. CASE StoragePut(r)
  BY <1>2, <1>3, CreateSteps, UpdateZpoolInv DEF StoragePut
<1>4. CASE StorageDeletePool(r) \/ DestroyKey(r)
  BY <1>2, <1>4, DestroySteps DEF StorageDeletePool
<1>5. CASE StorageImportPool(r) \/ ImportKey(r) \/ ImportLoadKey(r)
  BY <1>2, <1>5, ImportSteps DEF StorageImportPool
<1>6. CASE StorageCreateVolume(r) \/ StorageDeleteVolume(r) \/ StorageScrubPool(r)
  BY <1>6, VolumeSteps
<1>7. CASE StorageImportEncryptedDrive(r) \/ EncryptKey(r) \/ LuksFormat(r) \/ UnlockDrive(r)
  BY <1>2, <1>7, DriveSteps DEF StorageImportEncryptedDrive
<1>8. CASE (\E d \in Drives : WipeDrive(r, d) \/ EncryptDrive(r, d)) \/ WipeCheck(r) \/ ClearBlock(r) \/ WipeDone(r)
  BY <1>2, <1>8, WipeSteps
<1>9. CASE GenerateEncryptionKeyFile(r) \/ ZpoolCreate(r)
  BY <1>2, <1>9, CreateSteps
<1>10. CASE ConvertPoolToMirror(r) \/ UpdateDevice(r) \/ AddDevices(r)
  BY <1>2, <1>10, ConvertPoolToMirrorInv, UpdateDeviceInv, AddDevicesInv
<1>11. CASE ScrubAllPools \/ ScrubFinished \/ \E p \in Pools : ScrubNext(p) \/ ScanEnds(p)
  BY <1>11, ScrubSteps
<1>12. CASE StoragePowerLoss \/ LoadPools \/ LoadPoolsFails \/ RecoverLocalPool \/ RecoverEnds
  BY <1>2, <1>12, PowerLossInv, LoadPoolsInv, LoadPoolsFailsInv, RecoverLocalPoolInv, RecoverEndsInv
<1>13. CASE FirstKey \/ FirstCreate \/ (\E p \in Pools : ResilverDone(p)) \/ \E d \in Drives : LoseDrive(d)
  BY <1>2, <1>13, FirstKeyInv, FirstCreateInv, ResilverDoneInv, LoseDriveInv
<1> QED BY <1>1, <1>2, <1>3, <1>4, <1>5, <1>6, <1>7, <1>8, <1>9, <1>10, <1>11, <1>12, <1>13 DEF StorageNext

\* When requests are handled one at a time, no sequence of creations, updates with
\* removals, replacements and additions, destructions, imports, wipes and encryptions
\* (CreateZpool, UpdateZpool, DestroyZpool, ImportExistingPool, WipeDrive, EncryptDrive), with
\* the power lost between any two commands, starts that fail or recover the pool "local", and
\* drives lost at any time, wipes or relabels a drive that a pool in use counts on. Two things
\* are not claimed, since they do not hold: that the drive a mirror is to be rid of is wiped
\* only once the mirror is rebuilt (updateZpoolHelper), and, hence the assumption, that a
\* drive a pool is being rebuilt onto is refused to a user who wipes or encrypts it.
THEOREM PoolsStayIntact == ASSUME OneRequest, ~WipesNew PROVE StorageSpec => []PoolsIntact
<1>1. StorageInit => StorageInv
  BY StorageInvInit
<1>2. StorageInv /\ [StorageNext]_storageVars => StorageInv'
  BY StorageInvNext
<1>3. StorageInv => PoolsIntact
  <2> SUFFICES ASSUME StorageInv, NEW p \in live, NEW d \in Members(p), pool[p].type = "zfs-raid0" \/ d \notin Olds(p)
               PROVE  label[d] = p /\ header[d] = 0
    BY DEF PoolsIntact
  <2>1. p # NoPool /\ pool[p] \in PoolConfigs /\ Labelled(pool[p], p, label)
    BY PoolFacts
  <2>2. d \in Drives /\ label[d] = p
    BY <2>1 DEF PoolConfigs, Members, Labelled, Olds
  <2> QED BY <2>1, <2>2 DEF StorageInv, LabelsAgree
<1> QED BY <1>1, <1>2, <1>3, PTL DEF StorageSpec

\* And as long as nobody imports a drive with a wrong key, the key file of every pool whose
\* key is loaded and of every drive that is open holds the right key at every moment: what is
\* open opens again at the next boot (GenerateEncryptionKeyFile, EncryptDrive,
\* ImportEncryptedDrive, DecryptDrives).
THEOREM OpenOpensAgain == ASSUME OneRequest, ~WipesNew, ~WrongKeys PROVE StorageSpec => []KeysKept
<1>1. StorageInit => StorageInv
  BY StorageInvInit
<1>2. StorageInv /\ [StorageNext]_storageVars => StorageInv'
  BY StorageInvNext
<1>3. StorageInv => KeysKept
  BY DEF StorageInv, KeysMatch, KeysKept
<1> QED BY <1>1, <1>2, <1>3, PTL DEF StorageSpec

-----------------------------------------------------------------------------
(* Ceph, when one job runs at a time.                                      *)

OneJob == \E j : CephJobs = {j}

BoxFields == {"exists", "run", "ready", "fsid", "tag", "image"}
JobFields == {"at", "todo", "etag", "fsid", "tag", "next"}
First == Controls[1]

CephTypes ==
    /\ DOMAIN project = {"fsid", "etag"} /\ project.fsid = project.etag
    /\ DOMAIN box = Boxes /\ \A b \in Boxes : DOMAIN box[b] = BoxFields /\ (box[b].ready => box[b].exists)
    /\ DOMAIN service = HostSet /\ missed \subseteq HostSet
    /\ DOMAIN job = CephJobs /\ \A j \in CephJobs : DOMAIN job[j] = JobFields

\* What was set up carries the fsid of the first control server, which stays as long as anything
\* else does. What is configured carries the fsid of the project; while it does, so does the first
\* control server.
FsidOfProject ==
    /\ \A b \in Boxes : box[b].ready => box[b].fsid = box[First].fsid /\ box[First].ready
    /\ \A h \in HostSet \ missed : service[h] # 0 =>
          service[h] = project.fsid /\ (box[First].ready => box[First].fsid = project.fsid)
    /\ box[First].exists => First \in volume

\* A job that is about to give the project an fsid went past every member that has another; it
\* gets no further than the volume of the first control server if that exists. The services are
\* given the fsid it chose, and only OSDs are removed.
JobHolds(q) ==
    /\ q.at = "project" => \A h \in HostSet \ missed : service[h] = 0
    /\ q.at \in {"volume", "create", "script", "service"} /\ q.next = "service" =>
          /\ q.fsid = project.fsid
          /\ box[First].ready => box[First].fsid = project.fsid \/ (q.at = "volume" /\ Head(q.todo) = First)
    /\ q.at = "service" => q.next = "service"
    /\ q.at \in {"create", "script"} /\ Head(q.todo) = First => First \in volume
    /\ q.at = "script" => /\ Head(q.todo) \in Boxes => box[Head(q.todo)].exists
                          /\ Head(q.todo) = First => ~box[First].ready
    /\ q.at \in {"stopOSD", "deleteOSD"} => Head(q.todo) # First
    /\ q.at \in {"encrypt", "stopOSD", "deleteOSD", "refresh", "stopBox", "rebuild", "startBox", "refreshed", "idle"} => q.next = "idle"

CephInv == CephTypes /\ FsidOfProject /\ \A j \in CephJobs : JobHolds(job[j])

LEMMA BoxNames == First \in Boxes /\ First \in ControlSet /\ \A h \in HostSet : h # First /\ h \in Boxes
<1>1. Controls[1] \in Range(Controls)
  BY DEF Controls, Range
<1> QED BY <1>1, CephAssumption DEF First, ControlSet, Boxes

LEMMA NoFields ==
    /\ DOMAIN NoBox = BoxFields /\ ~NoBox.ready /\ ~NoBox.exists
    /\ DOMAIN NoJob = JobFields /\ NoJob.at = "idle" /\ NoJob.next = "idle"
BY DEF NoBox, NoJob, BoxFields, JobFields

LEMMA CephInvInit == ASSUME CephInit PROVE CephInv
<1>1. PICK deployed \in BOOLEAN :
        /\ project = [fsid |-> IF deployed THEN 1 ELSE 0, etag |-> IF deployed THEN 1 ELSE 0]
        /\ box = [b \in Boxes |-> IF deployed
                    THEN [NoBox EXCEPT !.exists = TRUE, !.run = TRUE, !.ready = TRUE, !.fsid = 1, !.image = 1]
                    ELSE NoBox]
        /\ volume = (IF deployed THEN Boxes ELSE {})
        /\ service = [h \in HostSet |-> IF deployed THEN 1 ELSE 0] /\ missed = {}
        /\ job = [j \in CephJobs |-> NoJob]
  BY DEF CephInit
<1>2. \A j \in CephJobs : job[j] = NoJob
  BY <1>1
<1>3. CephTypes
  BY <1>1, NoFields DEF CephTypes, NoBox, BoxFields
<1>4. FsidOfProject
  BY <1>1, BoxNames DEF FsidOfProject, NoBox
<1> QED BY <1>2, <1>3, <1>4, NoFields DEF CephInv, JobHolds

\* A step of the only job.
LEMMA JobStep ==
    ASSUME CephInv, NEW j, CephJobs = {j}, NEW q, Step(j, q), DOMAIN q = JobFields
    PROVE  job'[j] = q /\ DOMAIN job' = CephJobs /\ \A i \in CephJobs : DOMAIN job'[i] = JobFields
BY DEF Step, CephInv, CephTypes

\* A job that launches, ends or goes on, with fsids and containers left alone.
LEMMA JobMoves ==
    ASSUME CephInv, NEW j, CephJobs = {j}, NEW q, Step(j, q), DOMAIN q = JobFields,
           UNCHANGED <<project, box, service>>, missed \subseteq missed', missed' \subseteq HostSet,
           volume \subseteq volume', JobHolds(q)'
    PROVE  CephInv'
<1>1. job'[j] = q /\ CephTypes'
  BY JobStep DEF CephInv, CephTypes
<1>2. FsidOfProject'
  BY DEF CephInv, FsidOfProject
<1>3. JobHolds(job[j])'
  BY <1>1 DEF JobHolds
<1> QED BY <1>1, <1>2, <1>3 DEF CephInv

LEMMA JobOnly ==
    ASSUME CephInv, NEW j, CephJobs = {j}, NEW q, Step(j, q), DOMAIN q = JobFields,
           JobHolds(q), UNCHANGED <<project, box, service, missed, volume>>
    PROVE  CephInv'
<1>1. JobHolds(q)'
  BY DEF JobHolds
<1>2. missed' \subseteq HostSet
  BY DEF CephInv, CephTypes
<1> QED BY <1>1, <1>2, JobMoves

LEMMA JobEnds == JobHolds(NoJob) /\ DOMAIN NoJob = JobFields
BY NoFields DEF JobHolds

\* A container is changed, and is as ready as it was or has just been set up.
LEMMA BoxStep ==
    ASSUME CephInv, NEW j, CephJobs = {j}, NEW q, Step(j, q), DOMAIN q = JobFields,
           NEW b, NEW c, box' = [box EXCEPT ![b] = c], b \in Boxes => DOMAIN c = BoxFields /\ (c.ready => c.exists),
           b \in Boxes /\ b # First /\ c.ready => c.fsid = box[First].fsid /\ box[First].ready,
           b = First /\ box[First].ready => c.ready /\ c.fsid = box[First].fsid,
           b = First /\ c.ready /\ ~box[First].ready => c.fsid = project.fsid,
           b = First /\ c.exists => First \in volume, First \in volume => First \in volume',
           UNCHANGED <<project, service, missed>>, JobHolds(q)'
    PROVE  CephInv'
<1>1. job'[j] = q /\ CephTypes'
  BY JobStep DEF CephInv, CephTypes
<1>2. FsidOfProject'
  <2>1. \A x \in Boxes : box'[x] = IF x = b THEN c ELSE box[x]
    BY DEF CephInv, CephTypes
  <2>2. First \in Boxes
    BY BoxNames
  <2>3. box[First].ready => box'[First].ready /\ box'[First].fsid = box[First].fsid
    BY <2>1, <2>2
  <2>4. \A x \in Boxes : box'[x].ready => box'[x].fsid = box'[First].fsid /\ box'[First].ready
    BY <2>1, <2>2, <2>3 DEF CephInv, FsidOfProject
  <2>5. box'[First].ready => box'[First].fsid = project.fsid \/ (box[First].ready /\ box'[First].fsid = box[First].fsid)
    BY <2>1, <2>2
  <2>6. box'[First].exists => First \in volume'
    BY <2>1, <2>2 DEF CephInv, FsidOfProject
  <2> QED BY <2>4, <2>5, <2>6 DEF CephInv, FsidOfProject
<1>3. JobHolds(job[j])'
  BY <1>1 DEF JobHolds
<1> QED BY <1>1, <1>2, <1>3 DEF CephInv

LEMMA JobFacts ==
    ASSUME CephInv, NEW j, CephJobs = {j}
    PROVE  DOMAIN job[j] = JobFields /\ JobHolds(job[j])
BY DEF CephInv, CephTypes

\* The job goes on with another step for the same container.
LEMMA JobNext ==
    ASSUME CephInv, NEW j, CephJobs = {j}, NEW step, NextStep(j, step)
    PROVE  \E q : /\ Step(j, q) /\ DOMAIN q = JobFields /\ q.at = step
                  /\ q.todo = job[j].todo /\ q.fsid = job[j].fsid /\ q.next = job[j].next
<1> DEFINE q == [job[j] EXCEPT !.at = step]
<1>1. Step(j, q)
  BY DEF NextStep
<1>2. /\ DOMAIN q = JobFields /\ q.at = step
      /\ q.todo = job[j].todo /\ q.fsid = job[j].fsid /\ q.next = job[j].next
  BY JobFacts DEF JobFields
<1> QED BY <1>1, <1>2

LEMMA LaunchInv ==
    ASSUME CephInv, NEW j, CephJobs = {j},
           \/ InitializeCephCluster(j)
           \/ \E h \in HostSet : AddOSD(j, h) \/ RemoveOSD(j, h)
           \/ \E t \in Tags \cup {"own"} : RefreshCephOCIImages(j, t)
    PROVE  CephInv'
<1> USE DEF Launch
<1>1. CASE InitializeCephCluster(j)
  <2>1. PICK q : /\ q = [NoJob EXCEPT !.at = "project", !.etag = project.etag]
                 /\ Step(j, q)
    BY <1>1 DEF InitializeCephCluster
  <2>2. UNCHANGED <<project, box, service, volume>>
    BY <1>1 DEF InitializeCephCluster
  <2>3. DOMAIN q = JobFields /\ q.at = "project" /\ q.next = "idle"
    BY <2>1 DEF NoJob, JobFields
  <2>4. PICK silent \in SUBSET Boxes : /\ \A h \in HostSet \ silent : service[h] = 0
                                       /\ missed' = missed \cup {h \in silent \cap HostSet : service[h] # 0}
    BY <1>1 DEF InitializeCephCluster, InitChecks
  <2>5. missed \subseteq missed' /\ missed' \subseteq HostSet
    <3>1. missed \subseteq HostSet
      BY DEF CephInv, CephTypes
    <3> QED BY <2>4, <3>1
  <2>6. ASSUME NEW h \in HostSet, h \notin missed' PROVE service'[h] = 0
    <3>1. service[h] = 0
      <4>1. CASE h \in silent
        BY <2>4, <2>6, <4>1
      <4>2. CASE h \notin silent
        BY <2>4, <4>2
      <4> QED BY <4>1, <4>2
    <3> QED BY <2>2, <3>1
  <2>7. JobHolds(q)'
    BY <2>3, <2>6 DEF JobHolds
  <2> QED BY <2>1, <2>2, <2>3, <2>5, <2>7, JobMoves
<1>2. ASSUME NEW h \in HostSet, AddOSD(j, h) PROVE CephInv'
  <2> DEFINE q == [NoJob EXCEPT !.at = "encrypt", !.todo = <<h>>]
  <2>1. Step(j, q) /\ UNCHANGED <<project, box, service, missed, volume>>
    BY <1>2 DEF AddOSD
  <2>2. DOMAIN q = JobFields /\ q.at = "encrypt" /\ q.next = "idle"
    BY DEF NoJob, JobFields
  <2> HIDE DEF q
  <2>3. JobHolds(q)
    BY <2>2 DEF JobHolds
  <2> QED BY <2>1, <2>2, <2>3, JobOnly
<1>3. ASSUME NEW h \in HostSet, RemoveOSD(j, h) PROVE CephInv'
  <2> DEFINE q == [NoJob EXCEPT !.at = "stopOSD", !.todo = <<h>>]
  <2>1. Step(j, q) /\ UNCHANGED <<project, box, service, missed, volume>>
    BY <1>3 DEF RemoveOSD
  <2>2. DOMAIN q = JobFields /\ q.at = "stopOSD" /\ q.next = "idle" /\ q.todo = <<h>>
    BY DEF NoJob, JobFields
  <2> HIDE DEF q
  <2>3. Head(<<h>>) = h /\ h # First
    BY BoxNames
  <2>4. JobHolds(q)
    BY <2>2, <2>3 DEF JobHolds
  <2> QED BY <2>1, <2>2, <2>4, JobOnly
<1>4. ASSUME NEW t, RefreshCephOCIImages(j, t) PROVE CephInv'
  <2>1. PICK q : /\ q = [NoJob EXCEPT !.at = "refresh", !.tag = t,
                                      !.todo = Controls \o SelectSeq(Hosts, LAMBDA h : h \in OSDHosts)]
                 /\ Step(j, q)
    BY <1>4 DEF RefreshCephOCIImages
  <2>2. DOMAIN q = JobFields /\ q.at = "refresh" /\ q.next = "idle"
    BY <2>1 DEF NoJob, JobFields
  <2>3. JobHolds(q)
    BY <2>2 DEF JobHolds
  <2> QED BY <1>4, <2>1, <2>2, <2>3, JobOnly DEF RefreshCephOCIImages
<1> QED BY <1>1, <1>2, <1>3, <1>4

\* The steps of a job that leave containers and fsids alone.
LEMMA QuietSteps ==
    ASSUME CephInv, NEW j, CephJobs = {j},
           DeployVolume(j) \/ EnsureDeviceIsEncrypted(j) \/ RefreshCheck(j) \/ Refreshed(j) \/ CallFails(j)
    PROVE  CephInv'
<1> USE DEF Doing
<1>1. JobHolds(job[j]) /\ DOMAIN job[j] = JobFields
  BY JobFacts
<1>2. UNCHANGED <<project, box, service, missed>> /\ (DeployVolume(j) \/ UNCHANGED volume)
  BY DEF DeployVolume, EnsureDeviceIsEncrypted, RefreshCheck, Refreshed, CallFails, images
<1>3. CASE Finish(j) /\ UNCHANGED volume
  BY <1>2, <1>3, JobEnds, JobOnly DEF Finish
<1>4. CASE /\ DeployVolume(j) /\ Head(job[j].todo) \notin volume
           /\ volume' = volume \cup {Head(job[j].todo)} /\ NextStep(j, "create")
  <2>1. PICK q : /\ Step(j, q) /\ DOMAIN q = JobFields /\ q.at = "create"
                 /\ q.todo = job[j].todo /\ q.fsid = job[j].fsid /\ q.next = job[j].next
    BY <1>4, JobNext
  <2>2. Head(job[j].todo) = First => ~box[First].ready
    BY <1>4, BoxNames DEF CephInv, CephTypes, FsidOfProject
  <2>3. JobHolds(q)'
    BY <1>1, <1>2, <1>4, <2>1, <2>2 DEF JobHolds, DeployVolume
  <2>4. missed' \subseteq HostSet
    BY <1>2 DEF CephInv, CephTypes
  <2> QED BY <1>2, <1>4, <2>1, <2>3, <2>4, JobMoves
<1>5. CASE EnsureDeviceIsEncrypted(j)
  <2>1. PICK q : /\ Step(j, q) /\ DOMAIN q = JobFields /\ q.at = "volume" /\ q.next = job[j].next
    BY <1>5, JobNext DEF EnsureDeviceIsEncrypted
  <2>2. JobHolds(q) /\ UNCHANGED volume
    BY <1>1, <1>5, <2>1 DEF JobHolds, EnsureDeviceIsEncrypted
  <2> QED BY <1>2, <2>1, <2>2, JobOnly
<1>6. CASE RefreshCheck(j)
  <2>1. job[j].next = "idle" /\ UNCHANGED volume
    BY <1>1, <1>6 DEF JobHolds, RefreshCheck
  <2>2. CASE Step(j, [NoJob EXCEPT !.at = "refreshed", !.tag = job[j].tag])
    <3> DEFINE q == [NoJob EXCEPT !.at = "refreshed", !.tag = job[j].tag]
    <3>1. DOMAIN q = JobFields /\ q.at = "refreshed" /\ q.next = "idle" /\ Step(j, q)
      BY <2>2 DEF NoJob, JobFields
    <3> HIDE DEF q
    <3>2. JobHolds(q)
      BY <3>1 DEF JobHolds
    <3> QED BY <1>2, <2>1, <3>1, <3>2, JobOnly
  <2>3. CASE NextStep(j, "stopBox")
    <3>1. PICK q : Step(j, q) /\ DOMAIN q = JobFields /\ q.at = "stopBox" /\ q.next = job[j].next
      BY <2>3, JobNext
    <3>2. JobHolds(q)
      BY <2>1, <3>1 DEF JobHolds
    <3> QED BY <1>2, <2>1, <3>1, <3>2, JobOnly
  <2>4. CASE Step(j, [job[j] EXCEPT !.todo = Tail(@)])
    <3> DEFINE q == [job[j] EXCEPT !.todo = Tail(@)]
    <3>1. DOMAIN q = JobFields /\ q.at = "refresh" /\ q.next = "idle" /\ Step(j, q)
      BY <1>1, <1>6, <2>1, <2>4 DEF JobFields, RefreshCheck
    <3> HIDE DEF q
    <3>2. JobHolds(q)
      BY <3>1 DEF JobHolds
    <3> QED BY <1>2, <2>1, <3>1, <3>2, JobOnly
  <2> QED BY <1>6, <2>2, <2>3, <2>4 DEF RefreshCheck
<1> QED BY <1>3, <1>4, <1>5, <1>6 DEF DeployVolume, Refreshed, CallFails

LEMMA InitProjectInv == ASSUME CephInv, NEW j, CephJobs = {j}, InitProject(j) PROVE CephInv'
<1>1. JobHolds(job[j]) /\ job[j].at = "project"
  BY JobFacts DEF InitProject, Doing
<1>2. UNCHANGED <<box, service, missed, volume>>
  BY DEF InitProject
<1>3. CASE Finish(j) /\ UNCHANGED project
  BY <1>2, <1>3, JobEnds, JobOnly DEF Finish
<1>4. CASE /\ project' = [fsid |-> project.etag + 1, etag |-> project.etag + 1]
           /\ Step(j, [NoJob EXCEPT !.at = "volume", !.todo = Controls, !.fsid = project.etag + 1, !.next = "service"])
  <2> DEFINE q == [NoJob EXCEPT !.at = "volume", !.todo = Controls, !.fsid = project.etag + 1, !.next = "service"]
  <2>1. DOMAIN q = JobFields /\ q.at = "volume" /\ q.fsid = project'.fsid /\ q.todo = Controls /\ Step(j, q)
    BY <1>4 DEF NoJob, JobFields
  <2>2. DOMAIN project' = {"fsid", "etag"} /\ project'.fsid = project'.etag
    BY <1>4
  <2> HIDE DEF q
  <2>3. job'[j] = q /\ CephTypes'
    BY <1>2, <2>1, <2>2, JobStep DEF CephInv, CephTypes
  <2>4. Head(q.todo) = First
    BY <2>1 DEF Controls, First
  <2>5. FsidOfProject'
    BY <1>1, <1>2 DEF CephInv, FsidOfProject, JobHolds
  <2>6. JobHolds(job[j])'
    BY <2>1, <2>3, <2>4 DEF JobHolds
  <2> QED BY <2>3, <2>5, <2>6 DEF CephInv
<1> QED BY <1>3, <1>4 DEF InitProject

LEMMA InitServiceInv == ASSUME CephInv, NEW j, CephJobs = {j}, InitService(j) PROVE CephInv'
<1>1. JobHolds(job[j]) /\ DOMAIN job[j] = JobFields /\ job[j].at = "service"
  BY JobFacts DEF InitService, Doing
<1>2. UNCHANGED <<project, box, volume>>
  BY DEF InitService
<1>3. CASE Finish(j) /\ UNCHANGED <<service, missed>>
  BY <1>2, <1>3, JobEnds, JobOnly DEF Finish
<1>4. CASE /\ service' = [service EXCEPT ![Head(job[j].todo)] = job[j].fsid] /\ missed' = missed \ {Head(job[j].todo)}
           /\ Step(j, [job[j] EXCEPT !.todo = Tail(@)])
  <2> DEFINE q == [job[j] EXCEPT !.todo = Tail(@)]
  <2>1. DOMAIN q = JobFields /\ q.at = "service" /\ q.next = job[j].next /\ q.fsid = job[j].fsid /\ Step(j, q)
    BY <1>1, <1>4 DEF JobFields
  <2> HIDE DEF q
  <2>2. job'[j] = q /\ CephTypes'
    BY <1>2, <1>4, <2>1, JobStep DEF CephInv, CephTypes
  <2>3. job[j].fsid = project.fsid /\ job[j].next = "service" /\ (box[First].ready => box[First].fsid = project.fsid)
    BY <1>1 DEF JobHolds
  <2>4. FsidOfProject'
    BY <1>2, <1>4, <2>3 DEF CephInv, CephTypes, FsidOfProject
  <2>5. JobHolds(job[j])'
    BY <1>2, <2>1, <2>2, <2>3 DEF JobHolds
  <2> QED BY <2>2, <2>4, <2>5 DEF CephInv
<1> QED BY <1>3, <1>4 DEF InitService

LEMMA DeployCreateInv == ASSUME CephInv, NEW j, CephJobs = {j}, DeployCreate(j) PROVE CephInv'
<1> DEFINE b == Head(job[j].todo)
<1>1. JobHolds(job[j]) /\ DOMAIN job[j] = JobFields /\ job[j].at = "create"
  BY JobFacts DEF DeployCreate, Doing
<1>2. UNCHANGED <<project, service, missed, volume>>
  BY DEF DeployCreate
<1>3. CASE Finish(j) /\ UNCHANGED box
  BY <1>2, <1>3, JobEnds, JobOnly DEF Finish
<1>4. CASE /\ ~box[b].exists
           /\ box' = [box EXCEPT ![b] = [NoBox EXCEPT !.exists = TRUE, !.run = TRUE, !.image = localImage'[DefaultTag]]]
           /\ NextStep(j, "script")
  <2> DEFINE c == [NoBox EXCEPT !.exists = TRUE, !.run = TRUE, !.image = localImage'[DefaultTag]]
  <2>1. DOMAIN c = BoxFields /\ c.exists /\ ~c.ready
    BY DEF NoBox, BoxFields
  <2>2. PICK q : /\ Step(j, q) /\ DOMAIN q = JobFields /\ q.at = "script"
                 /\ q.todo = job[j].todo /\ q.fsid = job[j].fsid /\ q.next = job[j].next
    BY <1>4, JobNext
  <2>3. box' = [box EXCEPT ![b] = c]
    BY <1>4
  <2> HIDE DEF c
  <2>4. Head(q.todo) = b
    BY <2>2
  <2> HIDE DEF b
  <2>5. /\ b \in Boxes => box'[b].exists
        /\ box'[First] = IF b = First THEN c ELSE box[First]
    BY <2>1, <2>3, BoxNames DEF CephInv, CephTypes
  <2>6. JobHolds(q)'
    BY <1>1, <1>2, <2>1, <2>2, <2>4, <2>5 DEF JobHolds
  <2>7. ~(b = First /\ box[First].ready)
    BY <1>4, BoxNames DEF CephInv, CephTypes
  <2>8. b = First => First \in volume
    BY <1>1, <2>2, <2>4 DEF JobHolds
  <2> QED BY <1>2, <2>1, <2>2, <2>3, <2>6, <2>7, <2>8, BoxStep
<1> QED BY <1>3, <1>4 DEF DeployCreate

LEMMA DeployScriptInv == ASSUME CephInv, NEW j, CephJobs = {j}, DeployScript(j) PROVE CephInv'
<1> DEFINE b == Head(job[j].todo)
           fsids == IF b = Controls[1] THEN {project.fsid} ELSE ClusterFsid
           rest == Tail(job[j].todo)
<1>1. JobHolds(job[j]) /\ DOMAIN job[j] = JobFields /\ job[j].at = "script"
  BY JobFacts DEF DeployScript, Doing
<1>2. UNCHANGED <<project, service, missed, volume>>
  BY DEF DeployScript
<1>3. CASE Finish(j) /\ UNCHANGED box
  BY <1>2, <1>3, JobEnds, JobOnly DEF Finish
<1>4. CASE /\ \E fsid \in fsids : box' = [box EXCEPT ![b].ready = TRUE, ![b].fsid = fsid]
           /\ Step(j, IF rest # <<>> THEN [job[j] EXCEPT !.at = "volume", !.todo = rest]
                      ELSE IF job[j].next = "service" THEN [job[j] EXCEPT !.at = "service", !.todo = Hosts]
                      ELSE NoJob)
  <2>1. PICK fsid \in fsids : box' = [box EXCEPT ![b].ready = TRUE, ![b].fsid = fsid]
    BY <1>4
  <2>2. /\ b = First => fsid = project.fsid /\ ~box[First].ready /\ First \in volume
        /\ b # First => box[First].ready /\ fsid = box[First].fsid
    <3>1. b = First => fsid = project.fsid
      BY DEF First
    <3>2. b # First => box[First].ready /\ fsid = box[First].fsid
      BY DEF First, ClusterFsid
    <3>3. b = First => ~box[First].ready /\ First \in volume
      BY <1>1 DEF JobHolds
    <3> QED BY <3>1, <3>2, <3>3
  <2> DEFINE c == [box[b] EXCEPT !.ready = TRUE, !.fsid = fsid]
  <2>3. b \in Boxes => DOMAIN c = BoxFields /\ c.ready /\ c.fsid = fsid /\ c.exists = box[b].exists
    BY DEF CephInv, CephTypes, BoxFields
  <2>4. box' = [box EXCEPT ![b] = c]
    <3>1. CASE b \in Boxes
      BY <2>1, <3>1 DEF CephInv, CephTypes
    <3>2. CASE b \notin Boxes
      BY <2>1, <3>2 DEF CephInv, CephTypes
    <3> QED BY <3>1, <3>2
  <2> HIDE DEF c
  <2>5. b \in Boxes => box[b].exists
    BY <1>1 DEF JobHolds
  <2>6. PICK q : /\ Step(j, q) /\ DOMAIN q = JobFields
                 /\ \/ q.at = "volume" /\ q.fsid = job[j].fsid /\ q.next = job[j].next
                    \/ job[j].next = "service" /\ q.at = "service" /\ q.fsid = job[j].fsid /\ q.next = "service"
                    \/ q = NoJob
    <3>1. CASE rest # <<>>
      <4> DEFINE v == [job[j] EXCEPT !.at = "volume", !.todo = rest]
      <4>1. Step(j, v)
        BY <1>4, <3>1
      <4>2. DOMAIN v = JobFields /\ v.at = "volume" /\ v.fsid = job[j].fsid /\ v.next = job[j].next
        BY <1>1 DEF JobFields
      <4> QED BY <4>1, <4>2
    <3>2. CASE rest = <<>> /\ job[j].next = "service"
      <4> DEFINE v == [job[j] EXCEPT !.at = "service", !.todo = Hosts]
      <4>1. Step(j, v)
        BY <1>4, <3>2
      <4>2. DOMAIN v = JobFields /\ v.at = "service" /\ v.fsid = job[j].fsid /\ v.next = job[j].next
        BY <1>1 DEF JobFields
      <4> QED BY <3>2, <4>1, <4>2
    <3>3. CASE rest = <<>> /\ job[j].next # "service"
      BY <1>4, <3>3, JobEnds
    <3> QED BY <3>1, <3>2, <3>3
  <2> HIDE DEF b, fsids
  <2>7. box'[First].ready /\ box'[First].fsid = IF b = First THEN project.fsid ELSE box[First].fsid
    BY <2>2, <2>3, <2>4, BoxNames DEF CephInv, CephTypes
  <2>8. JobHolds(q)'
    <3>1. job[j].next = "service" => job[j].fsid = project.fsid /\ box'[First].fsid = project.fsid
      BY <1>1, <2>2, <2>7 DEF JobHolds
    <3> QED BY <1>2, <2>6, <3>1, NoFields DEF JobHolds
  <2>9. /\ b \in Boxes => DOMAIN c = BoxFields /\ (c.ready => c.exists)
        /\ b \in Boxes /\ b # First /\ c.ready => c.fsid = box[First].fsid /\ box[First].ready
        /\ b = First /\ box[First].ready => c.ready /\ c.fsid = box[First].fsid
        /\ b = First /\ c.ready /\ ~box[First].ready => c.fsid = project.fsid
        /\ b = First /\ c.exists => First \in volume
    BY <2>2, <2>3, <2>5, BoxNames
  <2>10. Step(j, q) /\ DOMAIN q = JobFields
    BY <2>6
  <2> QED BY <1>2, <2>4, <2>8, <2>9, <2>10, BoxStep
<1> QED BY <1>3, <1>4 DEF DeployScript

\* A container is stopped, started or given another image: what was set up stays.
LEMMA SameFsidStep ==
    ASSUME CephInv, NEW j, CephJobs = {j}, NEW q, Step(j, q), DOMAIN q = JobFields, JobHolds(q), q.at # "script",
           NEW b, NEW c, box' = [box EXCEPT ![b] = c],
           b \in Boxes => /\ DOMAIN c = BoxFields /\ c.ready = box[b].ready
                          /\ c.exists = box[b].exists /\ c.fsid = box[b].fsid,
           UNCHANGED <<project, service, missed, volume>>
    PROVE  CephInv'
<1>1. box'[First].ready = box[First].ready /\ box'[First].fsid = box[First].fsid
  BY BoxNames DEF CephInv, CephTypes
<1>2. JobHolds(q)'
  BY <1>1 DEF JobHolds
<1>3. /\ b \in Boxes => DOMAIN c = BoxFields /\ (c.ready => c.exists)
      /\ b \in Boxes /\ b # First /\ c.ready => c.fsid = box[First].fsid /\ box[First].ready
      /\ b = First /\ box[First].ready => c.ready /\ c.fsid = box[First].fsid
      /\ b = First /\ c.ready => box[First].ready
      /\ b = First /\ c.exists => First \in volume
  BY BoxNames DEF CephInv, CephTypes, FsidOfProject
<1> QED BY <1>2, <1>3, BoxStep

LEMMA BoxSteps ==
    ASSUME CephInv, NEW j, CephJobs = {j},
           StopOSD(j) \/ DeleteOSD(j) \/ RefreshStop(j) \/ RefreshRebuild(j) \/ RefreshStart(j)
    PROVE  CephInv'
<1> DEFINE b == Head(job[j].todo)
<1> USE DEF Doing
<1>1. JobHolds(job[j]) /\ DOMAIN job[j] = JobFields
  BY JobFacts
<1>2. UNCHANGED <<project, service, missed>> /\ (DeleteOSD(j) \/ UNCHANGED volume)
  BY DEF StopOSD, DeleteOSD, RefreshStop, RefreshRebuild, RefreshStart
<1>3. CASE Finish(j) /\ UNCHANGED <<box, volume>>
  BY <1>2, <1>3, JobEnds, JobOnly DEF Finish
<1>4. CASE DeleteOSD(j)
  <2>1. b # First /\ box' = [box EXCEPT ![b] = NoBox] /\ volume' = volume \ {b} /\ Step(j, NoJob)
    BY <1>1, <1>4 DEF JobHolds, DeleteOSD, Finish
  <2>2. JobHolds(NoJob)'
    BY NoFields DEF JobHolds
  <2> HIDE DEF b
  <2> QED BY <1>2, <2>1, <2>2, NoFields, BoxStep
<1>5. ASSUME NEW run \in BOOLEAN, box' = [box EXCEPT ![b].run = run], UNCHANGED volume,
             NEW q, Step(j, q), DOMAIN q = JobFields, JobHolds(q), q.at # "script"
      PROVE  CephInv'
  <2> DEFINE c == [box[b] EXCEPT !.run = run]
  <2>1. b \in Boxes => /\ DOMAIN c = BoxFields /\ c.ready = box[b].ready
                       /\ c.exists = box[b].exists /\ c.fsid = box[b].fsid
    BY DEF CephInv, CephTypes, BoxFields
  <2>2. box' = [box EXCEPT ![b] = c]
    BY <1>5
  <2> HIDE DEF b, c
  <2> QED BY <1>2, <1>5, <2>1, <2>2, SameFsidStep
<1>6. CASE StopOSD(j) /\ box' = [box EXCEPT ![b].run = FALSE] /\ NextStep(j, "deleteOSD")
  <2>1. PICK q : /\ Step(j, q) /\ DOMAIN q = JobFields /\ q.at = "deleteOSD"
                 /\ q.todo = job[j].todo /\ q.next = job[j].next
    BY <1>6, JobNext
  <2>2. JobHolds(q) /\ UNCHANGED volume
    BY <1>1, <1>6, <2>1 DEF JobHolds, StopOSD
  <2> QED BY <1>5, <1>6, <2>1, <2>2
<1>7. CASE RefreshStop(j) /\ box' = [box EXCEPT ![b].run = FALSE] /\ NextStep(j, "rebuild")
  <2>1. PICK q : Step(j, q) /\ DOMAIN q = JobFields /\ q.at = "rebuild" /\ q.next = job[j].next
    BY <1>7, JobNext
  <2>2. JobHolds(q) /\ UNCHANGED volume
    BY <1>1, <1>7, <2>1 DEF JobHolds, RefreshStop
  <2> QED BY <1>5, <1>7, <2>1, <2>2
<1>8. CASE RefreshStart(j)
  <2> DEFINE q == [job[j] EXCEPT !.at = "refresh", !.todo = Tail(@)]
  <2>1. Step(j, q) /\ box' = [box EXCEPT ![b].run = TRUE] /\ job[j].next = "idle" /\ UNCHANGED volume
    BY <1>1, <1>8 DEF RefreshStart, JobHolds
  <2>2. DOMAIN q = JobFields /\ q.at = "refresh" /\ q.next = "idle"
    BY <1>1, <2>1 DEF JobFields
  <2> HIDE DEF q
  <2>3. JobHolds(q)
    BY <2>2 DEF JobHolds
  <2> QED BY <1>5, <2>1, <2>2, <2>3
<1>9. CASE RefreshRebuild(j)
  <2> DEFINE q == [job[j] EXCEPT !.at = "startBox"]
             tag == RefreshTag(j, b)
             c == [box[b] EXCEPT !.image = localImage[tag], !.tag = tag]
  <2>1. /\ Step(j, q) /\ job[j].next = "idle" /\ box' = [box EXCEPT ![b].image = localImage[tag], ![b].tag = tag]
        /\ UNCHANGED volume
    BY <1>1, <1>9 DEF RefreshRebuild, JobHolds
  <2>2. DOMAIN q = JobFields /\ q.at = "startBox" /\ q.next = "idle"
    BY <1>1, <2>1 DEF JobFields
  <2> HIDE DEF q, tag
  <2>3. JobHolds(q)
    BY <2>2 DEF JobHolds
  <2>4. b \in Boxes => /\ DOMAIN c = BoxFields /\ c.ready = box[b].ready
                       /\ c.exists = box[b].exists /\ c.fsid = box[b].fsid
    BY DEF CephInv, CephTypes, BoxFields
  <2>5. box' = [box EXCEPT ![b] = c]
    <3>1. CASE b \in Boxes
      BY <2>1, <3>1 DEF CephInv, CephTypes
    <3>2. CASE b \notin Boxes
      BY <2>1, <3>2 DEF CephInv, CephTypes
    <3> QED BY <3>1, <3>2
  <2> HIDE DEF b, c
  <2> QED BY <1>2, <2>1, <2>2, <2>3, <2>4, <2>5, SameFsidStep
<1> QED BY <1>3, <1>4, <1>6, <1>7, <1>8, <1>9 DEF StopOSD, RefreshStop

LEMMA WorldInv == ASSUME CephInv, OneJob, CleanUp \/ \E t \in Tags : Publish(t) PROVE CephInv'
<1>1. PICK j : CephJobs = {j}
  BY DEF OneJob
<1>2. CASE CleanUp
  <2>1. /\ box' = [b \in Boxes |-> NoBox] /\ job[j].at = "idle"
        /\ UNCHANGED <<project, service, missed, job>>
    BY <1>1, <1>2 DEF CleanUp, Doing
  <2>2. CephTypes'
    BY <2>1, NoFields DEF CephInv, CephTypes
  <2>3. FsidOfProject'
    BY <2>1, NoFields, BoxNames DEF CephInv, FsidOfProject
  <2>4. JobHolds(job[j])'
    BY <1>1, <2>1 DEF CephInv, JobHolds
  <2> QED BY <1>1, <2>2, <2>3, <2>4 DEF CephInv
<1>3. CASE \E t \in Tags : Publish(t)
  <2>1. UNCHANGED <<project, box, service, missed, volume, job>>
    BY <1>3 DEF Publish
  <2> QED BY <2>1, <1>1 DEF CephInv, CephTypes, FsidOfProject, JobHolds
<1> QED BY <1>2, <1>3

\* When one action of the incus and incus-ceph applications runs at a time, whatever call of a
\* deployment fails (InitializeCephCluster, deployCephContainer, AddOSD, RemoveOSD), and
\* whatever is cleaned up and started over, the Ceph services of the members and the
\* containers that were set up carry one fsid, except for a service whose member did not
\* answer when it was asked about it, and which InitializeCephCluster then overlooks; its
\* turn to be given the new fsid may still come.
THEOREM OneFsid == ASSUME OneJob PROVE CephSpec => []OneCluster
<1>1. CephInit => CephInv
  BY CephInvInit
<1>2. CephInv /\ [CephNext]_cephVars => CephInv'
  <2> SUFFICES ASSUME CephInv, [CephNext]_cephVars PROVE CephInv'
    OBVIOUS
  <2>1. PICK j : CephJobs = {j}
    BY DEF OneJob
  <2>2. CASE UNCHANGED cephVars
    BY <2>1, <2>2 DEF cephVars, CephInv, CephTypes, FsidOfProject, JobHolds
  <2>3. CASE CephNext
    BY <2>1, <2>3, LaunchInv, QuietSteps, InitProjectInv, InitServiceInv, DeployCreateInv, DeployScriptInv, BoxSteps, WorldInv
       DEF CephNext
  <2> QED BY <2>2, <2>3
<1>3. CephInv => OneCluster
  <2> SUFFICES ASSUME CephInv, NEW h \in HostSet \ missed, service[h] # 0
               PROVE  /\ \A g \in HostSet \ missed : service[g] # 0 => service[g] = service[h]
                      /\ \A b \in Containers : box[b].ready => box[b].fsid = service[h]
    BY DEF OneCluster
  <2>1. service[h] = project.fsid /\ (box[First].ready => box[First].fsid = project.fsid)
    BY DEF CephInv, FsidOfProject
  <2> QED BY <2>1 DEF CephInv, FsidOfProject, Containers
<1> QED BY <1>1, <1>2, <1>3, PTL DEF CephSpec
=============================================================================
