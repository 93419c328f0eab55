-------------------------------- MODULE MCHost --------------------------------
(***************************************************************************)
(* The parts of a host that do not share state, in one specification: a    *)
(* behaviour is about the part it starts with, the others stay as they are.*)
(***************************************************************************)
EXTENDS SecureBoot, Storage, Services, Ceph, StateFile, Backup, FactoryReset, Recovery

CONSTANT HostParts  \* the parts to be checked

VARIABLE part

\* The signing key changes with the third release; its certificate is published first, and
\* later the old one revoked ...
MCSignedBy == <<"c1", "c1", "c2", "c2">>
MCEmbedded == [r \in OSReleases |-> Certs]
MCCertArchives ==
    <<[KEK |-> {}, db |-> {"c2"}, dbx |-> {}],
      [KEK |-> {"c2"}, db |-> {"c2"}, dbx |-> {"c1"}]>>
\* ... or both at once.
MCAtOnce == <<MCCertArchives[2]>>

MCHosts == <<"s1", "s2", "s3", "s4">>
MCSkips == {{"local-data-encryption-key"}, {"encryption-recovery-keys", "network-macs"}}
\* A backup of another system; one of this system may be taken before its keys change.
MCArchives ==
    {Dir([conf |-> 3, macs |-> TRUE, apps |-> {"operations-center"}, keys |-> {"k2", "k3"}], 2, 2)}
MCMedia ==
    {x \in MediaType : x.files \in {{"good"}, {"good", "missing", "other-arch"}, {"good", "bad"}, {"missing"}}}

\* A part that is not the behaviour's has one initial state.
Only(p, pinned) == part = p \/ pinned

HostInit ==
    /\ part \in HostParts
    /\ SecureBootInit /\ Only("secureboot", sb)
    /\ StorageInit /\ Only("storage", pool = [p \in Pools |-> NoPoolConfig])
    /\ ServicesInit /\ Only("services", svc = "usbip" /\ seedConf = {})
    /\ CephInit /\ Only("ceph", volume = {})
    /\ BackupInit
    /\ StateInit /\ Only("state", slots = [n \in 1 .. 2 |-> CHOOSE v \in FirstFormats : TRUE])
    /\ ResetInit /\ Only("reset", seedFiles = {})
    /\ RecoveryInit /\ Only("recovery", configured = "")

HostNext ==
    \/ part = "secureboot" /\ SecureBootNext
       /\ UNCHANGED <<part, storageVars, serviceVars, cephVars, stateVars, backupVars, resetVars, recoveryVars>>
    \/ part = "storage" /\ StorageNext
       /\ UNCHANGED <<part, secureBootVars, serviceVars, cephVars, stateVars, backupVars, resetVars, recoveryVars>>
    \/ part = "services" /\ ServicesNext
       /\ UNCHANGED <<part, secureBootVars, storageVars, cephVars, stateVars, backupVars, resetVars, recoveryVars>>
    \/ part = "ceph" /\ CephNext
       /\ UNCHANGED <<part, secureBootVars, storageVars, serviceVars, stateVars, backupVars, resetVars, recoveryVars>>
    \/ part = "state" /\ StateNext
       /\ UNCHANGED <<part, secureBootVars, storageVars, serviceVars, cephVars, backupVars, resetVars, recoveryVars>>
    \/ part = "backup" /\ BackupNext
       /\ UNCHANGED <<part, secureBootVars, storageVars, serviceVars, cephVars, stateVars, resetVars, recoveryVars>>
    \/ part = "reset" /\ ResetNext
       /\ UNCHANGED <<part, secureBootVars, storageVars, serviceVars, cephVars, stateVars, backupVars, recoveryVars>>
    \/ part = "recovery" /\ RecoveryNext
       /\ UNCHANGED <<part, secureBootVars, storageVars, serviceVars, cephVars, stateVars, backupVars, resetVars>>

hostVars ==
    <<part, secureBootVars, storageVars, serviceVars, cephVars, stateVars, backupVars, resetVars, recoveryVars>>

HostSpec == HostInit /\ [][HostNext]_hostVars

\* Every variable of every part of the host keeps its type: the states the code of Secure
\* Boot, storage, services, Ceph, state file, restore, reset and recovery can be in; a
\* volume is never bound to the measurement of a half written boot stub. (The parts a
\* behaviour is not about stay as they are at the start of it.)
HostTypeOK ==
    /\ part = "secureboot" => SecureBootTypeOK
    /\ part = "storage" => StorageTypeOK
    /\ part = "services" => ServicesTypeOK
    /\ part = "ceph" => CephTypeOK
    /\ part = "state" => StateTypeOK
    /\ part = "backup" => BackupTypeOK
    /\ part = "reset" => ResetTypeOK
    /\ part = "recovery" => RecoveryTypeOK
=============================================================================
