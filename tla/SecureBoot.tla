------------------------------ MODULE SecureBoot ------------------------------
(***************************************************************************)
(* Secure Boot certificates, TPM bindings and recovery keys of the two     *)
(* LUKS volumes of an IncusOS system.                                      *)
(*                                                                         *)
(* The root volume is unlocked in the initrd by the TPM, if the PCR values *)
(* of the boot are the ones the volume is bound to, or by a passphrase.    *)
(* Every change of the EFI variables, of the systemd-boot stub, or of the  *)
(* key that signs the images changes the PCR values of the next boot, so   *)
(* incus-osd predicts them and binds each volume again, one command at a   *)
(* time, unlocking it with a recovery key it keeps in a file per volume.   *)
(*                                                                         *)
(* PCR7 is a record of what it measures: the state of Secure Boot, the EFI *)
(* variables, and the authorities (the certificates the loaded binaries    *)
(* are signed by, each measured once). PCR4 is the pair of loaded binaries.*)
(***************************************************************************)
EXTENDS Integers, FiniteSets, Sequences

CONSTANTS
    Certs,        \* certificates that sign images
    MaxOSRelease, \* OS releases 1 .. MaxOSRelease, newer ones are greater
    SignedBy,     \* the certificate of each release (and of its boot stub)
    Embedded,     \* the certificates embedded in the daemon of each release
    Archives,     \* the published updates in order: certificates to add to KEK, db, dbx
    AutoKey,      \* the recovery key that is generated on the first boot
    UserKeys,     \* passphrases a user may add
    InitialSB,    \* whether Secure Boot may be enabled or disabled at first
    Trouble       \* how many failures, power losses and outside changes

OSReleases == 1 .. MaxOSRelease
Keys == {AutoKey} \cup UserKeys
LUKSVolumes == {"root", "swap"}
EFIVariables == {"KEK", "db", "dbx"}
NoKey == "none"

ASSUME ReleaseAssumption == MaxOSRelease \in Nat \ {0}
ASSUME CertAssumption ==
    /\ SignedBy \in [OSReleases -> Certs]
    /\ Embedded \in [OSReleases -> SUBSET Certs]
    /\ Archives \in Seq([EFIVariables -> SUBSET Certs]) \ {<<>>}
    /\ "torn" \notin Certs
ASSUME KeyAssumption == AutoKey \notin UserKeys /\ NoKey \notin Keys
ASSUME BoundAssumption == InitialSB \subseteq BOOLEAN /\ Trouble \in Nat

VARIABLES
    sb,        \* Secure Boot is enabled in the firmware
    efi,       \* EFI variables: KEK, db, dbx
    stub,      \* who signed the two copies of systemd-boot; "torn" while half written
    ukis,      \* releases whose image is installed
    log,       \* TPM event log of this boot: uki, the stub that was loaded, sb, efi, auth
    tpmGood,   \* IncusOSTPMState: the TPM unlocked root in the initrd
    pem,       \* certificate in /run/systemd/tpm2-pcr-public-key.pem
    bound,     \* what each volume's TPM slot is bound to: pcr4 is the set of values it accepts
    keyFile,   \* recovery.<volume>.key: "none", "stale" (wiped since) or "enrolled"
    keySlots,  \* passphrases enrolled in each volume
    listed,    \* state.System.Security.Config.EncryptionRecoveryKeys
    savedKeys, \* the same in the state file
    known,     \* keys the user has retrieved
    reboot,    \* state.System.Update.State.NeedsReboot
    certArchive, \* the certificate update that is published
    certsApplied, \* it is recorded as fully applied
    op,        \* what the daemon is doing
    trouble    \* troubles left

firmwareVars == <<sb, efi>>
imageVars == <<stub, ukis>>
keyVars == <<keyFile, keySlots, listed, savedKeys, known>>
updates == <<certArchive, certsApplied>>
secureBootVars == <<sb, efi, stub, ukis, log, tpmGood, pem, bound, keyVars, reboot, updates, op, trouble>>

\* Where the daemon is: the step, the volumes left, the step after a binding loop,
\* the binding or the release it is about, and the keys of a PUT request.
NoBinding == [pcr4 |-> {}, key |-> NoKey, pcr15 |-> FALSE,
              pcr7 |-> [sb |-> FALSE, efi |-> [var \in EFIVariables |-> {}], auth |-> <<>>]]
NoOp == [at |-> "idle", todo |-> {}, next |-> "idle", to |-> NoBinding, rel |-> 0,
         vars |-> {}, key |-> NoKey, want |-> {}, keep |-> {}, startup |-> FALSE]
InStep(step) == op.at = step
Goto(step) == op' = [op EXCEPT !.at = step]
EndOperation == op' = NoOp

RunningRelease == log.uki
SBEnabled == log.sb
\* GetCertificatesFromVar: the variable, or what is embedded in the daemon.
CertsFromVar(var) ==
    IF SBEnabled THEN efi[var]
    ELSE IF var = "dbx" THEN {} ELSE Embedded[RunningRelease]

---------------------------------------------------------------------------
(* What the firmware and the TPM do *)

\* The firmware loads the first copy of systemd-boot that is not damaged.
LoadedStub == IF stub["systemd"] # "torn" THEN "systemd" ELSE "boot"
Authorities(s, u) == IF s = SignedBy[u] THEN <<s>> ELSE <<s, SignedBy[u]>>
Measure(u) ==
    LET s == stub[LoadedStub]
    IN  [uki |-> u, path |-> LoadedStub, stub |-> s, sb |-> sb, efi |-> efi,
         auth |-> IF sb THEN Authorities(s, u) ELSE <<>>]

PCR7(m) == [sb |-> m.sb, efi |-> m.efi, auth |-> m.auth]
PCR4(m) == <<m.stub, m.uki>>
\* The TPM releases the key of a slot if all the values match, and after the initrd
\* only if the slot is not bound to an empty PCR15.
Matches(b, m) ==
    /\ b.pcr7 = PCR7(m)
    /\ PCR4(m) \in b.pcr4
    /\ b.key = SignedBy[m.uki]
TPMUnlocksNow(v) == Matches(bound[v], log) /\ ~bound[v].pcr15

\* The firmware accepts signatures of db that dbx does not revoke; without Secure Boot
\* the initrd checks the loaded binaries against the embedded certificates
\* (ValidatePEBinaries).
Accepted(s, u) ==
    /\ stub[LoadedStub] # "torn"
    /\ {s, SignedBy[u]} \subseteq (IF sb THEN efi["db"] \ efi["dbx"] ELSE Embedded[u])

---------------------------------------------------------------------------
(* PCR predictions *)

\* Mutant: the authorities are taken from the log, as if the boot stub stayed the same.
PredictsFromOldStub == [sb |-> SBEnabled, efi |-> efi, auth |-> log.auth]

\* computeNewPCR7Value: variables are read again, and every authority of the log that
\* is one of ours becomes the certificate of the current boot stub.
NewPCR7 ==
    [sb |-> SBEnabled, efi |-> efi,
     auth |-> [i \in DOMAIN log.auth |-> stub["boot"]]]
\* computeNewPCR4Value: the binaries are read again, the image is the one given.
NewPCR4(u) == <<stub[log.path], u>>

\* A binding that leaves PCR4 out accepts all of its values.
AnyPCR4 == Certs \X OSReleases
Binding(pcr4, pcr7, key) == [pcr4 |-> pcr4, pcr7 |-> pcr7, key |-> key, pcr15 |-> TRUE]
\* The binding for a boot of image u; PCR4 is only used without Secure Boot.
KeyChangeBinding(u) ==
    Binding(IF SBEnabled THEN AnyPCR4 ELSE {NewPCR4(u)}, NewPCR7, SignedBy[u])
PCR4Binding(u) == Binding({NewPCR4(u)}, PCR7(log), pem)
\* ForceUpdatePCRBindings takes the values of the TPM as they are.
CurrentBinding ==
    Binding(IF SBEnabled THEN AnyPCR4 ELSE {PCR4(log)}, PCR7(log), SignedBy[RunningRelease])

---------------------------------------------------------------------------
(* Binding loops *)

\* Start a loop over the volumes; afterwards the daemon goes on at next.
Rebind(binding, next) ==
    [op EXCEPT !.at = "rebind", !.todo = LUKSVolumes, !.to = binding, !.next = next]

\* A volume is unlocked with its key file, or in ForceUpdatePCRBindings of a system
\* without key files with a listed passphrase.
CanRebind(v) ==
    \/ keyFile[v] = "enrolled"
    \/ /\ op.next = "reboot"
       /\ keyFile["root"] = "none"
       /\ savedKeys \cap keySlots[v] # {}

RebindVolume(v) ==
    /\ InStep("rebind")
    /\ v \in op.todo
    /\ CanRebind(v)
    /\ bound' = [bound EXCEPT ![v] = op.to]
    /\ op' = IF op.todo = {v} THEN [op EXCEPT !.at = op.next, !.todo = {}]
             ELSE [op EXCEPT !.todo = @ \ {v}]
    /\ UNCHANGED <<firmwareVars, imageVars, log, tpmGood, pem, keyVars, reboot, updates, trouble>>

---------------------------------------------------------------------------
(* Errors: startup saves the state and the daemon is restarted; an update check or a
   request ends. A failing KEK update is only a warning. *)
Startup == {"start", "generate", "enroll", "passwords", "bind15"}
InStartup == op.at \in Startup \/ (InStep("rebind") /\ op.next \in {"bind15", "check"})

Abort ==
    /\ \/ /\ InStartup
          /\ savedKeys' = listed
          /\ op' = [NoOp EXCEPT !.at = "start"]
       \/ /\ ~InStartup
          /\ op.next = "certsReboot" /\ "KEK" \in op.vars
          /\ op' = [NoOp EXCEPT !.at = "certs", !.vars = op.vars \ {"KEK"}, !.startup = op.startup]
          /\ UNCHANGED savedKeys
       \/ /\ ~InStartup
          /\ ~(op.next = "certsReboot" /\ "KEK" \in op.vars)
          /\ savedKeys' = IF op.startup THEN listed ELSE savedKeys
          /\ EndOperation
    /\ UNCHANGED <<firmwareVars, imageVars, log, tpmGood, pem, bound, keyFile, keySlots, listed, known, reboot, updates>>

\* A command that cannot be carried out.
RebindImpossible ==
    /\ InStep("rebind")
    /\ \E v \in op.todo : ~CanRebind(v)
    /\ Abort
    /\ UNCHANGED trouble

MayFail == trouble > 0

\* Any command may fail.
Fault ==
    /\ MayFail
    /\ op.at \notin {"idle", "off", "start", "check", "bind15", "reboot"}
    /\ Abort
    /\ trouble' = trouble - 1

---------------------------------------------------------------------------
(* Startup: recovery keys and the first bindings *)

StartKeys ==
    /\ InStep("start")
    /\ IF listed = {} \/ (keyFile["root"] = "none" /\ TPMUnlocksNow("root"))
       THEN Goto("generate") ELSE Goto("bind15")
    /\ UNCHANGED <<firmwareVars, imageVars, log, tpmGood, pem, bound, keyVars, reboot, updates, trouble>>

\* GenerateRecoveryKeys makes a common key first, if there is none.
GenerateCommon ==
    /\ InStep("generate")
    /\ listed # {} \/ TPMUnlocksNow("root")
    /\ listed' = IF listed = {} THEN {AutoKey} ELSE listed
    /\ op' = [op EXCEPT !.at = "enroll", !.todo = LUKSVolumes,
                        !.next = IF listed = {} /\ ~SBEnabled THEN "pcr4" ELSE "bind15"]
    /\ UNCHANGED <<firmwareVars, imageVars, log, tpmGood, pem, bound, keyFile, keySlots, savedKeys, known, reboot, updates, trouble>>

\* Each volume is wiped of its passphrases ...
GenerateWipe(v) ==
    /\ InStep("enroll")
    /\ v \in op.todo
    /\ op.key = NoKey
    /\ TPMUnlocksNow(v)
    /\ keySlots' = [keySlots EXCEPT ![v] = {}]
    /\ keyFile' = [keyFile EXCEPT ![v] = IF @ = "none" THEN "none" ELSE "stale"]
    /\ op' = [op EXCEPT !.key = v]
    /\ UNCHANGED <<firmwareVars, imageVars, log, tpmGood, pem, bound, listed, savedKeys, known, reboot, updates, trouble>>

\* ... and gets a recovery key of its own, written to a file.
GenerateEnroll(v) ==
    /\ InStep("enroll")
    /\ op.key = v
    /\ keyFile' = [keyFile EXCEPT ![v] = "enrolled"]
    /\ op' = IF op.todo = {v} THEN [op EXCEPT !.at = "passwords", !.todo = LUKSVolumes, !.key = NoKey]
             ELSE [op EXCEPT !.todo = @ \ {v}, !.key = NoKey]
    /\ UNCHANGED <<firmwareVars, imageVars, log, tpmGood, pem, bound, keySlots, listed, savedKeys, known, reboot, updates, trouble>>

\* Finally every listed key is enrolled in every volume. Without Secure Boot the first
\* boot binds to PCR4 as well.
GeneratePasswords(v) ==
    /\ InStep("passwords")
    /\ v \in op.todo
    /\ TPMUnlocksNow(v)
    /\ keySlots' = [keySlots EXCEPT ![v] = @ \cup listed]
    /\ op' = IF op.todo # {v} THEN [op EXCEPT !.todo = @ \ {v}]
             ELSE IF op.next = "pcr4" THEN Rebind(PCR4Binding(RunningRelease), "bind15")
             ELSE [op EXCEPT !.at = "bind15", !.todo = {}]
    /\ UNCHANGED <<firmwareVars, imageVars, log, tpmGood, pem, bound, keyFile, listed, savedKeys, known, reboot, updates, trouble>>

\* The TPM no longer releases the key that a generation step needs.
GenerateImpossible ==
    /\ \/ InStep("generate") /\ listed = {} /\ ~TPMUnlocksNow("root")
       \/ InStep("enroll") /\ op.key = NoKey /\ \E v \in op.todo : ~TPMUnlocksNow(v)
       \/ InStep("passwords") /\ \E v \in op.todo : ~TPMUnlocksNow(v)
    /\ Abort
    /\ UNCHANGED trouble

\* Volumes that are not bound to an empty PCR15 are bound again for the same boot.
StartBindings ==
    /\ InStep("bind15")
    /\ op' = IF bound["root"].pcr15 THEN [NoOp EXCEPT !.at = "check", !.startup = TRUE]
             ELSE [Rebind(KeyChangeBinding(RunningRelease), "check") EXCEPT !.startup = TRUE]
    /\ UNCHANGED <<firmwareVars, imageVars, log, tpmGood, pem, bound, keyVars, reboot, updates, trouble>>

---------------------------------------------------------------------------
(* An update check: certificates first, then the OS *)

StartCheck ==
    /\ InStep("idle") \/ InStep("check")
    /\ LET startup == InStep("check")
           certs == SBEnabled /\ ~reboot /\ ~certsApplied
       IN  op' = [NoOp EXCEPT !.at = IF certs THEN "certs" ELSE "os",
                              !.vars = EFIVariables, !.startup = startup]
    /\ UNCHANGED <<firmwareVars, imageVars, log, tpmGood, pem, bound, keyVars, reboot, updates, trouble>>

Pending(var) == Archives[certArchive][var] \ efi[var]
\* KEK, then db, then dbx.
NextVariable(var) ==
    /\ var \in op.vars /\ Pending(var) # {}
    /\ var # "KEK" => ("KEK" \notin op.vars \/ Pending("KEK") = {})
    /\ var = "dbx" => ("db" \notin op.vars \/ Pending("db") = {})

\* Mutant: only the running image is checked.
WouldBrickRunning(cert) == SignedBy[RunningRelease] = cert

\* checkDbxUpdateWouldBrickUKI
WouldBrick(cert) == \E u \in ukis : SignedBy[u] = cert

\* The provider publishes the next update.
PublishCerts ==
    /\ certArchive < Len(Archives)
    /\ InStep("idle")
    /\ certArchive' = certArchive + 1
    /\ certsApplied' = FALSE
    /\ UNCHANGED <<firmwareVars, imageVars, log, tpmGood, pem, bound, keyVars, reboot, op, trouble>>

\* UpdateSecureBootCerts adds one certificate and binds the volumes to the predicted
\* PCR7; a reboot comes before the next one.
AppendCert(var, cert) ==
    /\ InStep("certs")
    /\ NextVariable(var)
    /\ cert \in Pending(var)
    /\ var = "dbx" => ~WouldBrick(cert)
    /\ efi' = [efi EXCEPT ![var] = @ \cup {cert}]
    /\ op' = [op EXCEPT !.at = "rebindCerts"]
    /\ UNCHANGED <<sb, imageVars, log, tpmGood, pem, bound, keyVars, reboot, updates, trouble>>

\* The prediction reads the variables after the update.
PredictCerts ==
    /\ InStep("rebindCerts")
    /\ stub["boot"] # "torn"
    /\ op' = Rebind(Binding(AnyPCR4, NewPCR7, pem), "certsReboot")
    /\ UNCHANGED <<firmwareVars, imageVars, log, tpmGood, pem, bound, keyVars, reboot, updates, trouble>>

\* A revocation that would stop an installed image from booting ends the check.
RefuseDbx(cert) ==
    /\ InStep("certs")
    /\ NextVariable("dbx")
    /\ cert \in Pending("dbx")
    /\ WouldBrick(cert)
    /\ Abort
    /\ UNCHANGED trouble

\* During startup the system reboots, otherwise the check goes on with the OS.
CertAppended ==
    /\ InStep("certsReboot")
    /\ reboot' = TRUE
    /\ op' = [op EXCEPT !.at = IF op.startup THEN "reboot" ELSE "os", !.next = "idle"]
    /\ UNCHANGED <<firmwareVars, imageVars, log, tpmGood, pem, bound, keyVars, updates, trouble>>

CertsComplete ==
    /\ InStep("certs")
    /\ \A var \in op.vars : Pending(var) = {}
    /\ certsApplied' = TRUE
    /\ Goto("os")
    /\ UNCHANGED <<firmwareVars, imageVars, log, tpmGood, pem, bound, keyVars, reboot, certArchive, trouble>>

\* Nothing to install; startup ends with a save.
NoOSUpdate ==
    /\ InStep("os")
    /\ savedKeys' = IF op.startup THEN listed ELSE savedKeys
    /\ EndOperation
    /\ UNCHANGED <<firmwareVars, imageVars, log, tpmGood, pem, bound, keyFile, keySlots, listed, known, reboot, updates, trouble>>

\* getTrustedVerityCertificate: the certificate is in db, and was when the kernel read
\* its keyring at boot.
Trusted(cert) == cert \in CertsFromVar("db") /\ (SBEnabled => cert \in log.efi["db"])
\* validatePKICertificate
ValidPKI(cert) == cert \in CertsFromVar("db") /\ cert \notin CertsFromVar("dbx")

\* The provider's latest release; it never goes back.
Newer(r) == \A u \in ukis : r > u

\* ApplySystemUpdate: a release that is signed by another key replaces the stub first;
\* without Secure Boot the volumes are bound to the new image's PCR4.
OSUpdate(r) ==
    /\ InStep("os")
    /\ Newer(r)
    /\ Trusted(SignedBy[r])
    /\ SignedBy[r] # pem => ValidPKI(SignedBy[r])
    /\ SignedBy[r] = pem /\ ~SBEnabled => stub[log.path] # "torn"
    /\ op' = LET o == [op EXCEPT !.rel = r]
             IN  IF SignedBy[r] # pem THEN [o EXCEPT !.at = "stub1"]
                 ELSE IF ~SBEnabled
                 THEN [o EXCEPT !.at = "rebind", !.todo = LUKSVolumes, !.to = PCR4Binding(r), !.next = "install"]
                 ELSE [o EXCEPT !.at = "install"]
    /\ UNCHANGED <<firmwareVars, imageVars, log, tpmGood, pem, bound, keyVars, reboot, updates, trouble>>

\* Nothing can be predicted from half a boot stub.
PredictionImpossible ==
    /\ \/ InStep("rebindCerts") /\ stub["boot"] = "torn"
       \/ /\ InStep("os") /\ ~SBEnabled /\ stub[log.path] = "torn"
          /\ \E r \in OSReleases : Newer(r) /\ SignedBy[r] = pem
    /\ Abort
    /\ UNCHANGED trouble

\* updateEFIBootStub copies the stub twice, and a copy is not atomic.
CopyStub(step, path, next) ==
    /\ InStep(step)
    /\ stub' = [stub EXCEPT ![path] = IF @ = "torn" THEN SignedBy[op.rel] ELSE "torn"]
    /\ IF stub[path] = "torn" THEN Goto(next) ELSE UNCHANGED op
    /\ UNCHANGED <<firmwareVars, ukis, log, tpmGood, pem, bound, keyVars, reboot, updates, trouble>>

\* The new public key is written before the volumes are bound.
ChangeKey ==
    /\ InStep("key")
    /\ pem' = SignedBy[op.rel]
    /\ op' = Rebind(KeyChangeBinding(op.rel), "install")
    /\ UNCHANGED <<firmwareVars, imageVars, log, tpmGood, bound, keyVars, reboot, updates, trouble>>

\* systemd-sysupdate replaces the image that is not running. During startup the system
\* reboots, otherwise the user does.
InstallImage ==
    /\ InStep("install")
    /\ ukis' = {RunningRelease, op.rel}
    /\ reboot' = ~op.startup
    /\ savedKeys' = listed
    /\ IF op.startup THEN op' = [op EXCEPT !.at = "reboot"] ELSE EndOperation
    /\ UNCHANGED <<firmwareVars, stub, log, tpmGood, pem, bound, keyFile, keySlots, listed, known, updates, trouble>>

---------------------------------------------------------------------------
(* Requests of the security API *)

\* POST :retrieved, after the user read the keys.
Retrieve ==
    /\ InStep("idle")
    /\ known' = known \cup listed
    /\ savedKeys' = listed
    /\ UNCHANGED <<firmwareVars, imageVars, log, tpmGood, pem, bound, keyFile, keySlots, listed, reboot, updates, op, trouble>>

\* PUT with the keys that are to stay.
PutKeys(want) ==
    /\ InStep("idle")
    /\ op' = [NoOp EXCEPT !.at = "put", !.want = want]
    /\ UNCHANGED <<firmwareVars, imageVars, log, tpmGood, pem, bound, keyVars, reboot, updates, trouble>>

\* Keys are added first, then the others removed, and the state is saved.
PutNext ==
    /\ InStep("put")
    /\ \/ \E k \in op.want \ listed : op' = [op EXCEPT !.at = "addKey", !.key = k, !.todo = LUKSVolumes, !.next = "put"]
       \/ /\ op.want \subseteq listed
          /\ \E k \in listed \ op.want : op' = [op EXCEPT !.at = "wipe", !.key = k, !.todo = LUKSVolumes]
    /\ UNCHANGED <<firmwareVars, imageVars, log, tpmGood, pem, bound, keyVars, reboot, updates, trouble>>

PutDone ==
    /\ InStep("put")
    /\ op.want = listed
    /\ savedKeys' = listed
    /\ known' = known \cup op.want
    /\ EndOperation
    /\ UNCHANGED <<firmwareVars, imageVars, log, tpmGood, pem, bound, keyFile, keySlots, listed, reboot, updates, trouble>>

\* Mutant: the key is listed with the first volume.
AddKeyOneVolume(v) ==
    /\ InStep("addKey")
    /\ v \in op.todo
    /\ keySlots' = [keySlots EXCEPT ![v] = @ \cup {op.key}]
    /\ listed' = listed \cup {op.key}
    /\ op' = [op EXCEPT !.at = op.next, !.todo = {}]
    /\ UNCHANGED <<firmwareVars, imageVars, log, tpmGood, pem, bound, keyFile, savedKeys, known, reboot, updates, trouble>>

\* AddEncryptionKey enrolls the key in every volume and then lists it.
AddKeyVolume(v) ==
    /\ InStep("addKey")
    /\ v \in op.todo
    /\ keyFile[v] = "enrolled"
    /\ keySlots' = [keySlots EXCEPT ![v] = @ \cup {op.key}]
    /\ IF op.todo = {v}
       THEN /\ listed' = listed \cup {op.key}
            /\ op' = [op EXCEPT !.at = op.next, !.todo = {}]
       ELSE /\ op' = [op EXCEPT !.todo = @ \ {v}]
            /\ UNCHANGED listed
    /\ UNCHANGED <<firmwareVars, imageVars, log, tpmGood, pem, bound, keyFile, savedKeys, known, reboot, updates, trouble>>

\* DeleteEncryptionKey wipes the passphrases of every volume ...
WipeVolume(v) ==
    /\ InStep("wipe")
    /\ v \in op.todo
    /\ keyFile[v] = "enrolled"
    /\ keySlots' = [keySlots EXCEPT ![v] = {}]
    /\ IF op.todo = {v}
       THEN /\ listed' = {}
            /\ op' = [op EXCEPT !.at = "readd", !.keep = listed \ {op.key}, !.todo = {}]
       ELSE /\ op' = [op EXCEPT !.todo = @ \ {v}]
            /\ UNCHANGED listed
    /\ UNCHANGED <<firmwareVars, imageVars, log, tpmGood, pem, bound, keyFile, savedKeys, known, reboot, updates, trouble>>

\* Mutant: the remaining keys are listed and not enrolled.
ReaddNothing ==
    /\ InStep("readd")
    /\ listed' = op.keep
    /\ Goto("put")
    /\ UNCHANGED <<firmwareVars, imageVars, log, tpmGood, pem, bound, keyFile, keySlots, savedKeys, known, reboot, updates, trouble>>

\* ... and adds the remaining ones again.
ReaddKeys ==
    /\ InStep("readd")
    /\ IF op.keep \subseteq listed THEN Goto("put")
       ELSE \E k \in op.keep \ listed :
                op' = [op EXCEPT !.at = "addKey", !.key = k, !.todo = LUKSVolumes, !.next = "readd"]
    /\ UNCHANGED <<firmwareVars, imageVars, log, tpmGood, pem, bound, keyVars, reboot, updates, trouble>>

\* POST :tpm-rebind, refused while the TPM could unlock the system; it ends in a reboot.
ForceUpdatePCRBindings ==
    /\ InStep("idle")
    /\ ~tpmGood
    /\ pem' = SignedBy[RunningRelease]
    /\ op' = Rebind(CurrentBinding, "reboot")
    /\ UNCHANGED <<firmwareVars, imageVars, log, tpmGood, bound, keyVars, reboot, updates, trouble>>

---------------------------------------------------------------------------
(* Boots *)

\* A clean shutdown saves the state.
Reboot ==
    /\ InStep("idle") \/ InStep("reboot")
    /\ savedKeys' = listed
    /\ op' = [NoOp EXCEPT !.at = "off"]
    /\ UNCHANGED <<firmwareVars, imageVars, log, tpmGood, pem, bound, keyFile, keySlots, listed, known, reboot, updates, trouble>>

PowerLoss ==
    /\ MayFail
    /\ ~InStep("off")
    /\ trouble' = trouble - 1
    /\ op' = [NoOp EXCEPT !.at = "off"]
    /\ UNCHANGED <<firmwareVars, imageVars, log, tpmGood, pem, bound, keyVars, reboot, updates>>

\* A passphrase the user knows opens root.
Passphrase == known \cap keySlots["root"] # {}
TPMUnlocks(u) == Matches(bound["root"], Measure(u))

BootInto(u) ==
    /\ Accepted(stub[LoadedStub], u)
    /\ TPMUnlocks(u) \/ Passphrase
    /\ log' = Measure(u)
    /\ tpmGood' = TPMUnlocks(u)
    /\ pem' = SignedBy[u]
    /\ listed' = savedKeys
    /\ reboot' = FALSE
    /\ op' = [NoOp EXCEPT !.at = "start"]

Newest == CHOOSE u \in ukis : \A w \in ukis : w <= u

\* systemd-boot starts the newest image.
BootNewest ==
    /\ InStep("off")
    /\ BootInto(Newest)
    /\ UNCHANGED <<firmwareVars, imageVars, bound, keyFile, keySlots, savedKeys, known, updates, trouble>>

\* Outside changes while the system is off: the older image is chosen, Secure Boot is
\* switched, or the TPM replaced.
BootOlder ==
    /\ InStep("off") /\ MayFail
    /\ \E u \in ukis \ {Newest} : BootInto(u)
    /\ trouble' = trouble - 1
    /\ UNCHANGED <<firmwareVars, imageVars, bound, keyFile, keySlots, savedKeys, known, updates>>

SwitchSecureBoot ==
    /\ InStep("off") /\ MayFail
    /\ sb' = ~sb
    /\ trouble' = trouble - 1
    /\ UNCHANGED <<efi, imageVars, log, tpmGood, pem, bound, keyVars, reboot, updates, op>>

ReplaceTPM ==
    /\ InStep("off") /\ MayFail
    /\ bound' = [v \in LUKSVolumes |-> [bound[v] EXCEPT !.pcr4 = {}]]
    /\ trouble' = trouble - 1
    /\ UNCHANGED <<firmwareVars, imageVars, log, tpmGood, pem, keyVars, reboot, updates, op>>
---------------------------------------------------------------------------
\* A system that was just installed: systemd-repart bound the volumes to PCR7.
SecureBootInit ==
    /\ sb \in InitialSB
    /\ efi = [KEK |-> {}, db |-> {SignedBy[1]}, dbx |-> {}]
    /\ stub = [systemd |-> SignedBy[1], boot |-> SignedBy[1]]
    /\ ukis = {1}
    /\ log = Measure(1)
    /\ tpmGood = TRUE
    /\ pem = SignedBy[1]
    /\ bound = [v \in LUKSVolumes |->
                   [pcr4 |-> AnyPCR4, pcr7 |-> PCR7(log), key |-> SignedBy[1], pcr15 |-> FALSE]]
    /\ keyFile = [v \in LUKSVolumes |-> "none"]
    /\ keySlots = [v \in LUKSVolumes |-> {}]
    /\ listed = {} /\ savedKeys = {} /\ known = {}
    /\ reboot = FALSE /\ certArchive = 1 /\ certsApplied = FALSE
    /\ op = [NoOp EXCEPT !.at = "start"]
    /\ trouble = Trouble

Daemon ==
    \/ StartKeys \/ GenerateCommon \/ GenerateImpossible \/ StartBindings
    \/ \E v \in LUKSVolumes : \/ GenerateWipe(v) \/ GenerateEnroll(v) \/ GeneratePasswords(v)
                          \/ RebindVolume(v) \/ AddKeyVolume(v) \/ WipeVolume(v)
    \/ RebindImpossible \/ PredictionImpossible
    \/ \E var \in EFIVariables, cert \in Certs : AppendCert(var, cert)
    \/ PredictCerts \/ CertAppended \/ CertsComplete
    \/ \E cert \in Certs : RefuseDbx(cert)
    \/ CopyStub("stub1", "systemd", "stub2") \/ CopyStub("stub2", "boot", "key")
    \/ ChangeKey \/ InstallImage
    \/ PutNext \/ PutDone \/ ReaddKeys

SecureBootNext ==
    \/ Daemon
    \/ StartCheck \/ NoOSUpdate \/ \E r \in OSReleases : OSUpdate(r)
    \/ PublishCerts
    \/ Retrieve \/ \E want \in (SUBSET Keys) \ {{}} : PutKeys(want)
    \/ ForceUpdatePCRBindings
    \/ Reboot \/ BootNewest
    \/ Fault \/ PowerLoss \/ BootOlder \/ SwitchSecureBoot \/ ReplaceTPM

SecureBootSpec == SecureBootInit /\ [][SecureBootNext]_secureBootVars

\* The service is restarted, checks are periodic and users reboot when they are told to;
\* a newer release that can be installed is installed.
SecureBootFairSpec ==
    /\ SecureBootSpec
    /\ WF_secureBootVars(Daemon) /\ WF_secureBootVars(StartCheck)
    /\ WF_secureBootVars(NoOSUpdate) /\ WF_secureBootVars(BootNewest)
    /\ WF_secureBootVars(reboot /\ Reboot) /\ WF_secureBootVars(InStep("reboot") /\ Reboot)
    /\ \A r \in OSReleases : SF_secureBootVars(OSUpdate(r))
---------------------------------------------------------------------------
(* Properties *)

Measurement == [uki : OSReleases, path : {"systemd", "boot"}, stub : Certs, sb : BOOLEAN,
                efi : [EFIVariables -> SUBSET Certs], auth : Seq(Certs)]
SlotStates ==
    [pcr4 : SUBSET AnyPCR4, key : Certs, pcr15 : BOOLEAN,
     pcr7 : [sb : BOOLEAN, efi : [EFIVariables -> SUBSET Certs], auth : Seq(Certs)]]

\* The firmware, the bindings, the keys and the daemon's step are well formed: a
\* volume is never bound to the measurement of a half written boot stub, whatever
\* fails while updateEFIBootStub copies it.
SecureBootTypeOK ==
    /\ sb \in BOOLEAN /\ efi \in [EFIVariables -> SUBSET Certs]
    /\ stub \in [{"systemd", "boot"} -> Certs \cup {"torn"}]
    /\ ukis \in SUBSET OSReleases /\ Cardinality(ukis) \in 1 .. 2
    /\ log \in Measurement /\ log.uki \in ukis
    /\ tpmGood \in BOOLEAN /\ pem \in Certs
    /\ bound \in [LUKSVolumes -> SlotStates]
    /\ keyFile \in [LUKSVolumes -> {"none", "stale", "enrolled"}]
    /\ keySlots \in [LUKSVolumes -> SUBSET Keys]
    /\ {listed, savedKeys, known} \subseteq SUBSET Keys
    /\ reboot \in BOOLEAN /\ certArchive \in DOMAIN Archives /\ certsApplied \in BOOLEAN
    /\ trouble \in 0 .. Trouble

\* One trouble never locks the user out: whatever single command fails or wherever the
\* power is lost, and whichever outside change is made, the system that is switched on
\* next is unlocked by the TPM or by a recovery key the user has retrieved, provided
\* the first boot got as far as a recovery key of its own for every volume.
NeverLockedOut ==
    InStep("off") /\ known # {} /\ (\A v \in LUKSVolumes : keyFile[v] = "enrolled")
        => TPMUnlocks(Newest) \/ Passphrase

\* As long as nothing went wrong, no certificate update, key change, OS update or
\* change of the recovery keys stops the TPM from unlocking the next boot: the PCR
\* values predicted for it are the ones the firmware will measure.
PredictionsHold ==
    InStep("off") /\ trouble = Trouble => TPMUnlocks(Newest)

\* As long as nothing went wrong, the recovery keys the API lists are exactly the ones
\* that open every volume, between any two operations and across reboots.
ListedKeysWork ==
    /\ InStep("idle") /\ trouble = Trouble => \A v \in LUKSVolumes : keySlots[v] = listed
    /\ InStep("off") /\ trouble = Trouble => \A v \in LUKSVolumes : keySlots[v] = savedKeys

\* The firmware keeps accepting the installed images and the boot stub: neither the
\* revocation of a certificate, nor the two copies of a boot stub with a power loss
\* between them, leaves a system that does not start (switching Secure Boot aside).
ImagesAccepted ==
    InStep("off") /\ sb = log.sb => \A u \in ukis : Accepted(stub[LoadedStub], u)

\* The transition to a new signing key completes: a system whose provider publishes a
\* release signed by the new key and the certificate updates that go with it ends up
\* with that release installed.
RotationCompletes == <>(MaxOSRelease \in ukis)
=============================================================================
