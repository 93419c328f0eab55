------------------------------- MODULE Services -------------------------------
(***************************************************************************)
(* The system services: what an update, a reset, a boot and a shutdown do   *)
(* to the recorded configuration, to the files and connections a service   *)
(* is configured with and to its units. The services do not depend on each *)
(* other, so a behaviour is about one of them, svc.                        *)
(*                                                                         *)
(* A configuration is enabled or not and has a revision. What is on the    *)
(* system is a record: whether the units run (or devices are attached;     *)
(* Ceph has its directory /etc/ceph), the revision in effect (0 none,      *)
(* Mixed partly written), the host identity that iSCSI and NVMe generate   *)
(* once, and the revisions of which clusters' files (Ceph) or sessions     *)
(* (iSCSI) may be left. Every command may fail; a step of a service        *)
(* therefore has a set of outcomes.                                        *)
(***************************************************************************)
EXTENDS Integers, FiniteSets

CONSTANTS
    MaxRevision,        \* revisions a user may configure
    MaxServiceCalls,    \* how many requests are ever handled
    ServicePowerLosses  \* how often the power may be lost or the daemon killed

ASSUME ServicesAssumption ==
    /\ MaxRevision \in Nat \ {0} /\ MaxServiceCalls \in Nat /\ ServicePowerLosses \in Nat

\* The order is that of startup; see Supported.
Services == {"ceph", "iscsi", "linstor", "netbird", "nvme", "multipath", "lvm", "ovn", "tailscale", "usbip"}
Configs == [enabled : BOOLEAN, rev : 1 .. MaxRevision]
NoConfig == [enabled |-> FALSE, rev |-> 1]
Mixed == MaxRevision + 1

VARIABLES
    svc,        \* the service
    installed,  \* whether the application the service needs is installed
    conf,       \* the configuration in the state
    saved,      \* the configuration in the state file
    sys,        \* what is on the system
    call,       \* the update, reset or boot under way
    answered,   \* the configuration of the last update answered with success
    fine,       \* whether the last update or start of the service happened and succeeded
    seeded,     \* services_seed_applied, in the state file
    seedConf,   \* the services seed for svc, if there is one
    cut,        \* whether something stayed of an update that ended before it was saved (history)
    serviceCalls, powerLosses

serviceConst == <<svc, seedConf>>
serviceVars == <<serviceConst, installed, conf, saved, sys, call, answered, fine, seeded, cut, serviceCalls, powerLosses>>

Ok(r) == [sys |-> r, ok |-> TRUE]
Err(r) == [sys |-> r, ok |-> FALSE]
Up(r) == [r EXCEPT !.unit = TRUE]
DownUnit(r) == [r EXCEPT !.unit = FALSE]
Apply(r, rev) == [r EXCEPT !.applied = rev]
\* With revision rev in effect and the files or sessions of the revisions t.
Hold(r, rev, t) == [r EXCEPT !.applied = rev, !.traces = t]
\* What a failed command may leave of a configuration that is being written.
Partly(r) == {Err(r), Err(Apply(r, Mixed))}
---------------------------------------------------------------------------
(* Starting and stopping, service by service. Stop is only reached when enabled. *)

\* /etc/ceph is the service; a removal that fails may have removed a part of it.
CephStop(r) ==
    {Ok(Hold(DownUnit(r), 0, {})), Err(r)}
    \cup {Err(Hold(r, Mixed, t)) : t \in SUBSET r.traces}
\* The files of the clusters are written over those that are there; clusters that were removed
\* from the configuration keep theirs.
CephStart(r, c) ==
    LET with(t) == Hold(Up(r), c.rev, t \cup {c.rev})
    IN  {Err(r)} \cup UNION {{Ok(with(t)), Err(Apply(with(t), Mixed))} : t \in SUBSET r.traces}

\* A logout that fails is ignored.
IscsiStop(r) ==
    {Err(r)} \cup UNION {{Ok(Hold(DownUnit(r), 0, t)),
                         Err(Hold(r, Mixed, t))} : t \in SUBSET r.traces}
\* The file of the initiator name is created before the name is generated.
IscsiStart(r, c) ==
    LET n == [r EXCEPT !.identity = IF @ = "none" THEN "set" ELSE @]
        on == Hold(Up(n), c.rev, n.traces \cup {c.rev})
    IN  {Ok(on), Err(n), Err(Apply(Up(n), Mixed)), Err(Apply(on, Mixed)), Err(r)}
        \cup (IF r.identity = "none" THEN {Err([r EXCEPT !.identity = "empty"])} ELSE {})

LinstorStop(r) == {Ok(DownUnit(r)), Err(r)}
LinstorStart(r, c) == {Ok(Apply(Up(r), c.rev)), Err(Apply(r, c.rev))} \cup Partly(r)

NetbirdStop(r) == {Ok(DownUnit(r)), Err(r)}
NetbirdStart(r) == {Ok(Up(r)), Err(r)}
NetbirdConfigure(r, c) == {Ok(Apply(r, c.rev)), Err(r), Err(Apply(r, 0))}

NvmeStop(r) == {Ok(Apply(DownUnit(r), 0)), Err(Apply(r, 0))} \cup Partly(r)
\* As for iSCSI, the host NQN.
NvmeStart(r, c) ==
    LET n == [r EXCEPT !.identity = IF @ = "none" THEN "set" ELSE @]
    IN  {Ok(Apply(Up(n), c.rev)), Err(Apply(Up(n), Mixed)), Err(r)}
        \cup (IF r.identity = "none" THEN {Err([r EXCEPT !.identity = "empty"])} ELSE {})
NvmeReset(r, c) == {Ok(Apply(Up(r), c.rev)), Err(r)}

MultipathStop(r) == {Ok(Apply(DownUnit(r), 0)), Err(Apply(r, 0)), Err(r)}
MultipathStart(r, c) == {Ok(Apply(Up(r), c.rev)), Err(Apply(Up(r), c.rev))} \cup Partly(r)

LvmStop(r) == {Ok(DownUnit(r)), Err(r)}
LvmConfigure(r, c) == {Ok(Apply(r, c.rev)), Err(r)}
LvmStart(r, c) == {Ok(Apply(Up(r), c.rev)), Err(Apply(Up(r), c.rev)), Err(Apply(r, c.rev)), Err(r)}
\* The units are killed and started again.
LvmReset(r, c) == {Err(r), Err(DownUnit(r))} \cup LvmStart(DownUnit(r), c)

OvnStop(r) == {Ok(DownUnit(r)), Err(r)}
\* Without a tunnel address nothing is set.
OvnConfigure(r, c) == {Ok(Apply(Up(r), c.rev)), Err(r), Err(Apply(r, c.rev))}
OvnStart(r, c) == {Err(r)} \cup OvnConfigure(Up(r), c)
OvnReset(r) == {Ok(Up(r)), Err(r)}

TailscaleStop(r) == {Ok(DownUnit(r)), Err(r)}
TailscaleStart(r) == {Ok(Up(r)), Err(r)}
TailscaleConfigure(r, c) == {Ok(Apply(r, c.rev)), Err(r), Err(Apply(r, Mixed))}

\* Devices that cannot be attached are only warned about; none is ever detached.
UsbipStart(r, c) == {Ok(Apply(Up(r), c.rev)), Err(r)}

\* One after the other: the second only when the first succeeded.
Then(first, Second(_)) == UNION {IF o.ok THEN Second(o.sys) ELSE {o} : o \in first}

Stop(s, r) ==
    CASE s = "ceph" -> CephStop(r) [] s = "iscsi" -> IscsiStop(r) [] s = "linstor" -> LinstorStop(r)
      [] s = "netbird" -> NetbirdStop(r) [] s = "nvme" -> NvmeStop(r) [] s = "multipath" -> MultipathStop(r)
      [] s = "lvm" -> LvmStop(r) [] s = "ovn" -> OvnStop(r) [] s = "tailscale" -> TailscaleStop(r)
      [] OTHER -> {Ok(r)}

Start(s, r, c) ==
    CASE s = "ceph" -> CephStart(r, c) [] s = "iscsi" -> IscsiStart(r, c) [] s = "linstor" -> LinstorStart(r, c)
      [] s = "netbird" -> NetbirdStart(r) [] s = "nvme" -> NvmeStart(r, c) [] s = "multipath" -> MultipathStart(r, c)
      [] s = "lvm" -> LvmStart(r, c) [] s = "ovn" -> OvnStart(r, c) [] s = "tailscale" -> TailscaleStart(r)
      [] OTHER -> UsbipStart(r, c)
---------------------------------------------------------------------------
(* Update, service by service: whether the service is stopped first, and what is done *)
(* once the new configuration is in place                                             *)

CephUpdate(old, new, r) == IF new.enabled THEN CephStart(r, new) ELSE {Ok(r)}
IscsiUpdate(old, new, r) == IF new.enabled THEN IscsiStart(r, new) ELSE {Ok(r)}
LinstorUpdate(old, new, r) == IF new.enabled THEN LinstorStart(r, new) ELSE {Ok(r)}
NvmeUpdate(old, new, r) == IF new.enabled THEN NvmeStart(r, new) ELSE {Ok(r)}
NetbirdUpdate(old, new, r) ==
    LET configure(x) == NetbirdConfigure(x, new)
    IN  IF new.enabled THEN Then(NetbirdStart(r), configure) ELSE {Ok(r)}
MultipathUpdate(old, new, r) == IF new.enabled THEN MultipathStart(r, new) ELSE {Ok(r)}
LvmUpdate(old, new, r) ==
    IF ~old.enabled /\ new.enabled THEN LvmStart(r, new) ELSE LvmConfigure(r, new)
OvnUpdate(old, new, r) ==
    LET configure(x) == OvnConfigure(x, new)
    IN  IF ~new.enabled THEN {Ok(r)}
        ELSE IF old.enabled THEN OvnConfigure(r, new) ELSE Then(OvnStart(r, new), configure)
TailscaleUpdate(old, new, r) ==
    LET configure(x) == TailscaleConfigure(x, new)
    IN  IF new.enabled THEN Then(TailscaleStart(r), configure) ELSE {Ok(r)}
UsbipUpdate(old, new, r) == IF new.enabled THEN UsbipStart(r, new) ELSE {Ok(r)}

Update(s, old, new, r) ==
    CASE s = "ceph" -> CephUpdate(old, new, r) [] s = "iscsi" -> IscsiUpdate(old, new, r)
      [] s = "linstor" -> LinstorUpdate(old, new, r) [] s = "netbird" -> NetbirdUpdate(old, new, r)
      [] s = "nvme" -> NvmeUpdate(old, new, r) [] s = "multipath" -> MultipathUpdate(old, new, r)
      [] s = "lvm" -> LvmUpdate(old, new, r) [] s = "ovn" -> OvnUpdate(old, new, r)
      [] s = "tailscale" -> TailscaleUpdate(old, new, r) [] OTHER -> UsbipUpdate(old, new, r)

\* Mutant: the new configuration is recorded first, so that Stop finds a disabled service.
NeverStops(s, old, new) == s \in {"ceph", "iscsi", "linstor", "nvme"} /\ old.enabled
StopsFirst(s, old, new) ==
    /\ old.enabled
    /\ s \in {"ceph", "iscsi", "linstor", "nvme"} \/ (s # "usbip" /\ ~new.enabled)

\* The configuration recorded by an update whose outcome is ok or not. Multipath does not
\* record that it was disabled; Tailscale records only what it could apply.
Recorded(s, old, new, ok) ==
    CASE s = "multipath" /\ old.enabled /\ ~new.enabled -> old
      [] s = "tailscale" /\ ~ok -> old
      [] OTHER -> new
---------------------------------------------------------------------------
(* Requests *)

\* Supported: Ceph and LINSTOR need their application.
Supported(s) == s \in {"ceph", "linstor"} => installed

Idle == [at |-> "idle", new |-> NoConfig, ok |-> TRUE, boot |-> FALSE]
At(step) == call.at = step
GoTo(step) == call' = [call EXCEPT !.at = step]
ServiceCall == serviceCalls < MaxServiceCalls /\ serviceCalls' = serviceCalls + 1

\* PUT of a service: an unsupported one is not found; OVN and multipath check the request,
\* which changes nothing when it is refused.
ServicePut(new) ==
    /\ At("idle") /\ ServiceCall
    /\ Supported(svc)
    /\ call' = [Idle EXCEPT !.at = "stop", !.new = new]
    /\ UNCHANGED <<serviceConst, installed, conf, saved, sys, answered, fine, seeded, cut, powerLosses>>

UpdateStop ==
    /\ At("stop")
    /\ \E o \in IF StopsFirst(svc, conf, call.new) THEN Stop(svc, sys) ELSE {Ok(sys)} :
          /\ sys' = o.sys
          /\ call' = [call EXCEPT !.at = IF o.ok THEN "update" ELSE "save", !.ok = o.ok]
          /\ cut' = (cut /\ ~(StopsFirst(svc, conf, call.new) /\ o.ok))
    /\ UNCHANGED <<serviceConst, installed, conf, saved, answered, fine, seeded, serviceCalls, powerLosses>>

UpdateStart ==
    /\ At("update")
    /\ \E o \in Update(svc, conf, call.new, sys) :
          /\ sys' = o.sys
          /\ conf' = Recorded(svc, conf, call.new, o.ok)
          /\ call' = [call EXCEPT !.at = "save", !.ok = o.ok]
    /\ UNCHANGED <<serviceConst, installed, saved, answered, fine, seeded, serviceCalls, cut, powerLosses>>

\* The deferred Save, whatever the outcome, and the answer.
UpdateSave ==
    /\ At("save")
    /\ saved' = conf
    /\ fine' = call.ok
    /\ answered' = IF call.ok THEN {call.new} ELSE {}
    /\ call' = IF call.boot THEN [call EXCEPT !.at = "seeded"] ELSE Idle
    /\ UNCHANGED <<serviceConst, installed, conf, sys, seeded, serviceCalls, cut, powerLosses>>

\* POST of a reset, which few services have.
ServiceReset ==
    /\ At("idle") /\ ServiceCall
    /\ conf.enabled /\ svc \in {"lvm", "nvme", "ovn"}
    /\ \E o \in CASE svc = "lvm" -> LvmReset(sys, conf) [] svc = "nvme" -> NvmeReset(sys, conf) [] OTHER -> OvnReset(sys) :
          sys' = o.sys /\ fine' = (fine /\ o.ok)
    /\ UNCHANGED <<serviceConst, installed, conf, saved, call, answered, seeded, cut, powerLosses>>

\* An application is installed or removed (Applications).
ServiceApplication ==
    /\ At("idle") /\ ServiceCall
    /\ svc \in {"ceph", "linstor"}
    /\ installed' = ~installed
    /\ UNCHANGED <<serviceConst, conf, saved, sys, call, answered, fine, seeded, cut, powerLosses>>
---------------------------------------------------------------------------
(* Boots and shutdowns *)

\* What a reboot leaves: /etc/ceph and files under /etc and /var, but no units, sessions,
\* connections or attachments.
Rebooted(r) ==
    IF svc = "ceph" THEN r
    ELSE IF svc \in {"iscsi", "nvme", "usbip"} THEN Hold(DownUnit(r), 0, {})
    ELSE DownUnit(r)
\* The daemon ends, alone or with the system.
Ends(r, left) ==
    \/ sys' = r /\ cut' = left
    \/ sys' = Rebooted(r) /\ cut' = (left /\ svc = "ceph")

\* On the first boot the seed is applied, an update like any other whose error is logged.
ServicesStart ==
    /\ At("off")
    /\ conf' = saved
    /\ call' = [Idle EXCEPT !.boot = TRUE,
                            !.at = IF seeded THEN "start" ELSE IF seedConf = {} \/ ~Supported(svc) THEN "seeded" ELSE "stop",
                            !.new = IF seedConf = {} THEN NoConfig ELSE CHOOSE c \in seedConf : TRUE]
    /\ UNCHANGED <<serviceConst, installed, saved, sys, answered, fine, seeded, serviceCalls, cut, powerLosses>>

SeedApplied ==
    /\ At("seeded")
    /\ seeded' = TRUE
    /\ saved' = conf
    /\ GoTo("start")
    /\ UNCHANGED <<serviceConst, installed, conf, sys, answered, fine, serviceCalls, cut, powerLosses>>

\* An error is logged and the startup goes on.
StartServices ==
    /\ At("start")
    /\ call' = Idle
    /\ IF conf.enabled /\ Supported(svc)
       THEN \E o \in Start(svc, sys, conf) : sys' = o.sys /\ fine' = o.ok
       ELSE fine' = ~conf.enabled /\ UNCHANGED sys
    /\ UNCHANGED <<serviceConst, installed, conf, saved, answered, seeded, serviceCalls, cut, powerLosses>>

\* Errors are logged; the daemon ends all the same.
ServicesShutdown ==
    /\ At("idle") /\ ServiceCall
    /\ IF conf.enabled /\ Supported(svc)
       THEN \E o \in Stop(svc, sys) : Ends(o.sys, cut /\ ~o.ok)
       ELSE Ends(sys, cut)
    /\ saved' = conf
    /\ GoTo("off")
    /\ UNCHANGED <<serviceConst, installed, conf, answered, fine, seeded, powerLosses>>

\* The power is lost, or the daemon killed.
ServicesPowerLoss ==
    /\ powerLosses > 0 /\ ~At("off")
    /\ powerLosses' = powerLosses - 1
    /\ Ends(sys, cut \/ (At("save") /\ conf # saved))
    /\ GoTo("off")
    /\ answered' = IF saved = conf THEN answered ELSE {}
    /\ UNCHANGED <<serviceConst, installed, conf, saved, fine, seeded, serviceCalls>>

ServicesInit ==
    /\ svc \in Services
    /\ seedConf \in IF svc \in {"ceph", "linstor"} THEN {{}} ELSE {{}} \cup {{c} : c \in Configs}
    /\ installed = FALSE /\ seeded = FALSE /\ fine = TRUE
    /\ conf = NoConfig /\ saved = NoConfig /\ answered = {}
    /\ sys = [unit |-> FALSE, applied |-> 0, identity |-> "none", traces |-> {}]
    /\ cut = FALSE
    /\ call = [Idle EXCEPT !.at = "off"]
    /\ serviceCalls = 0 /\ powerLosses = ServicePowerLosses

ServicesNext ==
    \/ \E new \in Configs : ServicePut(new)
    \/ UpdateStop \/ UpdateStart \/ UpdateSave \/ ServiceReset \/ ServiceApplication
    \/ ServicesStart \/ SeedApplied \/ StartServices \/ ServicesShutdown \/ ServicesPowerLoss

ServicesSpec == ServicesInit /\ [][ServicesNext]_serviceVars
---------------------------------------------------------------------------
(* Properties *)

ServicesTypeOK ==
    /\ svc \in Services /\ installed \in BOOLEAN /\ seeded \in BOOLEAN /\ fine \in BOOLEAN
    /\ conf \in Configs /\ saved \in Configs
    /\ sys \in [unit : BOOLEAN, applied : 0 .. Mixed, identity : {"none", "empty", "set"},
              traces : SUBSET (1 .. MaxRevision)]
    /\ cut \in BOOLEAN
    /\ answered \subseteq Configs
    /\ call.at \in {"idle", "stop", "update", "save", "off", "start", "seeded"}

\* A service does what is recorded of it, after any sequence of updates, resets, reboots,
\* power losses in the middle of an update and the seed. An enabled service whose last update
\* or start succeeded runs with the revision in the state (not Netbird and Tailscale, which
\* are configured by an update only and not at boot, nor multipath, which stays enabled when
\* it is stopped; LVM is configured but not started by the update that follows a failed one),
\* and Ceph with nothing of another revision beside it.
\* A disabled service does not run: no failed or interrupted update leaves units, or a
\* /etc/ceph, that a later Stop, which does nothing for a disabled service, would never end
\* (but Tailscale's units, which are started before it is recorded as enabled, the devices
\* USB/IP attached and iSCSI sessions whose logout failed).
\* Nothing is said while an update that ended before its Save has left something: units, when
\* only the daemon was killed, until they are stopped, and /etc/ceph, also after a reboot.
RecordedInEffect ==
    At("idle") /\ ~cut =>
        /\ fine /\ conf.enabled /\ Supported(svc) /\ svc \notin {"netbird", "tailscale", "multipath"}
               => sys.applied = conf.rev /\ (sys.unit \/ svc = "lvm")
        /\ svc = "ceph" /\ fine /\ conf.enabled /\ Supported(svc) => sys.traces = {conf.rev}
        /\ ~conf.enabled /\ svc \notin {"tailscale", "usbip"} => ~sys.unit

\* An update that was answered with success is what the next boot starts from.
UpdateKept ==
    At("idle") => \A c \in answered : saved = c
=============================================================================
