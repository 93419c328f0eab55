---------------------------- MODULE NetworkFiles ----------------------------
(***************************************************************************)
(* ApplyNetworkConfiguration seen from the devices (internal/systemd,      *)
(* networkd.go and networkd_validate.go): a configuration is checked, the  *)
(* devices of the one before that it changes are deleted, the files of     *)
(* udev and systemd-networkd are written again and networkd is restarted.  *)
(* Who may apply, confirm and roll back a configuration, and when, is      *)
(* NetworkConfirm; here one application runs at a time.                    *)
(*                                                                         *)
(* A device name is a pair of the prefix the code gives it ("n" for the    *)
(* name of the configuration itself) and what follows. An address is a     *)
(* pair of its value and how it is written: in "lower" or "upper" case, or *)
(* as the "name" of an interface that has it.                              *)
(***************************************************************************)
EXTENDS Integers, FiniteSets, Sequences, SequencesExt

CONSTANTS
    NICs,            \* permanent addresses of the network cards
    KernelName,      \* the name the kernel gave each of them
    NetConfigs,      \* the configurations users apply
    UsbName,         \* what is left of a USB card's "enx..." name
    NetApplications, \* bound on the number of applications of a configuration
    NetPowerCycles,  \* bound on the number of restarts of the machine
    FailedDeletes    \* bound on the number of devices an application fails to delete

\* The configurations of the API: everything in them is a string, a number or a list.
Hwaddr == STRING \X {"lower", "upper", "name", "none"}
GeneratedKey == "generated"
NetInterface == [name : STRING, hwaddr : Hwaddr, settings : STRING, tags : SUBSET Int]
NetBond == [name : STRING, hwaddr : Hwaddr, members : Seq(Hwaddr), settings : STRING, tags : SUBSET Int]
NetVLAN == [name : STRING, parent : STRING, id : Int, settings : STRING]
NetWireguard == [name : STRING, key : STRING \cup {GeneratedKey}, settings : STRING]
NetConfig == [interfaces : Seq(NetInterface), bonds : Seq(NetBond), vlans : Seq(NetVLAN), wireguard : Seq(NetWireguard)]

\* A name that was cut is not cut again: what is left does not begin with "enx".
ASSUME NetworkFilesAssumption ==
    /\ NetApplications \in Nat /\ NetPowerCycles \in Nat /\ FailedDeletes \in Nat
    /\ NICs \subseteq STRING /\ DOMAIN KernelName = NICs /\ NetConfigs \subseteq NetConfig
    /\ \A n \in DOMAIN UsbName : UsbName[n] \in STRING \ DOMAIN UsbName

VARIABLES
    applied,   \* s.System.Network.Config
    saved,     \* the configuration a restart of the daemon goes back to
    incoming,  \* the configuration under way and the step it is at
    renamed,   \* the cards udev has renamed to _p<MAC>
    files,     \* /run/systemd/network
    devices,   \* the virtual devices of the kernel: name -> [kind, arg, peer or lower device]
    master,    \* port -> the bridge or bond it is in
    portTags,  \* port -> the VLANs that pass its bridge
    guests,    \* bridges that workloads have joined
    strays,    \* history: devices that could not be deleted, or that a restart of the daemon forgot
    tries, cycles

netFileVars == <<applied, saved, incoming, renamed, files, devices, master, portTags, guests, strays, tries, cycles>>

NoConfig == [interfaces |-> <<>>, bonds |-> <<>>, vlans |-> <<>>, wireguard |-> <<>>]
NoHwaddr == <<"", "none">>
NoKey == ""
NoFiles == [links |-> {}, netdevs |-> {}, networks |-> {}]
NotUnderWay == [config |-> NoConfig, step |-> "idle"]

Empty == [x \in {} |-> {}]
Keep(f, S) == [x \in DOMAIN f \cap S |-> f[x]]

(***************************************************************************)
(* Validation                                                              *)
(***************************************************************************)

NamesOf(seq) == [i \in DOMAIN seq |-> seq[i].name]
AllNames(c) == NamesOf(c.interfaces) \o NamesOf(c.bonds) \o NamesOf(c.vlans) \o NamesOf(c.wireguard)

\* A bond may have the address of one of its members.
BondAddresses(b) == Range(b.members) \cup ({b.hwaddr} \ {NoHwaddr})

\* Addresses are compared as they are written.
AddressesDiffer(c) ==
    LET interfaces == [i \in DOMAIN c.interfaces |-> c.interfaces[i].hwaddr]
    IN  /\ IsInjective(interfaces)
        /\ \A i \in DOMAIN c.bonds :
            /\ IsInjective(c.bonds[i].members)
            /\ BondAddresses(c.bonds[i]) \cap Range(interfaces) = {}
            /\ \A j \in 1 .. i - 1 : BondAddresses(c.bonds[i]) \cap BondAddresses(c.bonds[j]) = {}

MangleUSBNIC(i) == IF i.name \in DOMAIN UsbName THEN [i EXCEPT !.name = UsbName[@]] ELSE i
MangleUSBNICs(c) == [c EXCEPT !.interfaces = [i \in DOMAIN @ |-> MangleUSBNIC(@[i])]]

IsMAC(h) == h[2] \in {"lower", "upper"}
ValidHwaddr(h, requireMAC) == h # NoHwaddr /\ (requireMAC => IsMAC(h))

\* A name does not begin like those the code makes itself, hence the prefixes.
ValidateName(name) == name # ""

\* The settings of a device that only have to be well formed stand for one value.
ValidSettings(d) == ValidateName(d.name) /\ d.settings # "malformed"

ValidateInterfaces(c, requireMAC) ==
    \A i \in Range(c.interfaces) : ValidSettings(i) /\ ValidHwaddr(i.hwaddr, requireMAC)

ValidateBonds(c, requireMAC) ==
    \A b \in Range(c.bonds) :
        /\ ValidSettings(b) /\ b.members # <<>>
        /\ b.hwaddr # NoHwaddr => ValidHwaddr(b.hwaddr, requireMAC)
        /\ \A m \in Range(b.members) : ValidHwaddr(m, requireMAC)

ValidateParent(parent, c) == parent \in {d.name : d \in Range(c.interfaces) \cup Range(c.bonds)}

ValidateVLANs(c) ==
    \A v \in Range(c.vlans) : ValidSettings(v) /\ ValidateParent(v.parent, c) /\ v.id \in 0 .. 4094

ValidateWireguard(c) == \A w \in Range(c.wireguard) : ValidSettings(w)

\* The names are compared before those of USB cards are cut.
ValidateNetworkConfiguration(c, requireMAC) ==
    /\ IsInjective(AllNames(c)) /\ AddressesDiffer(c)
    /\ LET m == MangleUSBNICs(c)
       IN  ValidateInterfaces(m, requireMAC) /\ ValidateBonds(m, requireMAC) /\ ValidateVLANs(m) /\ ValidateWireguard(m)

\* ip link show: a card that still has its name, or a bridge, whose address is its own.
GetMacForInterface(n) ==
    {<<x, "lower">> : x \in {x \in NICs \ renamed : KernelName[x] = n} \cup ({n} \cap {d[2] : d \in DOMAIN devices})}

Resolvable(h) == IsMAC(h) \/ h = NoHwaddr \/ GetMacForInterface(h[1]) # {}
Resolved(h) == IF IsMAC(h) \/ h = NoHwaddr THEN h ELSE CHOOSE x \in GetMacForInterface(h[1]) : TRUE

ResolvedInterface(i) == [i EXCEPT !.hwaddr = Resolved(@)]
ResolvedBond(b) == [b EXCEPT !.hwaddr = Resolved(@), !.members = [j \in DOMAIN @ |-> Resolved(@[j])]]

ResolveMACs(c) ==
    [c EXCEPT !.interfaces = [i \in DOMAIN @ |-> ResolvedInterface(@[i])],
              !.bonds = [i \in DOMAIN @ |-> ResolvedBond(@[i])]]

(***************************************************************************)
(* Files                                                                   *)
(***************************************************************************)

Strip(h) == h[1]
BondAddress(b) == IF b.hwaddr = NoHwaddr THEN b.members[1] ELSE b.hwaddr

\* The address is looked up in the output of ip, which writes it in lower case.
HasMaxMTU(h) == h[2] = "lower" /\ h[1] \in NICs \cup {d[2] : d \in DOMAIN devices}

\* A .link file renames each card; without its MTU none is generated.
LinkAddresses(c) == {i.hwaddr : i \in Range(c.interfaces)} \cup (UNION {Range(b.members) : b \in Range(c.bonds)})
GenerateLinkFileContents(c) == {Strip(h) : h \in LinkAddresses(c)}

Netdev(name, kind, arg, peer) == [name |-> name, kind |-> kind, arg |-> arg, peer |-> peer]
NoDevice == <<"none", "none">>

BridgeAndVeth(name, h) ==
    {Netdev(<<"n", name>>, "bridge", "none", NoDevice), Netdev(<<"v", name>>, "veth", h, <<"i", Strip(h)>>)}

GenerateNetdevFileContents(c) ==
    (UNION {BridgeAndVeth(i.name, i.hwaddr) : i \in Range(c.interfaces)})
    \cup (UNION {BridgeAndVeth(b.name, BondAddress(b)) : b \in Range(c.bonds)})
    \cup {Netdev(<<"b", b.name>>, "bond", b.settings, NoDevice) : b \in Range(c.bonds)}
    \cup {Netdev(<<"n", v.name>>, "vlan", v.id, NoDevice) : v \in Range(c.vlans)}
    \cup {Netdev(<<"n", w.name>>, "wireguard", w.key, NoDevice) : w \in Range(c.wireguard)}

\* The devices a configuration describes, each VLAN on the host's end of the veth of its parent.
Described(c) ==
    {n \in GenerateNetdevFileContents(c) : n.kind # "vlan"}
    \cup {Netdev(<<"n", v.name>>, "vlan", v.id, <<"v", v.parent>>) : v \in Range(c.vlans)}

\* The devices that are not as the configuration describes them.
Mismatched(c) == {d \in DOMAIN devices : Netdev(d, devices[d].kind, devices[d].arg, devices[d].peer) \notin Described(c)}

\* The tags of the device and that of the first VLAN on it.
GenerateVLANContents(name, extra, c) ==
    LET first == SelectInSeq(c.vlans, LAMBDA v : v.parent = name)
    IN  extra \cup IF first = 0 THEN {} ELSE {c.vlans[first].id}

Network(match, into, vlans, tags) == [match |-> match, master |-> into, vlans |-> vlans, tags |-> tags]

\* VLAN= in the [Network] section of the host's end of the veth.
GenerateNetworkSection(name, c) == {<<"n", v.name>> : v \in {w \in Range(c.vlans) : w.parent = name}}

VethNetworks(name, h, extra, c) ==
    {Network(<<"v", name>>, NoDevice, GenerateNetworkSection(name, c), {}),
     Network(<<"i", Strip(h)>>, <<"n", name>>, {}, GenerateVLANContents(name, extra, c)),
     Network(<<"n", name>>, NoDevice, {}, {})}

\* The card of an interface is a port of its bridge; those of a bond are in the bond, which is the port.
InterfaceNetworks(i, c) ==
    VethNetworks(i.name, i.hwaddr, i.tags, c)
    \cup {Network(<<"p", Strip(i.hwaddr)>>, <<"n", i.name>>, {}, GenerateVLANContents(i.name, i.tags, c))}

BondNetworks(b, c) ==
    VethNetworks(b.name, BondAddress(b), b.tags, c)
    \cup {Network(<<"b", b.name>>, <<"n", b.name>>, {}, GenerateVLANContents(b.name, b.tags, c))}
    \cup {Network(<<"p", Strip(m)>>, <<"b", b.name>>, {}, {}) : m \in Range(b.members)}

GenerateNetworkFileContents(c) ==
    (UNION {InterfaceNetworks(i, c) : i \in Range(c.interfaces)})
    \cup (UNION {BondNetworks(b, c) : b \in Range(c.bonds)})
    \cup {Network(<<"n", d.name>>, NoDevice, {}, {}) : d \in Range(c.vlans) \cup Range(c.wireguard)}

(***************************************************************************)
(* The devices a new configuration changes                                 *)
(***************************************************************************)

Named(seq, name) == {d \in Range(seq) : d.name = name}
Gone(d, new) == Named(new, d.name) = {}
Changed(d, new) == d \notin Range(new) /\ ~Gone(d, new)

IsBridgeInUse(name) == name \in guests

\* Mutant: a VLAN is looked up by its name only.
StaleByName(old, new) ==
    LET bridge(seq, ds) == {<<"n", d.name>> : d \in {x \in Range(seq) : Gone(x, ds) \/ (Changed(x, ds) /\ ~IsBridgeInUse(x.name))}}
        stale(seq, ds) == {d.name : d \in {x \in Range(seq) : Gone(x, ds) \/ Changed(x, ds)}}
    IN  bridge(old.interfaces, new.interfaces) \cup bridge(old.bonds, new.bonds)
        \cup {<<"v", n>> : n \in stale(old.interfaces, new.interfaces) \cup stale(old.bonds, new.bonds)}
        \cup {<<"b", n>> : n \in stale(old.bonds, new.bonds)}
        \cup {<<"n", v.name>> : v \in {x \in Range(old.vlans) : Gone(x, new.vlans)}}
        \cup {<<"n", n>> : n \in stale(old.wireguard, new.wireguard)}

\* cleanupStaleDevices: a bridge that workloads use survives a change of its interface, not its removal.
StaleDevices(old, new) ==
    LET bridge(seq, ds) == {<<"n", d.name>> : d \in {x \in Range(seq) : Gone(x, ds) \/ (Changed(x, ds) /\ ~IsBridgeInUse(x.name))}}
        stale(seq, ds) == {d.name : d \in {x \in Range(seq) : Gone(x, ds) \/ Changed(x, ds)}}
    IN  bridge(old.interfaces, new.interfaces) \cup bridge(old.bonds, new.bonds)
        \cup {<<"v", n>> : n \in stale(old.interfaces, new.interfaces) \cup stale(old.bonds, new.bonds)}
        \cup {<<"b", n>> : n \in stale(old.bonds, new.bonds)}
        \cup {<<"n", n>> : n \in stale(old.vlans, new.vlans) \cup stale(old.wireguard, new.wireguard)}

(***************************************************************************)
(* The kernel and networkd                                                 *)
(***************************************************************************)

\* networkctl delete: both ends of a veth go together, and the VLANs on it with them; a port
\* leaves a bridge that goes. An error is ignored, so some of the devices may stay.
DeleteNetworkDevice(names) ==
  \E kept \in SUBSET (names \cap DOMAIN devices) :
    LET D == names \ kept
        ends == D \cup {devices[d].peer : d \in {x \in D \cap DOMAIN devices : devices[x].kind = "veth"}}
        left == {d \in DOMAIN devices \ ends : devices[d].kind = "vlan" => devices[d].peer \notin ends}
    IN  /\ Cardinality(kept) <= FailedDeletes
        /\ devices' = Keep(devices, left)
        /\ master' = Keep(master, {p \in DOMAIN master : p \notin ends /\ master[p] \in left})
        /\ portTags' = Keep(portTags, {p \in DOMAIN master : p \notin ends /\ master[p] \in left})
        /\ guests' = {n \in guests : <<"n", n>> \in left}
        /\ strays' = (strays \cup kept) \cap left

\* What the kernel holds once networkd has read its files: it makes the devices that are
\* missing, the VLANs on the device whose file lists them, and leaves one of the same name as it
\* is. No veth is made while another one has the name of its peer.
Peers(devs) == {devs[d].peer : d \in {x \in DOMAIN devs : devs[x].kind = "veth"}}
Makeable(n) == n.kind # "vlan" /\ n.name \notin DOMAIN devices /\ (n.kind = "veth" => n.peer \notin Peers(devices))
Created ==
    LET made == {n \in files.netdevs : Makeable(n)}
        after == DOMAIN devices \cup {n.name : n \in made}
        lower(v) == {f.match : f \in {g \in files.networks : v \in g.vlans /\ g.match \in after}}
        vlans == {n \in files.netdevs : n.kind = "vlan" /\ n.name \notin DOMAIN devices /\ lower(n.name) # {}}
    IN  [d \in after \cup {n.name : n \in vlans} |->
            IF d \in DOMAIN devices THEN devices[d]
            ELSE LET n == CHOOSE x \in made \cup vlans : x.name = d
                 IN  [kind |-> n.kind, arg |-> n.arg,
                      peer |-> IF n.kind = "vlan" THEN CHOOSE l \in lower(d) : TRUE ELSE n.peer]]

Present(devs) == DOMAIN devs \cup Peers(devs) \cup {<<"p", x>> : x \in renamed}

\* The ports of the files join their bridge or bond; a port no file names stays where it is.
Ports(devs) ==
    LET masters == {d \in DOMAIN devs : devs[d].kind \in {"bridge", "bond"}}
    IN  {f \in files.networks : f.master # NoDevice /\ f.match \in Present(devs) /\ f.master \in masters}
FileOf(p, fs) == CHOOSE f \in fs : f.match = p

(***************************************************************************)
(* ApplyNetworkConfiguration                                               *)
(***************************************************************************)

NetworkFilesInit ==
    /\ applied = NoConfig /\ saved = NoConfig /\ incoming = NotUnderWay
    /\ renamed = {} /\ files = NoFiles /\ devices = Empty /\ master = Empty /\ portTags = Empty
    /\ guests = {} /\ strays = {} /\ tries = 0 /\ cycles = 0

AtStep(s) == incoming.step = s
Then(s) == incoming' = [incoming EXCEPT !.step = s]

\* Checked, its names of interfaces resolved, and checked again: refused, it changes nothing.
Accept(c) ==
    LET m == MangleUSBNICs(c)
        r == ResolveMACs(m)
    IN  /\ ValidateNetworkConfiguration(c, FALSE)
        /\ \A h \in LinkAddresses(m) \cup {b.hwaddr : b \in Range(m.bonds)} : Resolvable(h)
        /\ ValidateNetworkConfiguration(r, TRUE)
        /\ incoming' = [config |-> r, step |-> "cleanup"]

\* A user's configuration, or the one to roll back to.
Apply ==
    /\ incoming.step \in {"idle", "online"} /\ tries < NetApplications
    /\ tries' = tries + 1
    /\ \E c \in NetConfigs \cup {saved} : c # NoConfig /\ Accept(c)
    /\ UNCHANGED <<applied, saved, renamed, files, devices, master, portTags, guests, strays, cycles>>

CleanupStaleDevices ==
    /\ AtStep("cleanup")
    /\ DeleteNetworkDevice(StaleDevices(applied, incoming.config))
    /\ Then("set")
    /\ UNCHANGED <<applied, saved, renamed, files, tries, cycles>>

\* A wireguard without a key gets one before the configuration is in the state.
CheckWireguardPrivateKeys(c) ==
    [c EXCEPT !.wireguard = [i \in DOMAIN @ |-> IF @[i].key = NoKey THEN [@[i] EXCEPT !.key = GeneratedKey] ELSE @[i]]]

SetConfig ==
    /\ AtStep("set")
    /\ LET c == CheckWireguardPrivateKeys(incoming.config)
       IN  applied' = c /\ incoming' = [config |-> c, step |-> "generate"]
    /\ UNCHANGED <<saved, renamed, files, devices, master, portTags, guests, strays, tries, cycles>>

\* Everything is removed first: a file that cannot be generated leaves the ones before it.
GenerateNetworkConfiguration ==
    /\ AtStep("generate")
    /\ LET c == incoming.config
       IN  IF \A h \in LinkAddresses(c) : HasMaxMTU(h)
           THEN /\ files' = [links |-> GenerateLinkFileContents(c), netdevs |-> GenerateNetdevFileContents(c),
                             networks |-> GenerateNetworkFileContents(c)]
                /\ Then("rename")
           ELSE files' = NoFiles /\ incoming' = NotUnderWay
    /\ UNCHANGED <<applied, saved, renamed, devices, master, portTags, guests, strays, tries, cycles>>

\* The cards networkd does not know under their new name yet.
ExpectedNewPhysicalDevices == files.links \ renamed

\* A card that is not there is waited for in vain.
WaitForUdevInterfaceRename ==
    /\ AtStep("rename")
    /\ renamed' = renamed \cup (ExpectedNewPhysicalDevices \cap NICs)
    /\ IF ExpectedNewPhysicalDevices \subseteq NICs THEN Then("restart") ELSE incoming' = NotUnderWay
    /\ UNCHANGED <<applied, saved, files, devices, master, portTags, guests, strays, tries, cycles>>

RestartNetworkd ==
    /\ AtStep("restart")
    /\ LET ports == Ports(Created)
           joined == {f.match : f \in ports}
       IN  /\ devices' = Created
           /\ master' = [p \in DOMAIN master \cup joined |-> IF p \in joined THEN FileOf(p, ports).master ELSE master[p]]
           /\ portTags' = [p \in DOMAIN portTags \cup joined |-> IF p \in joined THEN FileOf(p, ports).tags ELSE portTags[p]]
    /\ Then("wait")
    /\ UNCHANGED <<applied, saved, renamed, files, guests, strays, tries, cycles>>

\* The network came online; the configuration is saved, or waits to be confirmed.
WaitForNetworkOnline ==
    /\ AtStep("wait")
    /\ saved' \in {saved, applied}
    /\ Then("online")
    /\ UNCHANGED <<applied, renamed, files, devices, master, portTags, guests, strays, tries, cycles>>

\* A command fails or a wait times out: nothing is taken back.
ApplyFails ==
    /\ incoming.step \in {"set", "generate", "rename", "restart", "wait"}
    /\ files' \in IF AtStep("generate") THEN {files, NoFiles, [NoFiles EXCEPT !.links = GenerateLinkFileContents(incoming.config)]}
                  ELSE {files}
    /\ incoming' = NotUnderWay
    /\ UNCHANGED <<applied, saved, renamed, devices, master, portTags, guests, strays, tries, cycles>>

(***************************************************************************)
(* The rest of the host                                                    *)
(***************************************************************************)

ConfirmConfig ==
    /\ AtStep("online") /\ saved # applied
    /\ saved' = applied
    /\ UNCHANGED <<applied, incoming, renamed, files, devices, master, portTags, guests, strays, tries, cycles>>

\* A workload's port joins a bridge.
WorkloadJoins ==
    /\ AtStep("online")
    /\ \E n \in {d[2] : d \in {x \in DOMAIN devices : devices[x].kind = "bridge"}} \ guests : guests' = guests \cup {n}
    /\ UNCHANGED <<applied, saved, incoming, renamed, files, devices, master, portTags, strays, tries, cycles>>

\* The daemon starts again, at any time; it applies the saved configuration, as if that were the
\* one in effect, and does not know the devices of another one.
RestartDaemon ==
    /\ saved # NoConfig /\ tries < NetApplications
    /\ tries' = tries + 1
    /\ applied' = saved
    /\ Accept(saved)
    /\ strays' = strays \cup IF saved = applied THEN {} ELSE Mismatched(saved)
    /\ UNCHANGED <<saved, renamed, files, devices, master, portTags, guests, cycles>>

\* The machine restarts: the devices, the names of the cards and the files of /run are gone.
NetPowerCycle ==
    /\ cycles < NetPowerCycles /\ cycles' = cycles + 1
    /\ applied' = saved /\ incoming' = NotUnderWay
    /\ renamed' = {} /\ files' = NoFiles /\ devices' = Empty /\ master' = Empty /\ portTags' = Empty
    /\ guests' = {} /\ strays' = {}
    /\ UNCHANGED <<saved, tries>>

NetworkFilesNext ==
    \/ Apply \/ CleanupStaleDevices \/ SetConfig \/ GenerateNetworkConfiguration \/ WaitForUdevInterfaceRename
    \/ RestartNetworkd \/ WaitForNetworkOnline \/ ApplyFails
    \/ ConfirmConfig \/ WorkloadJoins \/ RestartDaemon \/ NetPowerCycle

NetworkFilesSpec == NetworkFilesInit /\ [][NetworkFilesNext]_netFileVars

(***************************************************************************)
(* Properties                                                              *)
(***************************************************************************)

NetworkFilesTypeOK ==
    /\ {applied, saved, incoming.config} \subseteq NetConfig
    /\ incoming.step \in {"idle", "cleanup", "set", "generate", "rename", "restart", "wait", "online"}
    /\ renamed \subseteq NICs
    /\ \A d \in DOMAIN devices : devices[d].kind \in {"bridge", "veth", "bond", "vlan", "wireguard"}
    /\ DOMAIN portTags = DOMAIN master /\ strays \subseteq DOMAIN devices
    /\ tries \in 0 .. NetApplications /\ cycles \in 0 .. NetPowerCycles

Is(d, kind, arg) == d \in DOMAIN devices /\ devices[d].kind = kind /\ devices[d].arg = arg
In(p, m) == p \in DOMAIN master /\ master[p] = m
VethReaches(name, h) ==
    /\ Is(<<"n", name>>, "bridge", "none") /\ Is(<<"v", name>>, "veth", h)
    /\ devices[<<"v", name>>].peer = <<"i", Strip(h)>> /\ In(<<"i", Strip(h)>>, <<"n", name>>)

\* A device of another configuration has the name, or the end in the bridge, of this one.
Blocked(name, h) == \E d \in Mismatched(applied) : d[2] = name \/ devices[d].peer = <<"i", Strip(h)>>

\* Every device is as the configuration describes it and reaches the card it is for, unless a
\* device of another configuration is in its way.
Connected ==
    /\ \A i \in Range(applied.interfaces) : ~Blocked(i.name, i.hwaddr) =>
        VethReaches(i.name, i.hwaddr) /\ In(<<"p", Strip(i.hwaddr)>>, <<"n", i.name>>)
    /\ \A b \in Range(applied.bonds) : ~Blocked(b.name, BondAddress(b)) =>
        /\ VethReaches(b.name, BondAddress(b))
        /\ Is(<<"b", b.name>>, "bond", b.settings) /\ In(<<"b", b.name>>, <<"n", b.name>>)
        /\ \A m \in Range(b.members) : In(<<"p", Strip(m)>>, <<"b", b.name>>)
    /\ \A v \in Range(applied.vlans) :
        <<"n", v.name>> \notin Mismatched(applied) /\ <<"v", v.parent>> \in DOMAIN devices =>
            Is(<<"n", v.name>>, "vlan", v.id) /\ devices[<<"n", v.name>>].peer = <<"v", v.parent>>
    /\ \A w \in Range(applied.wireguard) :
        <<"n", w.name>> \notin Mismatched(applied) => Is(<<"n", w.name>>, "wireguard", w.key)

\* ApplyNetworkConfiguration, "Delete any interfaces, bonds, or vlans that currently exist but don't
\* in the new configuration, or have a different configuration": once the network is online its
\* devices are those of the configuration, whatever configurations were applied before, failed
\* half way or were rolled back, and at whatever step the daemon restarted. Others are left only
\* where networkctl did not delete them or the daemon forgot a configuration it had not saved,
\* and they disturb nothing but the devices whose names they have.
Wired == AtStep("online") => Mismatched(applied) \subseteq strays /\ Connected

\* ValidateNetworkConfiguration, "Check that all interface/bond/vlan names and MACs are unique":
\* no two interfaces or bonds of a configuration that was accepted have the same address.
AddressesUnique ==
    LET c == incoming.config
        address(d) == Strip(IF d \in Range(c.bonds) THEN BondAddress(d) ELSE d.hwaddr)
    IN  \A d, e \in Range(c.interfaces) \cup Range(c.bonds) : address(d) = address(e) => d = e

\* generateVLANContents, "Grab any relevant tags for this device from VLAN definitions": the
\* bridges filter, so the frames of a VLAN pass only the ports whose file lists its tag.
TagsPass ==
    AtStep("online") =>
        \A v \in Range(applied.vlans) :
            \A p \in DOMAIN master : master[p] = <<"n", v.parent>> => v.id \in portTags[p]
=============================================================================
