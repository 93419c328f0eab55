------------------------------- MODULE MCSetup -------------------------------
(***************************************************************************)
(* From the published release to an installed host on its network that     *)
(* updates itself: the image publisher, the installer, the network devices *)
(* and the schedule of update checks share no state, so a behaviour is     *)
(* about the part it starts with and the others stay as they are.          *)
(***************************************************************************)
EXTENDS Publisher, Install, NetworkFiles, UpdateSchedule

CONSTANT SetupParts  \* the parts to be checked

VARIABLE part

\* Commands are alike.
PublisherSymmetry == Permutations(Publishers)

MCDiskSize == [d \in Disks |-> IF d = "sda" THEN 100 ELSE 200]
\* Forced and confirmed or neither, restarting at once or not; and forced without a
\* confirmation, for a machine without TPM or without Secure Boot, on the smallest disk.
MCInstallConfigs ==
    LET config(f, c, r, t, s, target) ==
            [force |-> f, confirm |-> c, reboot |-> r, missingTPM |-> t, missingSecureBoot |-> s, target |-> target]
    IN  {config(f, f, r, FALSE, FALSE, Nil) : f, r \in BOOLEAN}
        \cup {config(TRUE, FALSE, FALSE, t, ~t, [match |-> Disks, order |-> "smallest"]) : t \in BOOLEAN}

MCKernelName == [n \in NICs |-> IF n = "aa" THEN "ens1" ELSE "ens2"]
MCUsbName == [n \in {"enxbb"} |-> "bb0"]

\* Configurations that take each other's names and cards, one with a changed VLAN only, one
\* with two VLANs on a bond, one written in upper case, one that names its own bridge, and two to be refused.
MCNetConfigs ==
    LET low(x) == <<x, "lower">>
        iface(n, h, s, t) == [name |-> n, hwaddr |-> h, settings |-> s, tags |-> t]
        bond(n, h, ms, s) == [name |-> n, hwaddr |-> h, members |-> ms, settings |-> s, tags |-> {}]
        vlan(n, p, id) == [name |-> n, parent |-> p, id |-> id, settings |-> "x"]
        wg(n, k) == [name |-> n, key |-> k, settings |-> "x"]
        config(i, b, v, w) == [interfaces |-> i, bonds |-> b, vlans |-> v, wireguard |-> w]
        lan == iface("lan", low("aa"), "x", {})
    IN  {config(<<iface("lan", <<"ens1", "name">>, "x", {})>>, <<>>, <<>>, <<wg("wg", "")>>),
         config(<<lan>>, <<>>, <<vlan("vl", "lan", 10)>>, <<wg("wg", "k")>>),
         config(<<lan>>, <<>>, <<vlan("vl", "lan", 20)>>, <<>>),
         config(<<iface("lan", low("bb"), "y", {10})>>, <<>>, <<vlan("vl", "lan", 20)>>, <<>>),
         config(<<iface("enxbb", low("bb"), "x", {})>>, <<>>, <<vlan("lan", "bb0", 10)>>, <<>>),
         config(<<>>, <<bond("lan", NoHwaddr, <<low("aa"), low("bb")>>, "x")>>, <<vlan("vl", "lan", 10), vlan("v2", "lan", 20)>>, <<>>),
         config(<<>>, <<bond("vl", low("aa"), <<low("aa"), low("bb")>>, "y")>>, <<vlan("lan", "vl", 10)>>, <<>>),
         config(<<iface("lan", <<"aa", "upper">>, "x", {})>>, <<>>, <<vlan("vl", "lan", 10)>>, <<>>),
         config(<<iface("lan", <<"lan", "name">>, "x", {})>>, <<>>, <<>>, <<>>),
         config(<<lan>>, <<bond("lan", NoHwaddr, <<low("bb")>>, "x")>>, <<>>, <<>>),
         config(<<iface("enxbb", low("bb"), "x", {})>>, <<>>, <<vlan("vl", "enxbb", 10)>>, <<>>)}

\* A bond with the address of a card that is not its own, written in lower and in upper case.
MCBorrowedAddress ==
    LET config(h) ==
            [interfaces |-> <<[name |-> "lan", hwaddr |-> <<"aa", "lower">>, settings |-> "x", tags |-> {}]>>,
             bonds |-> <<[name |-> "bo", hwaddr |-> h, members |-> <<<<"bb", "lower">>>>, settings |-> "x", tags |-> {}]>>,
             vlans |-> <<>>, wireguard |-> <<>>]
    IN  {config(<<"aa", "lower">>), config(<<"aa", "upper">>), config(NoHwaddr)}

\* Windows within a day, over midnight, of one day, of several days and over the end of the
\* week; alone with checks that are rarer or more frequent, or several at a time.
MCSchedules ==
    LET window(sd, s, ed, e) == [startDay |-> sd, start |-> s, endDay |-> ed, end |-> e]
        daily == {window(NONE, s, NONE, e) : s, e \in 0 .. Day - 1}
        weekly == {window(1, 0, 5, Day - 1), window(6, 0, 6, Day - 1), window(0, Day - 1, 6, 0),
                   window(5, Day - 1, 1, Day - 2), window(6, 0, 0, 0)}
        config(f, ws) == [frequency |-> f, windows |-> ws]
    IN  {config(f, {w}) : f \in {2, 4 * Day}, w \in daily \cup weekly}
        \cup {config(f, {window(NONE, 0, NONE, 1), window(6, Day - 1, 6, Day - 1), window(0, 0, 1, 1)}) : f \in {3, 8 * Day}}
        \cup {config(f, {}) : f \in {Never, 0, 2}}

\* A part that is not the behaviour's has one initial state.
Only(p, pinned) == part = p \/ pinned

SetupInit ==
    /\ part \in SetupParts
    /\ PublisherInit /\ Only("publisher", builds = {})
    /\ InstallInit /\ Only("install", disk = [d \in Disks |-> Blank] /\ media.config = NoSeed /\ ~external.plugged
                                        /\ firmware.secureBoot /\ firmware.tpm)
    /\ NetworkFilesInit
    /\ ScheduleInit /\ Only("schedule", now = 0 /\ primary /\ schedule = [frequency |-> Never, windows |-> {}])

SetupNext ==
    \/ part = "publisher" /\ PublisherNext /\ UNCHANGED <<part, installVars, netFileVars, scheduleVars>>
    \/ part = "install" /\ InstallNext /\ UNCHANGED <<part, publisherVars, netFileVars, scheduleVars>>
    \/ part = "network" /\ NetworkFilesNext /\ UNCHANGED <<part, publisherVars, installVars, scheduleVars>>
    \/ part = "schedule" /\ ScheduleNext /\ UNCHANGED <<part, publisherVars, installVars, netFileVars>>

setupVars == <<part, publisherVars, installVars, netFileVars, scheduleVars>>

SetupSpec == SetupInit /\ [][SetupNext]_setupVars

\* Every variable of every part keeps its type: the states the publisher, the installer, the
\* network devices and the schedule of update checks can be in.
SetupTypeOK == PublisherTypeOK /\ InstallTypeOK /\ NetworkFilesTypeOK /\ ScheduleTypeOK
=============================================================================
