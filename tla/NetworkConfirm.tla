--------------------------- MODULE NetworkConfirm ---------------------------
(***************************************************************************)
(* Changing the network configuration over the REST API, with or without a *)
(* confirmation timeout.                                                   *)
(*                                                                         *)
(* Three kinds of goroutines run at the same time: the PUT handlers, the   *)
(* watcher that a PUT with a timeout leaves behind to roll it back, and    *)
(* the startup code, which brings the network up while the API is already  *)
(* being served.  All three call applyNetworkConfiguration; the handlers   *)
(* and the watchers talk through NetworkConfigurationChannel (capacity 1). *)
(* Nothing here holds a lock: every step between two blocking calls        *)
(* interleaves with every other goroutine.                                 *)
(*                                                                         *)
(* A configuration is a model value.  The nftables MAC filters are not     *)
(* part of the state, only the failure of installing them is.              *)
(***************************************************************************)
EXTENDS Naturals, Sequences, FiniteSets

CONSTANTS
    Configs,      \* network configurations
    None,         \* the nil *SystemNetworkConfig
    Requests,     \* PUT /1.0/system/network requests
    Confirms,     \* POST /1.0/system/network/:confirm requests
    Faults,       \* the stages at which an application may fail
    Serial,       \* PUT requests come one at a time
    MaxRestarts   \* how many restarts there are before the last crash

ASSUME NoneAssumption == None \notin Configs
ASSUME SerialAssumption == Serial \in BOOLEAN
ASSUME RestartsAssumption == MaxRestarts \in Nat

VARIABLES
    config,     \* s.System.Network.Config
    prior,      \* s.PriorNetworkConfig
    pending,    \* s.NetworkConfigurationPending
    inProcess,  \* s.System.Network.State.ConfigurationInProcess
    channel,    \* s.NetworkConfigurationChannel
    disk,       \* the persisted configuration and prior configuration
    stage,      \* where each goroutine is
    target,     \* the configuration each goroutine applies
    conf,       \* where each confirmation handler is
    restarts,   \* restarts of the daemon so far, up to MaxRestarts
    \* History, read by the properties only:
    base,       \* the configuration the last PUT found in memory
    safe,       \* what a crash could restore when a timed PUT came in
    outcome,    \* how the watcher of a timed PUT left its select
    confOf,     \* the requests that were pending when a confirmation came
    overtaken,  \* timed PUTs armed before an earlier watcher cleared its copy
    last        \* the last PUT that was let through

memory == <<config, prior, pending, inProcess, channel>>
history == <<base, safe, outcome, confOf, overtaken, last>>
vars == <<config, prior, pending, inProcess, channel, disk, stage, target,
          conf, restarts, base, safe, outcome, confOf, overtaken, last>>

-----------------------------------------------------------------------------
(* Goroutines and the stages they go through.                              *)

Put(r) == <<"put", r>>
Watch(r) == <<"watch", r>>
Boot == <<"boot", "boot">>

Puts == {Put(r) : r \in Requests}
Watches == {Watch(r) : r \in Requests}
Actors == Puts \cup Watches \cup {Boot}

ApplyStages == {"begin", "set", "online", "save"}
RestStages == {"idle", "refused", "ok", "error", "done", "dead"}
Stages == ApplyStages \cup RestStages
          \cup {"checked", "timed", "failed", "sendErr", "wait", "reset", "clearPrior"}

AtRest(a) == stage[a] \in RestStages

Watching(r) == stage[Watch(r)] \in ApplyStages \cup {"wait", "reset", "clearPrior"}

\* A watcher that has yet to reset the pending flag.
Settling(r) == Watching(r) /\ stage[Watch(r)] # "clearPrior"

TypeOK ==
    /\ config \in Configs
    /\ prior \in Configs \cup {None}
    /\ pending \in BOOLEAN
    /\ inProcess \in BOOLEAN
    /\ channel \in {<< >>, <<"nil">>, <<"err">>}
    /\ disk \in [config : Configs, prior : Configs \cup {None}]
    /\ stage \in [Actors -> Stages]
    /\ target \in [Actors -> Configs \cup {None}]
    /\ conf \in [Confirms -> {"idle", "send", "ok", "refused", "dead"}]
    /\ restarts \in 0..MaxRestarts
    /\ base \in Configs \cup {None}
    /\ safe \in [Requests -> SUBSET Configs]
    /\ outcome \in [Requests -> {"none", "confirmed", "rollback"}]
    /\ confOf \in [Confirms -> SUBSET Requests]
    /\ overtaken \subseteq Requests
    /\ last \in Requests \cup {None}

\* The state of a daemon that has started up on a persisted configuration.
Init ==
    /\ config \in Configs
    /\ prior = None
    /\ pending = FALSE
    /\ inProcess = FALSE
    /\ channel = << >>
    /\ disk = [config |-> config, prior |-> None]
    /\ stage = [a \in Actors |-> IF a = Boot THEN "done" ELSE "idle"]
    /\ target = [a \in Actors |-> None]
    /\ conf = [c \in Confirms |-> "idle"]
    /\ restarts = 0
    /\ base = None
    /\ safe = [r \in Requests |-> {}]
    /\ outcome = [r \in Requests |-> "none"]
    /\ confOf = [c \in Confirms |-> {}]
    /\ overtaken = {}
    /\ last = None

-----------------------------------------------------------------------------
(* Persisted state.                                                        *)

\* What Save writes of this component.
Save == disk' = [config |-> config, prior |-> prior]

\* What main takes from the state file when it starts: the prior known-good
\* configuration wins over the current one.
Recovered(d) == IF d.prior # None THEN d.prior ELSE d.config

\* Any other handler or job of the daemon saving the whole state.
OtherSave ==
    /\ Save
    /\ UNCHANGED <<memory, stage, target, conf, restarts, history>>

\* The process ends with d on disk and systemd starts it again.
RestartFrom(d) ==
    /\ restarts' = IF restarts < MaxRestarts THEN restarts + 1 ELSE restarts
    /\ disk' = d
    /\ config' = Recovered(d)
    /\ prior' = None
    /\ pending' = FALSE
    /\ inProcess' = FALSE
    /\ channel' = << >>
    /\ stage' = [a \in Actors |-> IF a = Boot THEN "begin"
                                  ELSE IF AtRest(a) THEN stage[a] ELSE "dead"]
    /\ target' = [a \in Actors |-> IF a = Boot THEN Recovered(d) ELSE None]
    /\ conf' = [c \in Confirms |-> IF conf[c] = "send" THEN "dead" ELSE conf[c]]
    /\ safe' = [r \in Requests |-> {}]
    /\ UNCHANGED <<base, outcome, confOf, overtaken, last>>

\* A crash, or a reboot of the machine.
Crash == restarts < MaxRestarts /\ RestartFrom(disk)

\* A watcher that finds no prior configuration, because another one cleared it,
\* dereferences a nil pointer in ApplyHwaddrFilters, which ends the daemon.
Panic ==
    /\ \E r \in Requests : stage[Watch(r)] = "begin" /\ target[Watch(r)] = None
    /\ RestartFrom(disk)

\* The startup code failed to bring up the network: startup saves the state on
\* its way out and the daemon exits.
BootFailed ==
    /\ stage[Boot] = "failed"
    /\ RestartFrom([config |-> config, prior |-> prior])

-----------------------------------------------------------------------------
(* applyNetworkConfiguration, by a handler, a watcher or the startup code. *)

\* A watcher carries on the same way whether or not the application failed.
AfterSuccess(a) == IF a \in Puts THEN "ok" ELSE "reset"
\* Mutant: a watcher whose roll back failed returns without resetting.
AfterFailureReturns(a) == IF a \in Watches THEN "done" ELSE "failed"


AfterFailure(a) == IF a \in Watches THEN "reset" ELSE "failed"

\* Actor a leaves applyNetworkConfiguration for stage st.
Leave(a, st) ==
    /\ stage' = [stage EXCEPT ![a] = st]
    /\ target' = [target EXCEPT ![a] = None]

\* The configuration-in-progress check and the flag it guards.
ApplyBegin(a) ==
    /\ stage[a] = "begin"
    /\ target[a] # None
    /\ \/ /\ inProcess
          /\ Leave(a, AfterFailure(a))
          /\ UNCHANGED inProcess
       \/ /\ ~inProcess
          /\ inProcess' = TRUE
          /\ stage' = [stage EXCEPT ![a] = "set"]
          /\ UNCHANGED target
    /\ UNCHANGED <<config, prior, pending, channel, disk, conf, restarts, history>>

\* The configuration is valid: it becomes the configuration in memory before
\* anything is generated from it.
ApplySet(a) ==
    /\ stage[a] = "set"
    /\ config' = target[a]
    /\ stage' = [stage EXCEPT ![a] = "online"]
    /\ UNCHANGED <<prior, pending, inProcess, channel, disk, target, conf,
                   restarts, history>>

\* Hostname, proxy, networkd files and firewall are set up, and the network, DNS
\* and time come up.  Refreshing the network state clears the progress flag, and
\* so does the deferred function.  The startup code is done at this point, the
\* API saves what it applied.
ApplyOnline(a) ==
    /\ stage[a] = "online"
    /\ inProcess' = FALSE
    /\ IF a = Boot THEN Leave(a, "done")
                   ELSE stage' = [stage EXCEPT ![a] = "save"] /\ UNCHANGED target
    /\ UNCHANGED <<config, prior, pending, channel, disk, conf, restarts, history>>

ApplySave(a) ==
    /\ stage[a] = "save"
    /\ Save
    /\ Leave(a, AfterSuccess(a))
    /\ UNCHANGED <<memory, conf, restarts, history>>

\* The application fails in the stage it is in; the deferred function clears
\* the progress flag if this application set it.
ApplyFault(a) ==
    /\ stage[a] \in Faults \cap ApplyStages
    /\ target[a] # None
    /\ inProcess' = (inProcess /\ stage[a] \notin {"set", "online"})
    /\ Leave(a, AfterFailure(a))
    /\ UNCHANGED <<config, prior, pending, channel, disk, conf, restarts, history>>

\* GET /1.0/system/network, at any time: UpdateNetworkState replaces the whole
\* network state, and with it the progress flag.
Get ==
    /\ inProcess' = FALSE
    /\ UNCHANGED <<config, prior, pending, channel, disk, stage, target,
                   conf, restarts, history>>

-----------------------------------------------------------------------------
(* PUT /1.0/system/network.                                                *)

\* Mutant: the pending flag is not looked at.
PutCheckAlways(r, c) ==
    /\ stage[Put(r)] = "idle"
    /\ Serial => \A q \in Requests : AtRest(Put(q))
    /\ \E st \in {"checked", "timed"} : stage' = [stage EXCEPT ![Put(r)] = st]
    /\ target' = [target EXCEPT ![Put(r)] = c]
    /\ UNCHANGED <<memory, disk, conf, restarts, history>>

\* The handler reads the pending flag.  A refused request changes nothing.
\* Serial clients wait for the answer to the previous PUT. The watcher of that one
\* may have cleared the flag and not yet its copy of the prior configuration.
PutCheck(r, c) ==
    /\ stage[Put(r)] = "idle"
    /\ Serial => \A q \in Requests : AtRest(Put(q))
    /\ \/ /\ pending
          /\ Leave(Put(r), "refused")
       \/ /\ ~pending
          /\ \E st \in {"checked", "timed"} : stage' = [stage EXCEPT ![Put(r)] = st]
          /\ target' = [target EXCEPT ![Put(r)] = c]
    /\ UNCHANGED <<memory, disk, conf, restarts, history>>

\* Without a confirmation timeout the configuration is applied right away.
PutStart(r) ==
    /\ stage[Put(r)] = "checked"
    /\ stage' = [stage EXCEPT ![Put(r)] = "begin"]
    /\ base' = config
    /\ last' = r
    /\ UNCHANGED <<memory, disk, target, conf, restarts, safe, outcome, confOf, overtaken>>

\* With a timeout: mark the change as pending, keep the current configuration
\* and start the watcher.
PutArm(r) ==
    /\ stage[Put(r)] = "timed"
    /\ pending' = TRUE
    /\ prior' = config
    /\ stage' = [stage EXCEPT ![Put(r)] = "begin", ![Watch(r)] = "wait"]
    /\ base' = config
    /\ last' = r
    /\ safe' = [safe EXCEPT ![r] = {config, Recovered(disk)}]
    /\ outcome' = [outcome EXCEPT ![r] = "none"]
    /\ overtaken' = IF \E q \in Requests : stage[Watch(q)] = "clearPrior"
                    THEN overtaken \cup {r} ELSE overtaken
    /\ UNCHANGED <<config, inProcess, channel, disk, target, conf, restarts, confOf>>

\* The application failed: if a confirmation is pending, hand the error to the
\* watcher (and wait for room in the channel), then answer 500.
PutFailed(r) ==
    /\ stage[Put(r)] = "failed"
    /\ stage' = [stage EXCEPT ![Put(r)] = IF pending THEN "sendErr" ELSE "error"]
    /\ UNCHANGED <<memory, disk, target, conf, restarts, history>>

PutSendErr(r) ==
    /\ stage[Put(r)] = "sendErr"
    /\ channel = << >>
    /\ channel' = <<"err">>
    /\ stage' = [stage EXCEPT ![Put(r)] = "error"]
    /\ UNCHANGED <<config, prior, pending, inProcess, disk, target,
                   conf, restarts, history>>

-----------------------------------------------------------------------------
(* The watcher of a PUT with a confirmation timeout.                       *)

\* A nil from the channel is the confirmation; an error starts the roll back.
WatchReceive(r) ==
    /\ stage[Watch(r)] = "wait"
    /\ channel # << >>
    /\ channel' = << >>
    /\ IF Head(channel) = "nil"
         THEN /\ stage' = [stage EXCEPT ![Watch(r)] = "reset"]
              /\ outcome' = [outcome EXCEPT ![r] = "confirmed"]
              /\ UNCHANGED target
         ELSE /\ stage' = [stage EXCEPT ![Watch(r)] = "begin"]
              /\ target' = [target EXCEPT ![Watch(r)] = prior]
              /\ outcome' = [outcome EXCEPT ![r] = "rollback"]
    /\ UNCHANGED <<config, prior, pending, inProcess, disk, conf,
                   restarts, base, safe, confOf, overtaken, last>>

\* Mutant: the kept configuration is cleared when the roll back starts.
WatchTimeoutTakesPrior(r) ==
    /\ stage[Watch(r)] = "wait"
    /\ stage' = [stage EXCEPT ![Watch(r)] = "begin"]
    /\ target' = [target EXCEPT ![Watch(r)] = prior]
    /\ prior' = None
    /\ outcome' = [outcome EXCEPT ![r] = "rollback"]
    /\ UNCHANGED <<config, pending, inProcess, channel, disk, conf, restarts,
                   base, safe, confOf, overtaken, last>>

\* The timeout is chosen by the client and may be shorter than an application.
WatchTimeout(r) ==
    /\ stage[Watch(r)] = "wait"
    /\ stage' = [stage EXCEPT ![Watch(r)] = "begin"]
    /\ target' = [target EXCEPT ![Watch(r)] = prior]
    /\ outcome' = [outcome EXCEPT ![r] = "rollback"]
    /\ UNCHANGED <<memory, disk, conf, restarts, base, safe, confOf, overtaken, last>>

\* Mutant: the pending flag is left set.
WatchResetKeepsPending(r) ==
    /\ stage[Watch(r)] = "reset"
    /\ stage' = [stage EXCEPT ![Watch(r)] = "clearPrior"]
    /\ UNCHANGED <<memory, disk, target, conf, restarts, history>>


WatchReset(r) ==
    /\ stage[Watch(r)] = "reset"
    /\ pending' = FALSE
    /\ stage' = [stage EXCEPT ![Watch(r)] = "clearPrior"]
    /\ UNCHANGED <<config, prior, inProcess, channel, disk, target,
                   conf, restarts, history>>

\* The copy goes whosever it is by now. The Save that follows may fail, which is
\* ignored, be cut off, or come later (OtherSave).
WatchClearPrior(r) ==
    /\ stage[Watch(r)] = "clearPrior"
    /\ prior' = None
    /\ stage' = [stage EXCEPT ![Watch(r)] = "done"]
    /\ safe' = [safe EXCEPT ![r] = {}]
    /\ \/ disk' = [config |-> config, prior |-> None]
       \/ UNCHANGED disk
    /\ UNCHANGED <<config, pending, inProcess, channel, target, conf,
                   restarts, base, outcome, confOf, overtaken, last>>

-----------------------------------------------------------------------------
(* POST /1.0/system/network/:confirm.                                      *)

ConfirmCheck(c) ==
    /\ conf[c] = "idle"
    /\ conf' = [conf EXCEPT ![c] = IF pending THEN "send" ELSE "refused"]
    /\ confOf' = [confOf EXCEPT ![c] = IF pending THEN {r \in Requests : Watching(r)} ELSE {}]
    /\ UNCHANGED <<memory, disk, stage, target, restarts, base, safe,
                   outcome, overtaken, last>>

\* Mutant: a send that never waits for room in the channel.
ConfirmSendUnbounded(c) ==
    /\ conf[c] = "send"
    /\ channel' = Append(channel, "nil")
    /\ conf' = [conf EXCEPT ![c] = "ok"]
    /\ UNCHANGED <<config, prior, pending, inProcess, disk, stage, target,
                   restarts, history>>


ConfirmSend(c) ==
    /\ conf[c] = "send"
    /\ channel = << >>
    /\ channel' = <<"nil">>
    /\ conf' = [conf EXCEPT ![c] = "ok"]
    /\ UNCHANGED <<config, prior, pending, inProcess, disk, stage, target,
                   restarts, history>>

-----------------------------------------------------------------------------

Apply(a) ==
    \/ ApplyBegin(a)
    \/ ApplySet(a)
    \/ ApplyOnline(a)
    \/ ApplySave(a)
    \/ ApplyFault(a)

Handler(r) ==
    \/ \E c \in Configs : PutCheck(r, c)
    \/ PutStart(r)
    \/ PutArm(r)
    \/ PutFailed(r)
    \/ PutSendErr(r)

Watcher(r) ==
    \/ WatchReceive(r)
    \/ WatchTimeout(r)
    \/ WatchReset(r)
    \/ WatchClearPrior(r)

Confirm(c) ==
    \/ ConfirmCheck(c)
    \/ ConfirmSend(c)

Next ==
    \/ \E a \in Actors : Apply(a)
    \/ \E r \in Requests : Handler(r) \/ Watcher(r)
    \/ \E c \in Confirms : Confirm(c)
    \/ Get
    \/ OtherSave
    \/ Crash
    \/ Panic
    \/ BootFailed

\* A goroutine that can take a step takes it: the applications are bounded by
\* their own timeouts and the watcher's timer fires.  Nothing makes a client
\* send a request, nor the daemon crash.
Fairness ==
    /\ \A a \in Actors : WF_vars(Apply(a))
    /\ \A r \in Requests : WF_vars(PutStart(r) \/ PutArm(r) \/ PutFailed(r) \/ PutSendErr(r))
    /\ \A r \in Requests : WF_vars(Watcher(r))
    /\ \A c \in Confirms : WF_vars(ConfirmSend(c))
    /\ WF_vars(Panic)

Spec == Init /\ [][Next]_vars
FairSpec == Spec /\ Fairness

-----------------------------------------------------------------------------
(* Properties.                                                             *)

\* From the moment a timed PUT is armed until its watcher resets the flag, unless the
\* change was confirmed, a crash at any point brings back a configuration that was in
\* force before the PUT: whatever was saved, by whom and when, the state file never
\* recovers to the unconfirmed configuration. The exception is a PUT that was armed after
\* the watcher of an earlier one had reset the flag and before it cleared the copy: it
\* then clears the copy of the new one.
CrashRestores ==
    \A r \in Requests \ overtaken :
        Settling(r) /\ outcome[r] # "confirmed" => Recovered(disk) \in safe[r]

\* A pending change always has a watcher that has yet to settle it: otherwise
\* every later PUT would be refused until the daemon restarts.
PendingHasWatcher ==
    pending => \E r \in Requests : Settling(r)

\* No configuration starts being applied while another request's change is
\* waiting for its confirmation (the check at the top of the PUT handler).
NoChangeWhilePending ==
    [][\A r, q \in Requests :
          r # q /\ stage[Watch(r)] = "wait" /\ stage[Put(q)] = "begin"
            => stage'[Put(q)] # "set"]_vars

\* A pending change is settled, by a confirmation, an error or the timeout,
\* whatever becomes of its application.
PendingSettles == pending ~> ~pending

(* Statements of the documentation and comments.                           *)

\* doc/reference/system/network.md: a change with a confirmation timeout that
\* nobody confirmed is rolled back.
RolledBackUnlessConfirmed ==
    \A r \in Requests :
        /\ last = r /\ restarts = 0
        /\ stage[Watch(r)] = "done" /\ AtRest(Put(r))
        /\ \A c \in Confirms : r \notin confOf[c]
        => config = base

\* The comment where the copy is made: it can be used to restore things if the system
\* is rebooted before the change is settled.
KeptUntilSettled ==
    \A r \in Requests :
        Settling(r) /\ outcome[r] # "confirmed" => Recovered(disk) \in safe[r]

\* The API description of :confirm: a confirmation that was answered with
\* success cancels the automatic roll back.
ConfirmCancelsRollback ==
    \A c \in Confirms : conf[c] = "ok" => \A r \in confOf[c] : outcome[r] # "rollback"
=============================================================================
