------------------------------- MODULE Daemon -------------------------------
(***************************************************************************)
(* The incus-osd process: its startup sequence, the loop that carries out  *)
(* reboots, update checks and the like, the goroutines and request         *)
(* handlers that ask for them over channels of capacity one, and systemd,  *)
(* which restarts the daemon and stops it when the system goes down.       *)
(*                                                                         *)
(* What the steps do to the network, the applications and the OS images is *)
(* the subject of the other modules; here a step succeeds or fails.  The   *)
(* listener in question is the fallback HTTPS listener, the way in when    *)
(* the primary application is not there.                                   *)
(***************************************************************************)
EXTENDS Naturals

CONSTANTS
    Requests,    \* the requests that come in
    EarlyKinds,  \* the kinds that may come in during startup
    Fails,       \* where the primary application may fail to start or to reload
    RebootFails, \* an OS update may be staged without the reboot that follows it
    AutoReboot,  \* s.System.Update.Config.AutoReboot
    Faults       \* how many startup steps may fail

Kinds == {"reboot", "shutdown", "suspend", "update", "app", "os"}
Chans == (Kinds \ {"app", "os"}) \cup {"fallback", "signal"}
Actors == {"main", "loop", "periodic", "delayed"} \cup Requests

ASSUME RequestAssumption ==
    /\ EarlyKinds \subseteq Kinds
    /\ Requests \cap {"main", "loop", "periodic", "delayed"} = {}
ASSUME SettingAssumption ==
    /\ Fails \subseteq Actors
    /\ RebootFails \in BOOLEAN /\ AutoReboot \in BOOLEAN
    /\ Faults \in Nat

VARIABLES
    at,      \* where each goroutine is
    kind,    \* what each request that is being handled asks for
    made,    \* the channels that have been made; the others are nil
    token,   \* the channels that hold a value
    behind,  \* s.OS.RunningFromBackup()
    going,   \* what systemd has been asked to do to the system
    left,    \* how many faults are left
    need     \* history: the listener is called for and was not tried since

vars == <<at, kind, made, token, behind, going, left, need>>

Startup == {"prepare", "channel", "backup", "configure", "check", "apps", "trigger",
            "spawn", "register", "actions", "ready"}
Endings == {"reboot", "shutdown", "signal"}
Stages == Startup \cup Endings
          \cup {"idle", "sleep", "send", "stuck", "done", "select", "suspend",
                "update", "fallback", "late", "failing", "serve", "down"}

TypeOK ==
    /\ at \in [Actors -> Stages]
    /\ kind \in [Requests -> Kinds \cup {"none"}]
    /\ made \subseteq Chans /\ token \subseteq made
    /\ behind \in BOOLEAN /\ need \in BOOLEAN
    /\ going \in {"no", "reboot", "shutdown"}
    /\ left \in 0..Faults

Init ==
    /\ at = [a \in Actors |-> IF a = "main" THEN "prepare" ELSE "idle"]
    /\ kind = [r \in Requests |-> "none"]
    /\ made = {} /\ token = {}
    /\ behind \in BOOLEAN
    /\ going = "no"
    /\ left = Faults /\ need = FALSE

-----------------------------------------------------------------------------

Move(a, stage) == at' = [at EXCEPT ![a] = stage]

\* A value is put in a channel, or the goroutine waits.
Put(c) ==
    /\ c \in made /\ c \notin token
    /\ token' = token \cup {c}

\* The process ends, and with it its goroutines and the handlers it runs.
Die ==
    /\ at' = [a \in Actors |-> IF a = "main" THEN "down"
                               ELSE IF a \in Requests /\ at[a] # "idle" THEN "done"
                               ELSE "idle"]
    /\ kind' = [r \in Requests |-> "none"]
    /\ made' = {} /\ token' = {}
    /\ need' = FALSE

\* The system is told to reboot.
AskReboot == going' = IF going = "no" THEN "reboot" ELSE going

\* An OS update is staged; NextRelease is then not the release that runs.
StageOS(reboots) ==
    /\ behind' = TRUE
    /\ IF reboots THEN AskReboot ELSE UNCHANGED going

\* It is staged, and an error comes before the reboot (the list of encrypted
\* volumes, the provider's notifications, the reboot itself) and ends the check.
StageFails ==
    /\ RebootFails
    /\ behind' = TRUE /\ UNCHANGED going

\* There is no OS update, or there is one.
CheckOS(reboots) == StageOS(reboots) \/ UNCHANGED <<behind, going>>

\* A check of startup: new Secure Boot keys may ask for a reboot too.  No
\* application is reloaded.
StartupCheck ==
    \/ CheckOS(TRUE) \/ StageFails
    \/ AskReboot /\ UNCHANGED behind

-----------------------------------------------------------------------------
(* startup and run.                                                        *)

\* Up to the first channel: keys, recovery (which may apply an OS update),
\* encryption, swap, kernel settings and migrations.
Prepare ==
    /\ at["main"] = "prepare"
    /\ Move("main", "channel")
    /\ StartupCheck
    /\ UNCHANGED <<kind, made, token, left, need>>

MakeChannel ==
    /\ at["main"] = "channel"
    /\ made' = made \cup {"fallback"}
    /\ Move("main", "backup")
    /\ UNCHANGED <<kind, token, behind, going, left, need>>

\* When running from the backup image, ask for the listener.
BackupTrigger ==
    /\ at["main"] = "backup"
    /\ IF behind THEN Put("fallback") /\ need' = TRUE ELSE UNCHANGED <<token, need>>
    /\ Move("main", "configure")
    /\ UNCHANGED <<kind, made, behind, going, left>>

\* Network, extensions, services, storage and provider.  With an application
\* that has to be up first, the update check is put off.
Configure ==
    /\ at["main"] = "configure"
    /\ \/ Move("main", "check")
       \/ at' = [at EXCEPT !["main"] = "apps", !["delayed"] = "late"]
    /\ UNCHANGED <<kind, made, token, behind, going, left, need>>

\* The blocking update check.  It goes on when the reboot it asked for is late.
InitialCheck ==
    /\ at["main"] = "check"
    /\ Move("main", "apps")
    /\ StartupCheck
    /\ UNCHANGED <<kind, made, token, left, need>>

\* Mutant: a primary application that does not start always asks for the listener.
StartApplicationsAlways ==
    /\ at["main"] = "apps"
    /\ \/ Move("main", "spawn") /\ UNCHANGED need
       \/ /\ "main" \in Fails
          /\ need' = TRUE
          /\ Move("main", "trigger")
    /\ UNCHANGED <<kind, made, token, behind, going, left>>

\* startApplications: when the primary application does not start the listener
\* is called for, which running from the backup image has done already.
StartApplications ==
    /\ at["main"] = "apps"
    /\ \/ Move("main", "spawn") /\ UNCHANGED need
       \/ /\ "main" \in Fails
          /\ need' = TRUE
          /\ Move("main", IF behind THEN "spawn" ELSE "trigger")
    /\ UNCHANGED <<kind, made, token, behind, going, left>>

StartupTrigger ==
    /\ at["main"] = "trigger"
    /\ Put("fallback")
    /\ Move("main", "spawn")
    /\ UNCHANGED <<kind, made, behind, going, left, need>>

SpawnChecker ==
    /\ at["main"] = "spawn"
    /\ at' = [at EXCEPT !["main"] = "register", !["periodic"] = "sleep"]
    /\ UNCHANGED <<kind, made, token, behind, going, left, need>>

\* Registration with the provider and the job scheduler.
Register ==
    /\ at["main"] = "register"
    /\ Move("main", "actions")
    /\ UNCHANGED <<kind, made, token, behind, going, left, need>>

\* The other channels, the handler of SIGTERM and the action loop.
StartActions ==
    /\ at["main"] = "actions"
    /\ made' = Chans
    /\ at' = [at EXCEPT !["main"] = "ready", !["loop"] = "select",
                        !["delayed"] = IF @ = "late" THEN "sleep" ELSE @]
    /\ UNCHANGED <<kind, token, behind, going, left, need>>

\* "System is ready": run waits for the API to go down.
Ready ==
    /\ at["main"] = "ready"
    /\ Move("main", "serve")
    /\ UNCHANGED <<kind, made, token, behind, going, left, need>>

\* A step of startup, or the notification that ends it, returns an error.  The
\* process stays for a while so that the message can be read.
StartupFault ==
    /\ at["main"] \in {"prepare", "configure", "apps", "register", "ready"}
    /\ left > 0 /\ left' = left - 1
    /\ Move("main", "failing")
    /\ UNCHANGED <<kind, made, token, behind, going, need>>

Exit ==
    /\ at["main"] = "failing"
    /\ Die
    /\ UNCHANGED <<behind, going, left>>

-----------------------------------------------------------------------------
(* The action loop.                                                        *)

\* select takes any channel that is ready.
LoopTake(c) ==
    /\ at["loop"] = "select"
    /\ c \in token
    /\ token' = token \ {c}
    /\ Move("loop", c)
    /\ need' = IF c = "fallback" THEN FALSE ELSE need
    /\ UNCHANGED <<kind, made, behind, going, left>>

\* Mutant: the loop ends when the system wakes up.
LoopSuspendEnds ==
    /\ at["loop"] = "suspend"
    /\ Move("loop", "done")
    /\ UNCHANGED <<kind, made, token, behind, going, left, need>>

\* The system sleeps and wakes up.
LoopSuspend ==
    /\ at["loop"] = "suspend"
    /\ Move("loop", "select")
    /\ UNCHANGED <<kind, made, token, behind, going, left, need>>

\* startFallbackListener: whether it can listen makes no difference here.
StartFallbackListener ==
    /\ at["loop"] = "fallback"
    /\ Move("loop", "select")
    /\ UNCHANGED <<kind, made, token, behind, going, left, need>>

\* shutdown, then what was asked for.  The daemon ends either way.
LoopEnd ==
    /\ at["loop"] \in Endings
    /\ Die
    /\ going' = IF at["loop"] = "signal" THEN going ELSE at["loop"]
    /\ UNCHANGED <<behind, left>>

-----------------------------------------------------------------------------
(* Update checks and requests.                                             *)

\* Where a goroutine goes when its check is over.
After(a) == IF a = "loop" THEN "select" ELSE IF a = "periodic" THEN "sleep" ELSE "done"

\* It goes there, and the request it handles, if any, is answered.
Finish(a) ==
    /\ Move(a, After(a))
    /\ kind' = [r \in Requests |-> IF r = a THEN "none" ELSE kind[r]]

\* The action loop and requests check for updates at once, the goroutine of the
\* periodic checks when it wakes up.
Checking(a) ==
    at[a] = IF a = "loop" THEN "update" ELSE IF a = "periodic" THEN "sleep" ELSE "check"

\* The check that was put off is a check of startup.
DelayedCheck ==
    /\ at["delayed"] = "sleep"
    /\ StartupCheck
    /\ Move("delayed", "done")
    /\ UNCHANGED <<kind, made, token, left, need>>

\* Whether a request is for an application or for the OS alone.
OnlyApp(a) == a \in Requests /\ kind[a] = "app"
OnlyOS(a) == a \in Requests /\ kind[a] = "os"

\* Mutant: a primary application that does not reload is only reported.
CheckReports(a) ==
    /\ a \notin {"main", "delayed"} /\ Checking(a)
    /\ \/ /\ StageFails /\ ~OnlyApp(a)
          /\ Finish(a) /\ UNCHANGED need
       \/ /\ IF OnlyApp(a) THEN UNCHANGED <<behind, going>> ELSE CheckOS(AutoReboot)
          /\ \/ Finish(a) /\ UNCHANGED need
             \/ /\ a \in Fails /\ ~OnlyOS(a)
                /\ need' = TRUE
                /\ Finish(a)
    /\ UNCHANGED <<made, token, left>>

\* Checker, InstallUpdateApp or a check of the OS alone: an OS update is staged,
\* then the applications that were updated are reloaded.
Check(a) ==
    /\ a \notin {"main", "delayed"} /\ Checking(a)
    /\ \/ /\ StageFails /\ ~OnlyApp(a)
          /\ Finish(a) /\ UNCHANGED need
       \/ /\ IF OnlyApp(a) THEN UNCHANGED <<behind, going>> ELSE CheckOS(AutoReboot)
          /\ \/ Finish(a) /\ UNCHANGED need
             \/ /\ a \in Fails /\ ~OnlyOS(a)
                /\ need' = TRUE
                /\ Move(a, IF "fallback" \in made THEN "send" ELSE "stuck")
                /\ UNCHANGED kind
    /\ UNCHANGED <<made, token, left>>

\* The channel a goroutine sends to.
Target(a) ==
    IF a \in Requests /\ kind[a] # "app" THEN kind[a] ELSE "fallback"

Send(a) ==
    /\ at[a] = "send"
    /\ Put(Target(a))
    /\ Finish(a)
    /\ UNCHANGED <<made, behind, going, left, need>>

\* A request comes in.  A send to a channel that is still nil blocks for ever.
Receive(r) ==
    /\ at[r] = "idle"
    /\ at["main"] # "down"
    /\ \E k \in Kinds :
        /\ at["main"] \in Startup => k \in EarlyKinds
        /\ IF k \in made \cup {"app", "os"}
             THEN /\ kind' = [kind EXCEPT ![r] = k]
                  /\ Move(r, IF k \in {"app", "os"} THEN "check" ELSE "send")
             ELSE Move(r, "stuck") /\ UNCHANGED kind
    /\ UNCHANGED <<made, token, behind, going, left, need>>

-----------------------------------------------------------------------------
(* systemd.                                                                *)

\* Mutant: SIGTERM waits for its handler.
SignalWaits ==
    /\ token' = token \cup {"signal"}
    /\ UNCHANGED <<at, kind, made, need>>

\* SIGTERM: it ends the process unless its handler is in place.
Signal ==
    IF "signal" \in made
      THEN /\ token' = token \cup {"signal"}
           /\ UNCHANGED <<at, kind, made, need>>
      ELSE Die

\* The system goes down.
StopDaemon ==
    /\ going # "no" /\ at["main"] # "down"
    /\ Signal
    /\ UNCHANGED <<behind, going, left>>

\* The daemon does not stop within TimeoutStopSec.
KillDaemon ==
    /\ going # "no" /\ "signal" \in token
    /\ Die
    /\ UNCHANGED <<behind, going, left>>

\* The operator restarts the service.
RestartDaemon ==
    /\ at["main"] # "down"
    /\ left > 0 /\ left' = left - 1
    /\ Signal
    /\ UNCHANGED <<behind, going>>

\* Restart=always
StartDaemon ==
    /\ at["main"] = "down" /\ going = "no"
    /\ Move("main", "prepare")
    /\ UNCHANGED <<kind, made, token, behind, going, left, need>>

\* The system comes up again, from either image.
Boot ==
    /\ at["main"] = "down" /\ going # "no"
    /\ going' = "no"
    /\ behind' \in BOOLEAN
    /\ Move("main", "prepare")
    /\ UNCHANGED <<kind, made, token, left, need>>

Main == \/ Prepare \/ MakeChannel \/ BackupTrigger \/ Configure \/ InitialCheck
        \/ StartApplications \/ StartupTrigger \/ SpawnChecker \/ Register
        \/ StartActions \/ Ready \/ Exit
Loop == LoopSuspend \/ StartFallbackListener \/ LoopEnd \/ Check("loop") \/ Send("loop")
Systemd == StopDaemon \/ StartDaemon \/ Boot

Next ==
    \/ Main \/ StartupFault
    \/ \E c \in Chans : LoopTake(c)
    \/ Loop
    \/ Check("periodic") \/ Send("periodic") \/ DelayedCheck
    \/ \E r \in Requests : Receive(r) \/ Check(r) \/ Send(r)
    \/ Systemd \/ KillDaemon \/ RestartDaemon

Spec == Init /\ [][Next]_vars

\* Goroutines run and systemd does what it is asked for.  select chooses at random
\* among the channels that are ready, so none is passed over for ever.
FairSpec ==
    /\ Spec
    /\ WF_vars(Main \/ Systemd) /\ WF_vars(Loop)
    /\ \A c \in {"fallback", "reboot", "shutdown"} : SF_vars(LoopTake(c))
    /\ WF_vars(\E c \in Chans : LoopTake(c))
    /\ WF_vars(Send("periodic"))
    /\ \A r \in Requests : WF_vars(Check(r) \/ Send(r))

-----------------------------------------------------------------------------
(* Properties.                                                             *)

\* startup has nobody to empty the channel of the listener, which takes a single
\* value: it never has two reasons to put one there (the backup image and a
\* primary application that does not start), or it would block for ever.
StartupNeverBlocks ==
    \/ at["main"] = "trigger"
    \/ at["main"] = "backup" /\ behind
    => "fallback" \notin token

\* A request to reboot or to power off that could be sent takes the daemon down.
RequestsHonoured ==
    (\E r \in Requests : at[r] = "send" /\ kind[r] \in {"reboot", "shutdown"})
        ~> at["main"] = "down"

\* "When IncusOS boots from the prior installed version, or if the primary
\* application fails to start, the system will automatically attempt to activate
\* a fallback API endpoint."
FallbackServed == need ~> ~need
=============================================================================
