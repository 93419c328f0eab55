---------------------------- MODULE DaemonProofs ----------------------------
(***************************************************************************)
(* Proofs about Daemon for any number of requests and faults, wherever the *)
(* primary application fails: the types, and that startup never blocks on  *)
(* the channel of the fallback listener.                                   *)
(*                                                                         *)
(* The second needs that nobody but startup uses that channel before the   *)
(* periodic checks exist (EarlyQuiet), and that the channel is empty at    *)
(* either send of startup: at the second one because a value of the first  *)
(* one means that the system runs from its backup image (EarlyToken).      *)
(* Updates of the primary application requested during startup would use   *)
(* the channel too, and are excluded.                                      *)
(***************************************************************************)
EXTENDS Daemon, TLAPS

\* The stages of startup before the periodic checks exist.
Early == {"prepare", "channel", "backup", "configure", "check", "apps", "trigger", "spawn"}

EarlyQuiet ==
    at["main"] \in Early \cup {"down"} =>
        /\ at["loop"] = "idle" /\ at["periodic"] = "idle"
        /\ at["delayed"] \in {"idle", "late"}
        /\ \A r \in Requests :
             at[r] \in {"idle", "stuck", "done"} \/ (at[r] = "check" /\ kind[r] = "os")
        /\ made \subseteq {"fallback"}

EarlyToken ==
    /\ at["main"] \in {"prepare", "channel", "down"} => made = {}
    /\ at["main"] \in {"backup", "trigger"} => token = {}
    /\ at["main"] \in {"configure", "check", "apps"} /\ token # {} => behind

Inv == TypeOK /\ EarlyQuiet /\ EarlyToken

\* The daemon starts with everything but startup idle.
LEMMA InitInv == ASSUME Init PROVE Inv
<1>1. TypeOK
  <2>1. at \in [Actors -> Stages]
    BY DEF Init, Stages, Startup
  <2>2. left \in 0..Faults
    BY SettingAssumption DEF Init
  <2>3. going \in {"no", "reboot", "shutdown"}
    BY DEF Init
  <2>4. behind \in BOOLEAN /\ need \in BOOLEAN
    BY Zenon DEF Init
  <2> QED BY <2>1, <2>2, <2>3, <2>4 DEF Init, TypeOK
<1>2. EarlyQuiet
  BY RequestAssumption DEF Init, EarlyQuiet, Actors
<1>3. EarlyToken
  BY DEF Init, EarlyToken
<1> QED BY <1>1, <1>2, <1>3 DEF Inv

\* A process that has ended satisfies the invariant.
LEMMA DieInv ==
    ASSUME Inv, Die, behind' \in BOOLEAN, going' \in {"no", "reboot", "shutdown"},
           left' \in 0..Faults
    PROVE  Inv'
BY RequestAssumption DEF Die, Inv, TypeOK, EarlyQuiet, EarlyToken, Actors, Stages, Early

\* The steps of startup.
LEMMA MainInv == ASSUME Inv, Main \/ StartupFault PROVE Inv'
<1> USE DEF Early, Startup, Stages, Actors, Chans, Kinds
<1>r. Requests \cap {"main", "loop", "periodic", "delayed"} = {}
  BY RequestAssumption
<1>c. ASSUME StartupCheck
      PROVE  behind' \in BOOLEAN /\ (behind => behind') /\ going' \in {"no", "reboot", "shutdown"}
  BY <1>c DEF StartupCheck, StageFails, CheckOS, StageOS, AskReboot, Inv, TypeOK
<1>1. CASE Prepare
  BY <1>1, <1>r, <1>c DEF Prepare, Move, Inv, TypeOK, EarlyQuiet, EarlyToken
<1>2. CASE MakeChannel
  BY <1>2, <1>r DEF MakeChannel, Move, Inv, TypeOK, EarlyQuiet, EarlyToken
<1>3. CASE BackupTrigger
  BY <1>3, <1>r DEF BackupTrigger, Put, Move, Inv, TypeOK, EarlyQuiet, EarlyToken
<1>4. CASE Configure
  BY <1>4, <1>r DEF Configure, Move, Inv, TypeOK, EarlyQuiet, EarlyToken
<1>5. CASE InitialCheck
  BY <1>5, <1>r, <1>c DEF InitialCheck, Move, Inv, TypeOK, EarlyQuiet, EarlyToken
<1>6. CASE StartApplications
  BY <1>6, <1>r DEF StartApplications, Move, Inv, TypeOK, EarlyQuiet, EarlyToken
<1>7. CASE StartupTrigger
  BY <1>7, <1>r DEF StartupTrigger, Put, Move, Inv, TypeOK, EarlyQuiet, EarlyToken
<1>8. CASE SpawnChecker
  BY <1>8, <1>r DEF SpawnChecker, Inv, TypeOK, EarlyQuiet, EarlyToken
<1>9. CASE Register
  BY <1>9, <1>r DEF Register, Move, Inv, TypeOK, EarlyQuiet, EarlyToken
<1>10. CASE StartActions
  BY <1>10, <1>r DEF StartActions, Inv, TypeOK, EarlyQuiet, EarlyToken
<1>11. CASE Ready
  BY <1>11, <1>r DEF Ready, Move, Inv, TypeOK, EarlyQuiet, EarlyToken
<1>12. CASE Exit
  BY <1>12, DieInv DEF Exit, Inv, TypeOK
<1>13. CASE StartupFault
  BY <1>13, <1>r, SettingAssumption
     DEF StartupFault, Move, Inv, TypeOK, EarlyQuiet, EarlyToken
<1> QED
  BY <1>1, <1>2, <1>3, <1>4, <1>5, <1>6, <1>7, <1>8, <1>9, <1>10, <1>11, <1>12, <1>13 DEF Main

\* A step of a goroutine other than the main one, which exists, or of a request
\* that is being handled: startup is past its sends.
LEMMA OtherInv ==
    ASSUME Inv, NEW a \in Actors \ {"main"},
           at[a] \notin {"idle", "late", "stuck", "done"},
           a \in Requests => at[a] # "check" \/ kind[a] # "os",
           NEW s \in Stages, Move(a, s),
           kind' \in [Requests -> Kinds \cup {"none"}],
           made' = made, token' \subseteq made,
           behind' \in BOOLEAN, going' \in {"no", "reboot", "shutdown"},
           left' = left, need' \in BOOLEAN
    PROVE  Inv'
<1>1. at["main"] \notin Early \cup {"down"}
  BY DEF Inv, EarlyQuiet, Actors
<1>2. at'["main"] = at["main"] /\ at' \in [Actors -> Stages]
  BY DEF Move, Inv, TypeOK, Actors
<1> QED BY <1>1, <1>2 DEF Inv, TypeOK, EarlyQuiet, EarlyToken, Early

\* The action loop, the periodic and the delayed check, and the requests.
LEMMA OthersInv ==
    ASSUME Inv, "app" \notin EarlyKinds,
           \/ \E c \in Chans : LoopTake(c)
           \/ Loop
           \/ Check("periodic") \/ Send("periodic") \/ DelayedCheck
           \/ \E r \in Requests : Receive(r) \/ Check(r) \/ Send(r)
    PROVE  Inv'
<1>r. Requests \cap {"main", "loop", "periodic", "delayed"} = {}
  BY RequestAssumption
<1>c. ASSUME CheckOS(AutoReboot) \/ StartupCheck
      PROVE  behind' \in BOOLEAN /\ (behind => behind') /\ going' \in {"no", "reboot", "shutdown"}
  BY <1>c DEF StartupCheck, StageFails, CheckOS, StageOS, AskReboot, Inv, TypeOK
<1>1. ASSUME NEW c \in Chans, LoopTake(c) PROVE Inv'
  <2>1. c \in Stages
    BY DEF Chans, Kinds, Stages, Startup, Endings
  <2> QED BY <1>1, <2>1, OtherInv DEF LoopTake, Inv, TypeOK, Actors
<1>2. CASE LoopSuspend \/ StartFallbackListener
  BY <1>2, OtherInv DEF LoopSuspend, StartFallbackListener, Inv, TypeOK, Actors, Stages
<1>3. CASE LoopEnd
  BY <1>3, DieInv DEF LoopEnd, Endings, Inv, TypeOK
<1>4. ASSUME NEW a \in Actors \ {"main"}, Check(a) PROVE Inv'
  <2>1. at[a] \in {"update", "sleep", "check"}
    BY <1>4 DEF Check, Checking
  <2>2. PICK s \in {After(a), "send", "stuck"} : Move(a, s)
    BY <1>4 DEF Check, Finish
  <2>3. s \in Stages
    BY <2>2 DEF After, Stages
  <2>4. /\ behind' \in BOOLEAN /\ (behind => behind')
        /\ going' \in {"no", "reboot", "shutdown"}
    BY <1>4, <1>c DEF Check, StartupCheck, Inv, TypeOK
  <2>5. need' \in BOOLEAN
    BY <1>4 DEF Check, Inv, TypeOK
  <2>6. /\ kind' \in [Requests -> Kinds \cup {"none"}]
        /\ \A r \in Requests \ {a} : kind'[r] = kind[r]
    BY <1>4 DEF Check, Finish, Inv, TypeOK
  <2>7. CASE a \in Requests /\ at[a] = "check" /\ kind[a] = "os"
    <3>1. s = "done"
      BY <1>4, <1>r, <2>2, <2>7
         DEF Check, OnlyOS, Finish, After, Move, Inv, TypeOK, Stages
    <3>2. at' = [at EXCEPT ![a] = "done"]
      BY <2>2, <3>1 DEF Move
    <3>3. TypeOK'
      BY <1>4, <2>4, <2>5, <2>6, <3>2 DEF Check, Inv, TypeOK, Stages
    <3>4. EarlyQuiet'
      BY <1>4, <1>r, <2>6, <2>7, <3>2 DEF Check, Inv, TypeOK, EarlyQuiet, Actors
    <3>5. EarlyToken'
      BY <1>4, <1>r, <2>4, <2>7, <3>2 DEF Check, Inv, TypeOK, EarlyToken, Actors
    <3> QED BY <3>3, <3>4, <3>5 DEF Inv
  <2>8. CASE ~(a \in Requests /\ at[a] = "check" /\ kind[a] = "os")
    BY <1>4, <2>1, <2>2, <2>3, <2>4, <2>5, <2>6, <2>8, OtherInv DEF Check, Inv, TypeOK
  <2> QED BY <2>7, <2>8
<1>5. ASSUME NEW a \in Actors \ {"main"}, Send(a) PROVE Inv'
  <2>1. After(a) \in Stages
    BY DEF After, Stages
  <2>2. token' \subseteq made /\ kind' \in [Requests -> Kinds \cup {"none"}]
    BY <1>5 DEF Send, Put, Finish, Inv, TypeOK
  <2> QED BY <1>5, <2>1, <2>2, OtherInv DEF Send, Finish, Inv, TypeOK
<1>6. CASE DelayedCheck
  BY <1>6, <1>c, <1>r, OtherInv DEF DelayedCheck, Inv, TypeOK, Actors, Stages
<1>7. ASSUME NEW r \in Requests, Receive(r) PROVE Inv'
  <2>1. PICK k \in Kinds :
            /\ at["main"] \in Startup => k \in EarlyKinds
            /\ IF k \in made \cup {"app", "os"}
                 THEN /\ kind' = [kind EXCEPT ![r] = k]
                      /\ Move(r, IF k \in {"app", "os"} THEN "check" ELSE "send")
                 ELSE Move(r, "stuck") /\ UNCHANGED kind
    BY <1>7 DEF Receive
  <2>2. TypeOK'
    BY <1>7, <2>1 DEF Receive, Move, Inv, TypeOK, Actors, Stages, Startup
  <2>3. at'["main"] = at["main"] /\ at["main"] # "down"
    BY <1>7, <1>r, <2>1 DEF Receive, Move, Inv, TypeOK, Actors
  <2>4. at["main"] \in Early =>
            \/ Move(r, "stuck") /\ UNCHANGED kind
            \/ Move(r, "check") /\ kind' = [kind EXCEPT ![r] = "os"]
    BY <2>1 DEF Early, Startup, Kinds, Inv, EarlyQuiet
  <2>5. EarlyQuiet'
    <3> SUFFICES ASSUME at["main"] \in Early PROVE EarlyQuiet'
      BY <2>3 DEF EarlyQuiet
    <3>1. \/ at' = [at EXCEPT ![r] = "stuck"] /\ kind' = kind
          \/ at' = [at EXCEPT ![r] = "check"] /\ kind' = [kind EXCEPT ![r] = "os"]
      BY <2>4 DEF Move
    <3>2. /\ at'["loop"] = at["loop"] /\ at'["periodic"] = at["periodic"]
          /\ at'["delayed"] = at["delayed"]
      BY <1>r, <3>1 DEF Inv, TypeOK, Actors
    <3>3. \A q \in Requests :
            at'[q] \in {"idle", "stuck", "done"} \/ (at'[q] = "check" /\ kind'[q] = "os")
      BY <3>1 DEF Inv, TypeOK, EarlyQuiet, Actors
    <3> QED BY <1>7, <3>2, <3>3 DEF Receive, Inv, EarlyQuiet
  <2>6. EarlyToken'
    BY <1>7, <2>3 DEF Receive, Inv, EarlyToken
  <2> QED BY <2>2, <2>5, <2>6 DEF Inv
<1> QED
  BY <1>1, <1>2, <1>3, <1>4, <1>5, <1>6, <1>7, <1>r DEF Loop, Actors

\* systemd stops the daemon, starts it and boots the system.
LEMMA SystemdInv == ASSUME Inv, Systemd \/ KillDaemon \/ RestartDaemon PROVE Inv'
<1>1. ASSUME Signal, behind' = behind, going' = going, left' \in 0..Faults PROVE Inv'
  <2>1. CASE "signal" \in made
    BY <1>1, <2>1 DEF Signal, Inv, TypeOK, EarlyQuiet, EarlyToken, Early
  <2>2. CASE "signal" \notin made
    BY <1>1, <2>2, DieInv DEF Signal, Inv, TypeOK
  <2> QED BY <2>1, <2>2
<1>2. CASE StopDaemon
  BY <1>1, <1>2 DEF StopDaemon, Inv, TypeOK
<1>3. CASE RestartDaemon
  BY <1>1, <1>3, SettingAssumption DEF RestartDaemon, Inv, TypeOK
<1>4. CASE KillDaemon
  BY <1>4, DieInv DEF KillDaemon, Inv, TypeOK
<1>5. CASE StartDaemon \/ Boot
  <2>1. at' = [at EXCEPT !["main"] = "prepare"] /\ at["main"] = "down"
    BY <1>5 DEF StartDaemon, Boot, Move
  <2>2. TypeOK'
    BY <1>5, <2>1 DEF StartDaemon, Boot, Inv, TypeOK, Stages, Startup
  <2>3. \A a \in Actors \ {"main"} : at'[a] = at[a]
    BY <2>1 DEF Inv, TypeOK
  <2>4. EarlyQuiet'
    BY <1>5, <2>1, <2>3, RequestAssumption DEF StartDaemon, Boot, Inv, EarlyQuiet, Actors
  <2>5. EarlyToken'
    BY <1>5, <2>1 DEF StartDaemon, Boot, Inv, TypeOK, EarlyToken, Actors
  <2> QED BY <2>2, <2>4, <2>5 DEF Inv
<1> QED BY <1>2, <1>3, <1>4, <1>5 DEF Systemd

\* Every step keeps the invariant.
LEMMA StepInv == ASSUME "app" \notin EarlyKinds, Inv, [Next]_vars PROVE Inv'
<1>1. CASE Next
  BY <1>1, MainInv, OthersInv, SystemdInv DEF Next
<1>2. CASE UNCHANGED vars
  BY <1>2 DEF vars, Inv, TypeOK, EarlyQuiet, EarlyToken
<1> QED BY <1>1, <1>2

\* The daemon's state is well typed, and only a channel that has been made holds a
\* value, when no application update is requested during startup.
THEOREM TypeCorrect == ("app" \notin EarlyKinds) /\ Spec => []TypeOK
<1> SUFFICES ASSUME "app" \notin EarlyKinds PROVE Spec => []TypeOK
  OBVIOUS
<1>1. Inv => TypeOK
  BY DEF Inv
<1> QED BY <1>1, InitInv, StepInv, PTL DEF Spec

\* Neither of the two sends of startup to the listener's channel ever finds it
\* full (startup and startApplications).
THEOREM StartupGoesOn == ("app" \notin EarlyKinds) /\ Spec => []StartupNeverBlocks
<1> SUFFICES ASSUME "app" \notin EarlyKinds PROVE Spec => []StartupNeverBlocks
  OBVIOUS
<1>1. Inv => StartupNeverBlocks
  BY DEF Inv, EarlyToken, StartupNeverBlocks
<1> QED BY <1>1, InitInv, StepInv, PTL DEF Spec
=============================================================================
