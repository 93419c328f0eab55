------------------------ MODULE NetworkConfirmProofs ------------------------
(***************************************************************************)
(* Proofs about NetworkConfirm, for any number of configurations, requests *)
(* and confirmations: its state is well typed, and when PUT requests come  *)
(* one at a time, a crash before a change is confirmed never leaves the    *)
(* system on the unconfirmed configuration and no other change is started  *)
(* before it is settled.  However requests overlap, a pending change has a *)
(* watcher.                                                                *)
(***************************************************************************)
EXTENDS NetworkConfirm, TLAPS

\* The goroutines of two requests are different goroutines, and none of them is
\* the startup code.
LEMMA ActorsDistinct ==
    /\ \A r \in Requests : Put(r) \in Actors /\ Put(r) \in Puts
    /\ \A r \in Requests : Watch(r) \in Actors /\ Watch(r) \in Watches
    /\ Boot \in Actors
    /\ \A r, q : Put(r) # Watch(q)
    /\ \A r : Put(r) # Boot /\ Watch(r) # Boot
    /\ \A r, q : Put(r) = Put(q) => r = q
    /\ \A r, q : Watch(r) = Watch(q) => r = q
    /\ Boot \notin Puts /\ Boot \notin Watches
    /\ \A r : Put(r) \notin Watches /\ Watch(r) \notin Puts
    /\ \A a \in Watches : a \notin Puts
  BY DEF Actors, Puts, Watches, Put, Watch, Boot

\* What the proofs use of the types: an application that passed the progress
\* check has a configuration to apply.
TypeInv ==
    /\ TypeOK
    /\ \A a \in Actors : stage[a] = "set" => target[a] # None

\* Init establishes the type invariant.
LEMMA TypeInit == Init => TypeInv
<1> SUFFICES ASSUME Init PROVE TypeInv
  OBVIOUS
<1>1. stage \in [Actors -> Stages] /\ \A a \in Actors : stage[a] # "set"
  BY DEF Init, Stages, RestStages
<1>2. /\ target \in [Actors -> Configs \cup {None}]
      /\ safe \in [Requests -> SUBSET Configs]
      /\ confOf \in [Confirms -> SUBSET Requests]
  BY DEF Init
<1>3. /\ conf \in [Confirms -> {"idle", "send", "ok", "refused", "dead"}]
      /\ outcome \in [Requests -> {"none", "confirmed", "rollback"}]
  BY DEF Init
<1>4. /\ config \in Configs
      /\ prior \in Configs \cup {None}
      /\ base \in Configs \cup {None}
      /\ last \in Requests \cup {None}
      /\ disk \in [config : Configs, prior : Configs \cup {None}]
      /\ overtaken \subseteq Requests
  BY DEF Init
<1>5. /\ pending \in BOOLEAN
      /\ inProcess \in BOOLEAN
      /\ channel \in {<< >>, <<"nil">>, <<"err">>}
  BY DEF Init
<1>6. restarts \in 0..MaxRestarts
  BY RestartsAssumption DEF Init
<1> QED BY <1>1, <1>2, <1>3, <1>4, <1>5, <1>6 DEF TypeInv, TypeOK

\* Moving one goroutine to a stage keeps the stages well typed.
LEMMA LeaveType ==
  ASSUME TypeInv, NEW a \in Actors, NEW st \in Stages, st # "set", Leave(a, st)
  PROVE  /\ stage' \in [Actors -> Stages]
         /\ target' \in [Actors -> Configs \cup {None}]
         /\ \A b \in Actors : stage'[b] = "set" => target'[b] # None
  BY DEF TypeInv, TypeOK, Leave

\* Every step of applyNetworkConfiguration preserves the type invariant.
LEMMA TypeApply ==
  ASSUME TypeInv, NEW a \in Actors, Apply(a)
  PROVE  TypeInv'
<1> DEFINE StageOK ==
       /\ stage' \in [Actors -> Stages]
       /\ target' \in [Actors -> Configs \cup {None}]
       /\ \A b \in Actors : stage'[b] = "set" => target'[b] # None
<1>a. /\ AfterFailure(a) \in Stages \ {"set"} /\ AfterSuccess(a) \in Stages \ {"set"}
      /\ {"set", "online", "save", "done"} \subseteq Stages
  BY DEF AfterFailure, AfterSuccess, Stages, RestStages, ApplyStages
<1>1. CASE ApplyBegin(a)
  <2>1. StageOK
    <3>1. CASE inProcess
      BY <1>1, <1>a, <3>1, LeaveType DEF ApplyBegin
    <3>2. CASE ~inProcess
      BY <1>1, <1>a, <3>2 DEF ApplyBegin, TypeInv, TypeOK
    <3> QED BY <3>1, <3>2
  <2> QED BY <1>1, <2>1 DEF ApplyBegin, TypeInv, TypeOK, history
<1>2. CASE ApplySet(a)
  <2>1. target[a] \in Configs
    BY <1>2 DEF ApplySet, TypeInv, TypeOK
  <2>2. StageOK
    BY <1>2, <1>a DEF ApplySet, TypeInv, TypeOK
  <2> QED BY <1>2, <2>1, <2>2 DEF ApplySet, TypeInv, TypeOK, history
<1>3. CASE ApplyOnline(a)
  <2>1. StageOK
    <3>1. CASE a = Boot
      BY <1>3, <1>a, <3>1, LeaveType DEF ApplyOnline
    <3>2. CASE a # Boot
      BY <1>3, <1>a, <3>2 DEF ApplyOnline, TypeInv, TypeOK
    <3> QED BY <3>1, <3>2
  <2> QED BY <1>3, <2>1 DEF ApplyOnline, TypeInv, TypeOK, history
<1>4. CASE ApplySave(a)
  <2>1. StageOK
    BY <1>4, <1>a, LeaveType DEF ApplySave
  <2> QED BY <1>4, <2>1 DEF ApplySave, Save, TypeInv, TypeOK, history, memory
<1>5. CASE ApplyFault(a)
  <2>1. StageOK
    BY <1>5, <1>a, LeaveType DEF ApplyFault
  <2> QED BY <1>5, <2>1 DEF ApplyFault, TypeInv, TypeOK, history
<1> QED BY <1>1, <1>2, <1>3, <1>4, <1>5 DEF Apply

\* So does every other step of a PUT handler or a watcher.
LEMMA TypeRequest ==
  ASSUME TypeInv, NEW r \in Requests, Handler(r) \/ Watcher(r)
  PROVE  TypeInv'
<1> USE ActorsDistinct
<1>a. {"begin", "checked", "timed", "refused", "sendErr", "error", "wait",
       "reset", "clearPrior", "done"} \subseteq Stages \ {"set"}
  BY DEF Stages, RestStages, ApplyStages
<1> DEFINE StageOK ==
       /\ stage' \in [Actors -> Stages]
       /\ target' \in [Actors -> Configs \cup {None}]
       /\ \A b \in Actors : stage'[b] = "set" => target'[b] # None
<1>1. ASSUME NEW c \in Configs, PutCheck(r, c) PROVE TypeInv'
  <2>1. StageOK
    <3>1. CASE pending
      BY <1>1, <1>a, <3>1, LeaveType DEF PutCheck
    <3>2. CASE ~pending
      BY <1>1, <1>a, <3>2 DEF PutCheck, TypeInv, TypeOK
    <3> QED BY <3>1, <3>2
  <2> QED BY <1>1, <2>1 DEF PutCheck, TypeInv, TypeOK, memory, history
<1>2. CASE PutStart(r)
  <2>1. StageOK
    BY <1>2, <1>a DEF PutStart, TypeInv, TypeOK
  <2> QED BY <1>2, <2>1 DEF PutStart, TypeInv, TypeOK, memory
<1>3. CASE PutArm(r)
  <2>1. StageOK
    BY <1>3, <1>a DEF PutArm, TypeInv, TypeOK
  <2>2. Recovered(disk) \in Configs
    BY DEF Recovered, TypeInv, TypeOK
  <2>3. safe' \in [Requests -> SUBSET Configs]
    BY <1>3, <2>2 DEF PutArm, TypeInv, TypeOK
  <2>4. outcome' \in [Requests -> {"none", "confirmed", "rollback"}]
    BY <1>3 DEF PutArm, TypeInv, TypeOK
  <2> QED BY <1>3, <2>1, <2>3, <2>4 DEF PutArm, TypeInv, TypeOK
<1>4. CASE PutFailed(r)
  <2>1. StageOK
    BY <1>4, <1>a DEF PutFailed, TypeInv, TypeOK
  <2> QED BY <1>4, <2>1 DEF PutFailed, TypeInv, TypeOK, memory, history
<1>5. CASE PutSendErr(r)
  <2>1. StageOK
    BY <1>5, <1>a DEF PutSendErr, TypeInv, TypeOK
  <2> QED BY <1>5, <2>1 DEF PutSendErr, TypeInv, TypeOK, history
<1>6. CASE WatchReceive(r)
  <2>1. StageOK /\ outcome' \in [Requests -> {"none", "confirmed", "rollback"}]
    <3>1. CASE Head(channel) = "nil"
      BY <1>6, <1>a, <3>1 DEF WatchReceive, TypeInv, TypeOK
    <3>2. CASE Head(channel) # "nil"
      BY <1>6, <1>a, <3>2 DEF WatchReceive, TypeInv, TypeOK
    <3> QED BY <3>1, <3>2
  <2> QED BY <1>6, <2>1 DEF WatchReceive, TypeInv, TypeOK
<1>7. CASE WatchTimeout(r)
  <2>1. StageOK
    BY <1>7, <1>a DEF WatchTimeout, TypeInv, TypeOK
  <2> QED BY <1>7, <2>1 DEF WatchTimeout, TypeInv, TypeOK, memory
<1>8. CASE WatchReset(r)
  <2>1. StageOK
    BY <1>8, <1>a DEF WatchReset, TypeInv, TypeOK
  <2> QED BY <1>8, <2>1 DEF WatchReset, TypeInv, TypeOK, history
<1>9. CASE WatchClearPrior(r)
  <2>1. StageOK
    BY <1>9, <1>a DEF WatchClearPrior, TypeInv, TypeOK
  <2>2. disk' \in [config : Configs, prior : Configs \cup {None}]
    BY <1>9 DEF WatchClearPrior, TypeInv, TypeOK
  <2> QED BY <1>9, <2>1, <2>2 DEF WatchClearPrior, TypeInv, TypeOK
<1> QED BY <1>1, <1>2, <1>3, <1>4, <1>5, <1>6, <1>7, <1>8, <1>9 DEF Handler, Watcher

\* A restart brings the daemon back in a well-typed state.
LEMMA TypeRestart ==
  ASSUME TypeInv, NEW d \in [config : Configs, prior : Configs \cup {None}],
         RestartFrom(d)
  PROVE  TypeInv'
<1> USE ActorsDistinct
<1>1. Recovered(d) \in Configs
  BY DEF Recovered
<1>2. /\ stage' \in [Actors -> Stages]
      /\ target' \in [Actors -> Configs \cup {None}]
      /\ \A b \in Actors : stage'[b] = "set" => target'[b] # None
  BY <1>1 DEF RestartFrom, TypeInv, TypeOK, AtRest, Stages, RestStages, ApplyStages
<1>3. /\ conf' \in [Confirms -> {"idle", "send", "ok", "refused", "dead"}]
      /\ safe' \in [Requests -> SUBSET Configs]
  BY DEF RestartFrom, TypeInv, TypeOK
<1>4. restarts' \in 0..MaxRestarts
  BY RestartsAssumption DEF RestartFrom, TypeInv, TypeOK
<1>5. /\ config' \in Configs /\ prior' \in Configs \cup {None}
      /\ disk' \in [config : Configs, prior : Configs \cup {None}]
      /\ base' \in Configs \cup {None}
      /\ outcome' \in [Requests -> {"none", "confirmed", "rollback"}]
      /\ confOf' \in [Confirms -> SUBSET Requests] /\ overtaken' \subseteq Requests
      /\ last' \in Requests \cup {None}
  BY <1>1 DEF RestartFrom, TypeInv, TypeOK
<1>6. /\ pending' \in BOOLEAN /\ inProcess' \in BOOLEAN
      /\ channel' \in {<< >>, <<"nil">>, <<"err">>}
  BY DEF RestartFrom
<1> QED BY <1>2, <1>3, <1>4, <1>5, <1>6 DEF TypeInv, TypeOK

\* The steps that are left: confirmations, GETs and unrelated saves.
LEMMA TypeOther ==
  ASSUME TypeInv, Get \/ OtherSave \/ \E c \in Confirms : Confirm(c)
  PROVE  TypeInv'
<1>1. CASE Get
  BY <1>1 DEF Get, TypeInv, TypeOK, history
<1>2. CASE OtherSave
  BY <1>2 DEF OtherSave, Save, TypeInv, TypeOK, memory, history
<1>3. ASSUME NEW c \in Confirms, ConfirmCheck(c) PROVE TypeInv'
  <2>1. /\ conf' \in [Confirms -> {"idle", "send", "ok", "refused", "dead"}]
        /\ confOf' \in [Confirms -> SUBSET Requests]
    BY <1>3 DEF ConfirmCheck, TypeInv, TypeOK
  <2> QED BY <1>3, <2>1 DEF ConfirmCheck, TypeInv, TypeOK, memory
<1>4. ASSUME NEW c \in Confirms, ConfirmSend(c) PROVE TypeInv'
  BY <1>4 DEF ConfirmSend, TypeInv, TypeOK, history
<1> QED BY <1>1, <1>2, <1>3, <1>4 DEF Confirm

\* The next-state relation preserves the type invariant.
LEMMA TypeNext == TypeInv /\ [Next]_vars => TypeInv'
<1> SUFFICES ASSUME TypeInv, [Next]_vars PROVE TypeInv'
  OBVIOUS
<1>1. CASE UNCHANGED vars
  BY <1>1 DEF vars, TypeInv, TypeOK
<1>2. disk \in [config : Configs, prior : Configs \cup {None}]
      /\ [config |-> config, prior |-> prior] \in [config : Configs, prior : Configs \cup {None}]
  BY DEF TypeInv, TypeOK
<1>3. CASE Crash \/ Panic \/ BootFailed
  BY <1>2, <1>3, TypeRestart DEF Crash, Panic, BootFailed
<1>4. CASE Next /\ ~(Crash \/ Panic \/ BootFailed)
  BY <1>4, TypeApply, TypeRequest, TypeOther DEF Next
<1> QED BY <1>1, <1>3, <1>4

\* Every reachable state of the network component is well typed; in particular
\* the channel never holds more than one value.
THEOREM TypeCorrect == Spec => []TypeOK
<1>1. TypeInv => TypeOK
  BY DEF TypeInv
<1> QED BY <1>1, TypeInit, TypeNext, PTL DEF Spec

-----------------------------------------------------------------------------
(* A crash before the confirmation.                                        *)

\* At most one watcher has yet to reset the flag.
OneWatcher == \A r, q \in Requests : Settling(r) /\ Settling(q) => r = q

\* A handler that is about to arm a watcher is alone with watchers that did.
ArmsAlone ==
    \A r \in Requests : stage[Put(r)] = "timed" =>
        /\ \A q \in Requests : ~Settling(q)
        /\ \A q \in Requests : q # r => AtRest(Put(q))

\* The pending flag is set until the watcher resets it.
PendingWhileWatching == \A r \in Requests : Settling(r) => pending

\* But for a watcher that was overtaken, the kept configuration is one from before,
\* and nobody is about to clear it.
PriorSafe ==
    \A r \in Requests \ overtaken : Settling(r) =>
        /\ prior # None /\ prior \in safe[r]
        /\ \A q \in Requests : stage[Watch(q)] # "clearPrior"

\* A watcher that is still waiting has not been confirmed.
WaitUnconfirmed ==
    \A r \in Requests : stage[Watch(r)] = "wait" => outcome[r] # "confirmed"

\* While a watcher waits no other request is being handled.
WaitAlone ==
    \A r, q \in Requests : r # q /\ stage[Watch(r)] = "wait" => AtRest(Put(q))

\* The inductive invariant: CrashRestores alone is not inductive, since a save
\* is safe only while the kept configuration is, and that one is overwritten
\* and cleared by whoever else arms or watches a change.
CrashInv ==
    /\ TypeInv
    /\ OneWatcher
    /\ ArmsAlone
    /\ PendingWhileWatching
    /\ PriorSafe
    /\ WaitUnconfirmed
    /\ WaitAlone
    /\ CrashRestores

\* A step that moves no watcher in or out of its select, arms nothing and at
\* most saves the state.
Quiet ==
    /\ \A q \in Requests :
          /\ Watching(q)' <=> Watching(q)
          /\ stage'[Watch(q)] = "clearPrior" <=> stage[Watch(q)] = "clearPrior"
          /\ stage'[Watch(q)] = "wait" <=> stage[Watch(q)] = "wait"
          /\ stage'[Put(q)] = "timed" <=> stage[Put(q)] = "timed"
          /\ AtRest(Put(q)) => AtRest(Put(q))'
    /\ UNCHANGED <<prior, pending, safe, outcome, overtaken>>
    /\ disk' = disk \/ Save

\* What a save makes of a safe prior configuration.
LEMMA SaveSafe ==
  ASSUME CrashInv, Save, NEW r \in Requests \ overtaken, Settling(r)
  PROVE  Recovered(disk') \in safe[r]
  BY DEF CrashInv, PriorSafe, Save, Recovered

\* A quiet step preserves the invariant.
LEMMA QuietStep ==
  ASSUME CrashInv, TypeInv', Quiet
  PROVE  CrashInv'
<1>0. \A q \in Requests : Settling(q)' <=> Settling(q)
  BY DEF Quiet, Settling
<1>1. OneWatcher'
  BY <1>0 DEF CrashInv, OneWatcher, Quiet
<1>2. ArmsAlone'
  BY <1>0 DEF CrashInv, ArmsAlone, Quiet
<1>3. PendingWhileWatching'
  BY <1>0 DEF CrashInv, PendingWhileWatching, Quiet
<1>4. PriorSafe'
  BY <1>0 DEF CrashInv, PriorSafe, Quiet
<1>5. WaitUnconfirmed'
  BY <1>0 DEF CrashInv, WaitUnconfirmed, Quiet
<1>6. CrashRestores'
  <2>1. CASE disk' = disk
    BY <1>0, <2>1 DEF CrashInv, CrashRestores, Quiet
  <2>2. CASE Save
    BY <1>0, <2>2, SaveSafe DEF CrashRestores, Quiet
  <2> QED BY <2>1, <2>2 DEF Quiet
<1>7. WaitAlone'
  BY <1>0 DEF CrashInv, WaitAlone, Quiet
<1> QED BY <1>1, <1>2, <1>3, <1>4, <1>5, <1>6, <1>7 DEF CrashInv

\* The steps of applyNetworkConfiguration are quiet.
LEMMA ApplyQuiet ==
  ASSUME TypeInv, NEW a \in Actors, Apply(a)
  PROVE  Quiet
<1>1. /\ stage[a] \in ApplyStages
      /\ \E st \in Stages :
            /\ stage' = [stage EXCEPT ![a] = st]
            /\ a \in Watches => st \in ApplyStages \cup {"reset"}
            /\ a \in Puts => st # "timed"
      /\ UNCHANGED <<prior, pending, safe, outcome, overtaken>>
      /\ disk' = disk \/ Save
  <2> USE DEF history, memory, Leave, AfterFailure, AfterSuccess, Stages, ApplyStages, RestStages
  <2>1. CASE ApplyBegin(a)
    <3>1. CASE inProcess
      BY <2>1, <3>1, ActorsDistinct DEF ApplyBegin
    <3>2. CASE ~inProcess
      BY <2>1, <3>2, ActorsDistinct DEF ApplyBegin
    <3> QED BY <3>1, <3>2
  <2>2. CASE ApplySet(a)
    BY <2>2 DEF ApplySet
  <2>3. CASE ApplyOnline(a)
    BY <2>3, ActorsDistinct DEF ApplyOnline
  <2>4. CASE ApplySave(a)
    BY <2>4, ActorsDistinct DEF ApplySave
  <2>5. CASE ApplyFault(a)
    <3>1. /\ AfterFailure(a) \in Stages
          /\ a \in Watches => AfterFailure(a) = "reset"
          /\ AfterFailure(a) # "timed"
      OBVIOUS
    <3>2. stage[a] \in ApplyStages /\ stage' = [stage EXCEPT ![a] = AfterFailure(a)]
      BY <2>5 DEF ApplyFault
    <3> QED BY <2>5, <3>1, <3>2 DEF ApplyFault
  <2> QED BY <2>1, <2>2, <2>3, <2>4, <2>5 DEF Apply
<1>2. PICK st \in Stages :
            /\ stage' = [stage EXCEPT ![a] = st]
            /\ a \in Watches => st \in ApplyStages \cup {"reset"}
            /\ a \in Puts => st # "timed"
  BY <1>1
<1>3. ASSUME NEW q \in Requests
      PROVE  /\ Watching(q)' <=> Watching(q)
             /\ stage'[Watch(q)] = "clearPrior" <=> stage[Watch(q)] = "clearPrior"
             /\ stage'[Watch(q)] = "wait" <=> stage[Watch(q)] = "wait"
    <2>1. CASE a = Watch(q)
      BY <1>1, <1>2, <2>1, ActorsDistinct DEF Watching, ApplyStages, TypeInv, TypeOK
    <2>2. CASE a # Watch(q)
      BY <1>2, <2>2, ActorsDistinct DEF Watching, TypeInv, TypeOK
    <2> QED BY <2>1, <2>2
<1>4. ASSUME NEW q \in Requests
      PROVE  /\ stage'[Put(q)] = "timed" <=> stage[Put(q)] = "timed"
             /\ AtRest(Put(q)) => AtRest(Put(q))'
    <2>1. CASE a = Put(q)
      BY <1>1, <1>2, <2>1, ActorsDistinct DEF AtRest, ApplyStages, RestStages, TypeInv, TypeOK
    <2>2. CASE a # Put(q)
      BY <1>2, <2>2, ActorsDistinct DEF AtRest, TypeInv, TypeOK
    <2> QED BY <2>1, <2>2
<1> QED BY <1>1, <1>3, <1>4 DEF Quiet

\* A step of a PUT handler preserves the invariant when PUTs come one at a time.
LEMMA HandlerStep ==
  ASSUME Serial, CrashInv, TypeInv', NEW r \in Requests, Handler(r)
  PROVE  CrashInv'
<1> USE ActorsDistinct DEF Watching, Settling, AtRest
<1>1. ASSUME NEW c \in Configs, PutCheck(r, c) PROVE CrashInv'
  <2>1. PICK st \in {"refused", "checked", "timed"} :
           /\ stage' = [stage EXCEPT ![Put(r)] = st]
           /\ st # "refused" => ~pending
    BY <1>1 DEF PutCheck, Leave
  <2>2. UNCHANGED <<prior, pending, safe, outcome, overtaken, disk>>
    BY <1>1 DEF PutCheck, memory, history
  <2>3. \A q \in Requests : stage[Put(q)] \in RestStages
    BY <1>1 DEF PutCheck
  <2>4. \A q \in Requests : stage'[Watch(q)] = stage[Watch(q)]
    BY <2>1 DEF CrashInv, TypeInv, TypeOK
  <2>5. ArmsAlone'
    <3> SUFFICES ASSUME NEW q \in Requests, stage'[Put(q)] = "timed"
                 PROVE  /\ \A p \in Requests : ~Settling(p)'
                        /\ \A p \in Requests : p # q => AtRest(Put(p))'
      BY DEF ArmsAlone
    <3>1. q = r /\ st = "timed"
      BY <2>1, <2>3 DEF CrashInv, TypeInv, TypeOK, RestStages
    <3>2. \A p \in Requests : ~Settling(p)
      BY <3>1, <2>1, <2>3 DEF CrashInv, PendingWhileWatching
    <3> QED BY <3>1, <3>2, <2>1, <2>3, <2>4 DEF CrashInv, TypeInv, TypeOK
  <2>6. OneWatcher' /\ PendingWhileWatching' /\ PriorSafe' /\ WaitUnconfirmed' /\ CrashRestores'
    BY <2>2, <2>4 DEF CrashInv, OneWatcher, PendingWhileWatching, PriorSafe, WaitUnconfirmed, CrashRestores
  <2>7. WaitAlone'
    <3> SUFFICES ASSUME NEW p \in Requests, NEW q \in Requests, p # q, stage'[Watch(p)] = "wait"
                 PROVE  stage'[Put(q)] \in RestStages
      BY DEF WaitAlone
    <3>1. CASE q = r
      <4>1. pending
        BY <2>4 DEF CrashInv, PendingWhileWatching
      <4> QED BY <2>1, <3>1, <4>1 DEF CrashInv, TypeInv, TypeOK, RestStages
    <3>2. CASE q # r
      BY <2>1, <2>3, <3>2 DEF CrashInv, TypeInv, TypeOK
    <3> QED BY <3>1, <3>2
  <2> QED BY <2>5, <2>6, <2>7 DEF CrashInv
<1>2. CASE PutArm(r)
  <2>1. /\ stage' = [stage EXCEPT ![Put(r)] = "begin", ![Watch(r)] = "wait"]
        /\ prior' = config
        /\ pending' = TRUE
        /\ safe' = [safe EXCEPT ![r] = {config, Recovered(disk)}]
        /\ outcome' = [outcome EXCEPT ![r] = "none"]
        /\ disk' = disk
        /\ overtaken' = IF \E q \in Requests : stage[Watch(q)] = "clearPrior"
                        THEN overtaken \cup {r} ELSE overtaken
        /\ stage[Put(r)] = "timed"
    BY <1>2 DEF PutArm
  <2>2. /\ \A q \in Requests : ~Settling(q)
        /\ \A q \in Requests : q # r => stage[Put(q)] \in RestStages
    BY <2>1 DEF CrashInv, ArmsAlone
  <2>3. \A q \in Requests : Settling(q)' <=> q = r
    BY <2>1, <2>2 DEF CrashInv, TypeInv, TypeOK
  <2>4. stage'[Watch(r)] = "wait" /\ safe'[r] = {config, Recovered(disk)}
        /\ outcome'[r] = "none"
    BY <2>1 DEF CrashInv, TypeInv, TypeOK
  <2>5. \A q \in Requests : stage'[Put(q)] # "timed"
    BY <2>1, <2>2 DEF CrashInv, TypeInv, TypeOK, RestStages
  <2>6. \A q \in Requests : stage'[Watch(q)] = "wait" => q = r
    BY <2>3
  <2>7. prior' # None /\ prior' \in safe'[r]
    BY <2>1, <2>4, NoneAssumption DEF CrashInv, TypeInv, TypeOK
  <2>8. OneWatcher' /\ ArmsAlone'
    BY <2>3, <2>5 DEF OneWatcher, ArmsAlone
  <2>9. PendingWhileWatching' /\ WaitUnconfirmed'
    BY <2>1, <2>4, <2>6 DEF PendingWhileWatching, WaitUnconfirmed
  <2>12. r \notin overtaken' => \A q \in Requests : stage'[Watch(q)] # "clearPrior"
    BY <2>1 DEF CrashInv, TypeInv, TypeOK
  <2>10. PriorSafe' /\ CrashRestores'
    BY <2>1, <2>3, <2>4, <2>7, <2>12 DEF PriorSafe, CrashRestores
  <2>11. WaitAlone'
    BY <2>1, <2>2, <2>6 DEF CrashInv, WaitAlone, TypeInv, TypeOK
  <2> QED BY <2>8, <2>9, <2>10, <2>11 DEF CrashInv
<1>3. CASE PutStart(r) \/ PutFailed(r) \/ PutSendErr(r)
  <2>1. PICK st \in {"begin", "sendErr", "error"} : stage' = [stage EXCEPT ![Put(r)] = st]
    BY <1>3 DEF PutStart, PutFailed, PutSendErr
  <2>2. stage[Put(r)] \in {"checked", "failed", "sendErr"}
        /\ UNCHANGED <<prior, pending, safe, outcome, overtaken, disk>>
    BY <1>3 DEF PutStart, PutFailed, PutSendErr, memory, history
  <2>3. Quiet
    BY <2>1, <2>2 DEF Quiet, CrashInv, TypeInv, TypeOK, RestStages
  <2> QED BY <2>3, QuietStep
<1> QED BY <1>1, <1>2, <1>3 DEF Handler

\* So does a step of a watcher, whoever sends requests.
LEMMA WatcherStep ==
  ASSUME CrashInv, TypeInv', NEW r \in Requests, Watcher(r)
  PROVE  CrashInv'
<1> USE ActorsDistinct DEF Watching, Settling, AtRest
<1>1. CASE WatchReceive(r) \/ WatchTimeout(r)
  <2>1. PICK st \in {"begin", "reset"}, o \in {"confirmed", "rollback"} :
           /\ stage' = [stage EXCEPT ![Watch(r)] = st]
           /\ outcome' = [outcome EXCEPT ![r] = o]
    <3>1. CASE WatchReceive(r)
      <4>1. CASE Head(channel) = "nil"
        BY <3>1, <4>1 DEF WatchReceive
      <4>2. CASE Head(channel) # "nil"
        BY <3>1, <4>2 DEF WatchReceive
      <4> QED BY <4>1, <4>2
    <3>2. CASE WatchTimeout(r)
      BY <3>2 DEF WatchTimeout
    <3> QED BY <1>1, <3>1, <3>2
  <2>2. stage[Watch(r)] = "wait" /\ UNCHANGED <<prior, pending, safe, overtaken, disk>>
    BY <1>1 DEF WatchReceive, WatchTimeout, memory
  <2>3. \A q \in Requests : /\ Settling(q)' <=> Settling(q)
                            /\ stage'[Put(q)] = stage[Put(q)]
                            /\ stage'[Watch(q)] = "clearPrior" => stage[Watch(q)] = "clearPrior"
                            /\ stage'[Watch(q)] = "wait" => stage[Watch(q)] = "wait" /\ q # r
                            /\ q # r => outcome'[q] = outcome[q]
    BY <2>1, <2>2 DEF CrashInv, TypeInv, TypeOK, ApplyStages
  <2>4. OneWatcher' /\ ArmsAlone'
    BY <2>3 DEF CrashInv, OneWatcher, ArmsAlone
  <2>5. PendingWhileWatching' /\ PriorSafe'
    <3> HIDE DEF Settling
    <3> QED BY <2>2, <2>3 DEF CrashInv, PendingWhileWatching, PriorSafe
  <2>6. WaitUnconfirmed' /\ WaitAlone'
    BY <2>3 DEF CrashInv, WaitUnconfirmed, WaitAlone
  <2>7. CrashRestores'
    BY <2>2, <2>3 DEF CrashInv, CrashRestores, WaitUnconfirmed
  <2> QED BY <2>4, <2>5, <2>6, <2>7 DEF CrashInv
<1>2. CASE WatchReset(r)
  <2>1. /\ stage' = [stage EXCEPT ![Watch(r)] = "clearPrior"]
        /\ stage[Watch(r)] = "reset"
        /\ UNCHANGED <<prior, safe, outcome, overtaken, disk>>
    BY <1>2 DEF WatchReset, history
  <2>2. \A q \in Requests : /\ ~Settling(q)' /\ stage'[Put(q)] = stage[Put(q)]
                            /\ stage'[Watch(q)] # "wait"
    BY <2>1 DEF CrashInv, TypeInv, TypeOK, ApplyStages, OneWatcher
  <2>3. ArmsAlone'
    BY <2>2 DEF CrashInv, ArmsAlone
  <2>4. OneWatcher' /\ PendingWhileWatching' /\ PriorSafe' /\ CrashRestores'
    BY <2>2 DEF OneWatcher, PendingWhileWatching, PriorSafe, CrashRestores
  <2>5. WaitUnconfirmed' /\ WaitAlone'
    BY <2>2 DEF WaitUnconfirmed, WaitAlone
  <2> QED BY <2>3, <2>4, <2>5 DEF CrashInv
<1>3. CASE WatchClearPrior(r)
  <2>1. stage' = [stage EXCEPT ![Watch(r)] = "done"] /\ stage[Watch(r)] = "clearPrior"
        /\ UNCHANGED <<pending, outcome, overtaken>>
    BY <1>3 DEF WatchClearPrior
  <2>2. \A q \in Requests : /\ Settling(q)' <=> Settling(q)
                            /\ stage'[Put(q)] = stage[Put(q)]
                            /\ stage'[Watch(q)] = "wait" <=> stage[Watch(q)] = "wait"
    BY <2>1 DEF CrashInv, TypeInv, TypeOK, ApplyStages
  <2>3. \A q \in Requests \ overtaken : ~Settling(q)
    BY <2>1 DEF CrashInv, PriorSafe
  <2> HIDE DEF Settling
  <2>4. OneWatcher' /\ ArmsAlone' /\ PendingWhileWatching'
    BY <2>1, <2>2 DEF CrashInv, OneWatcher, ArmsAlone, PendingWhileWatching
  <2>5. PriorSafe' /\ CrashRestores'
    BY <2>1, <2>2, <2>3 DEF PriorSafe, CrashRestores
  <2>6. WaitUnconfirmed' /\ WaitAlone'
    BY <2>1, <2>2 DEF CrashInv, WaitUnconfirmed, WaitAlone
  <2> QED BY <2>4, <2>5, <2>6 DEF CrashInv
<1> QED BY <1>1, <1>2, <1>3 DEF Watcher

\* A restart ends every watcher.
LEMMA RestartStep ==
  ASSUME CrashInv, TypeInv', NEW d, RestartFrom(d)
  PROVE  CrashInv'
<1> USE ActorsDistinct DEF Watching, Settling, AtRest
<1>1. \A a \in Actors : a # Boot => stage'[a] \in RestStages
  BY DEF RestartFrom, RestStages
<1>2. \A q \in Requests : /\ ~Settling(q)'
                          /\ stage'[Put(q)] # "timed"
                          /\ stage'[Watch(q)] # "wait"
  BY <1>1 DEF RestStages, ApplyStages
<1> QED
  BY <1>2 DEF CrashInv, OneWatcher, ArmsAlone, PendingWhileWatching, PriorSafe,
              WaitUnconfirmed, WaitAlone, CrashRestores

\* The invariant holds when PUT requests come one at a time.
LEMMA CrashInvariant == ASSUME Serial PROVE Spec => []CrashInv
<1>1. Init => CrashInv
  <2> SUFFICES ASSUME Init PROVE CrashInv
    OBVIOUS
  <2>1. \A q \in Requests : ~Settling(q) /\ stage[Put(q)] = "idle" /\ stage[Watch(q)] = "idle"
    BY ActorsDistinct DEF Init, Watching, Settling, ApplyStages
  <2> QED
    BY <2>1, TypeInit DEF CrashInv, OneWatcher, ArmsAlone, PendingWhileWatching,
                          PriorSafe, WaitUnconfirmed, WaitAlone, CrashRestores
<1>2. CrashInv /\ [Next]_vars => CrashInv'
  <2> SUFFICES ASSUME CrashInv, [Next]_vars PROVE CrashInv'
    OBVIOUS
  <2>1. TypeInv'
    BY TypeNext DEF CrashInv
  <2>2. CASE \E a \in Actors : Apply(a)
    BY <2>1, <2>2, ApplyQuiet, QuietStep DEF CrashInv
  <2>3. CASE \E r \in Requests : Handler(r)
    BY <2>1, <2>3, HandlerStep
  <2>4. CASE \E r \in Requests : Watcher(r)
    BY <2>1, <2>4, WatcherStep
  <2>5. CASE Get \/ OtherSave \/ (\E c \in Confirms : Confirm(c)) \/ UNCHANGED vars
    <3>1. UNCHANGED <<stage, prior, pending, safe, outcome, overtaken>> /\ (disk' = disk \/ Save)
      BY <2>5 DEF Get, OtherSave, Confirm, ConfirmCheck, ConfirmSend, memory, history, vars
    <3>2. Quiet
      BY <3>1 DEF Quiet, Watching, AtRest
    <3> QED BY <2>1, <3>2, QuietStep
  <2>6. CASE Crash \/ Panic \/ BootFailed
    BY <2>1, <2>6, RestartStep DEF Crash, Panic, BootFailed
  <2> QED BY <2>2, <2>3, <2>4, <2>5, <2>6 DEF Next
<1> QED BY <1>1, <1>2, PTL DEF Spec

\* When PUT requests come one at a time, from the moment a change with a timeout
\* is armed until its watcher resets the flag, no crash, restart or reboot leaves the
\* system on the unconfirmed configuration, unless the change was armed before the
\* watcher of an earlier one cleared its copy of the prior configuration, which nothing
\* in apiSystemNetwork excludes.
THEOREM CrashSafe == ASSUME Serial PROVE Spec => []CrashRestores
<1>1. CrashInv => CrashRestores
  BY DEF CrashInv
<1> QED BY <1>1, CrashInvariant, PTL

\* When PUT requests come one at a time, the handler's check of the pending flag is
\* enough: no step starts to apply a change while the watcher of another request
\* waits for its confirmation, whatever fails, is retried or restarted.
THEOREM PendingExcludesChanges == ASSUME Serial PROVE Spec => NoChangeWhilePending
<1>1. CrashInv => \A r, q \in Requests : r # q /\ stage[Watch(r)] = "wait" => stage[Put(q)] # "begin"
  BY DEF CrashInv, WaitAlone, AtRest, RestStages
<1>2. CrashInv => [\A r, q \in Requests :
                     r # q /\ stage[Watch(r)] = "wait" /\ stage[Put(q)] = "begin"
                       => stage'[Put(q)] # "set"]_vars
  BY <1>1
<1> QED BY <1>2, CrashInvariant, PTL DEF NoChangeWhilePending

-----------------------------------------------------------------------------
(* The pending flag and its watcher.                                       *)

\* No step leaves the pending flag set without a watcher that will reset it: the flag is
\* set together with the start of a watcher, and a watcher that leaves resets it.
LEMMA SettlingStep ==
  ASSUME TypeInv, PendingHasWatcher, Next
  PROVE  PendingHasWatcher'
<1> USE ActorsDistinct DEF Watching
<1> DEFINE Held == \A q \in Requests : Settling(q) => Settling(q)'
<1>0. ASSUME pending' => pending, Held PROVE PendingHasWatcher'
  BY <1>0 DEF PendingHasWatcher, Settling
<1>1. ASSUME NEW a \in Actors, Apply(a) PROVE PendingHasWatcher'
  BY <1>0, <1>1, ApplyQuiet DEF Quiet, Settling
<1>2. ASSUME NEW r \in Requests, PutArm(r) PROVE PendingHasWatcher'
  <2>1. stage'[Watch(r)] = "wait"
    BY <1>2 DEF PutArm, TypeInv, TypeOK
  <2> QED BY <2>1 DEF PendingHasWatcher, Settling
<1>3. ASSUME NEW r \in Requests, Handler(r), ~PutArm(r) PROVE PendingHasWatcher'
  <2>1. \A q \in Requests : stage'[Watch(q)] = stage[Watch(q)]
    BY <1>3 DEF Handler, PutCheck, PutStart, PutFailed, PutSendErr, Leave, TypeInv, TypeOK
  <2>2. pending' = pending
    BY <1>3 DEF Handler, PutCheck, PutStart, PutFailed, PutSendErr, memory
  <2> QED BY <1>0, <2>1, <2>2 DEF Settling
<1>4. ASSUME NEW r \in Requests, WatchReceive(r) \/ WatchTimeout(r) PROVE PendingHasWatcher'
  <2>1. \E st \in {"begin", "reset"} : stage' = [stage EXCEPT ![Watch(r)] = st]
    BY <1>4 DEF WatchReceive, WatchTimeout
  <2>2. Held
    BY <2>1 DEF Settling, ApplyStages, TypeInv, TypeOK
  <2> QED BY <1>0, <1>4, <2>2 DEF WatchReceive, WatchTimeout, memory
<1>5. ASSUME NEW r \in Requests, WatchReset(r) PROVE PendingHasWatcher'
  BY <1>5 DEF WatchReset, PendingHasWatcher
<1>6. ASSUME NEW r \in Requests, WatchClearPrior(r) PROVE PendingHasWatcher'
  <2>1. Held
    BY <1>6 DEF WatchClearPrior, Settling, TypeInv, TypeOK
  <2> QED BY <1>0, <1>6, <2>1 DEF WatchClearPrior
<1>7. CASE Get \/ OtherSave \/ \E c \in Confirms : Confirm(c)
  <2>1. UNCHANGED <<stage, pending>>
    BY <1>7 DEF Get, OtherSave, Confirm, ConfirmCheck, ConfirmSend, memory
  <2> QED BY <1>0, <2>1 DEF Settling
<1>8. CASE Crash \/ Panic \/ BootFailed
  BY <1>8 DEF Crash, Panic, BootFailed, RestartFrom, PendingHasWatcher
<1> QED BY <1>1, <1>2, <1>3, <1>4, <1>5, <1>6, <1>7, <1>8 DEF Next, Watcher

\* However many PUT handlers, watchers, confirmations and restarts overlap, a pending
\* change, which makes the API refuse all others, has a watcher that has yet to settle it.
THEOREM PendingIsWatched == Spec => []PendingHasWatcher
<1>1. Init => PendingHasWatcher
  BY DEF Init, PendingHasWatcher
<1>2. TypeInv /\ PendingHasWatcher /\ [Next]_vars => PendingHasWatcher'
  <2>1. ASSUME PendingHasWatcher, UNCHANGED vars PROVE PendingHasWatcher'
    BY <2>1 DEF PendingHasWatcher, Settling, Watching, vars
  <2> QED BY <2>1, SettlingStep
<1> QED BY <1>1, <1>2, TypeInit, TypeNext, PTL DEF Spec
=============================================================================
