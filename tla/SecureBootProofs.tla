-------------------------- MODULE SecureBootProofs --------------------------
(***************************************************************************)
(* Proofs about SecureBoot, for every history of releases, signing keys    *)
(* and certificate updates: as long as no command fails and nobody cuts    *)
(* the power or changes the firmware, the PCR values predicted for the     *)
(* next boot are the ones it measures, and the recovery keys that are      *)
(* listed are the ones of the volumes; and one trouble locks nobody out.   *)
(* Nor does one trouble leave a boot stub or an image that the firmware    *)
(* refuses, when the key the system was installed with is replaced.        *)
(* The bindings and the keys go together: a volume is bound again with a   *)
(* recovery key, and the first recovery keys are enrolled by a TPM that    *)
(* unlocks. What one trouble spoils, the other then makes up for.          *)
(***************************************************************************)
EXTENDS SecureBoot, TLAPS

\* Steps that go as they should: what leaves the recovery keys alone, what makes the first
\* ones, and the requests that change them. And the steps that do not.
PlainAction ==
    \/ StartBindings \/ (\E v \in LUKSVolumes : RebindVolume(v)) \/ RebindImpossible
    \/ StartCheck \/ PublishCerts \/ (\E var \in EFIVariables, cert \in Certs : AppendCert(var, cert))
    \/ PredictCerts \/ CertAppended \/ CertsComplete \/ (\E cert \in Certs : RefuseDbx(cert))
    \/ NoOSUpdate \/ (\E r \in OSReleases : OSUpdate(r)) \/ PredictionImpossible
    \/ CopyStub("stub1", "systemd", "stub2") \/ CopyStub("stub2", "boot", "key")
    \/ ChangeKey \/ InstallImage \/ ForceUpdatePCRBindings \/ Reboot
FirstAction ==
    \/ StartKeys \/ GenerateCommon \/ GenerateImpossible
    \/ \E v \in LUKSVolumes : GenerateWipe(v) \/ GenerateEnroll(v) \/ GeneratePasswords(v)
RequestAction ==
    \/ Retrieve \/ (\E want \in (SUBSET Keys) \ {{}} : PutKeys(want))
    \/ PutNext \/ PutDone \/ ReaddKeys
    \/ \E v \in LUKSVolumes : AddKeyVolume(v) \/ WipeVolume(v)
Calm == PlainAction \/ FirstAction \/ RequestAction \/ BootNewest
Troubles == Fault \/ PowerLoss \/ BootOlder \/ SwitchSecureBoot \/ ReplaceTPM

\* The steps that touch no recovery key, and the steps that follow a binding loop.
Plain == {"idle", "bind15", "rebind", "check", "certs", "rebindCerts", "certsReboot", "os",
          "stub1", "stub2", "key", "install", "reboot"}
Nexts == {"bind15", "check", "certsReboot", "install", "reboot"}
FirstSteps == {"generate", "enroll", "passwords"}
KeySteps == {"addKey", "wipe", "readd", "put"}

OpFields == {"at", "todo", "next", "to", "rel", "vars", "key", "want", "keep", "startup"}
Shapes ==
    /\ bound = [v \in LUKSVolumes |-> bound[v]]
    /\ keyFile = [v \in LUKSVolumes |-> keyFile[v]]
    /\ keySlots = [v \in LUKSVolumes |-> keySlots[v]]
    /\ stub = [p \in {"systemd", "boot"} |-> stub[p]]
    /\ op = [f \in OpFields |-> op[f]] /\ op.todo \subseteq LUKSVolumes
    /\ InStep("rebind") => op.next \in Nexts
    /\ op.at \in KeySteps => op.want # {} /\ op.next \in {"idle", "put", "readd"}
    /\ InStep("addKey") => op.next # "idle"

BindsTo(step) == InStep("rebind") /\ op.next = step

-----------------------------------------------------------------------------
(* The bindings.                                                           *)

Starting == {"start", "generate", "enroll", "passwords", "bind15"}
Changing == {"stub1", "stub2", "key", "install"}
InFirstBinding == BindsTo("bind15") \/ BindsTo("check")
\* The release the daemon is installing, and the release the next boot is to start.
UnderWay == op.at \in Changing \/ BindsTo("install")
Target == IF UnderWay THEN op.rel ELSE Newest

\* systemd-boot in both places is signed as release u is.
StubOf(u) == stub = [p \in {"systemd", "boot"} |-> SignedBy[u]]
\* What the daemon knows of this boot still tells what the next one measures.
LogGood ==
    /\ log.uki \in ukis /\ log.path = "systemd" /\ log.stub = SignedBy[log.uki]
    /\ log.sb = sb /\ log.auth = IF sb THEN <<SignedBy[log.uki]>> ELSE <<>>
    /\ ~sb => log.efi = efi
    /\ tpmGood

Images ==
    /\ ukis \subseteq OSReleases /\ Newest \in ukis /\ \A u \in ukis : u <= Newest
    /\ UnderWay => op.rel \in OSReleases /\ \A u \in ukis : u < op.rel
    /\ op.at \in Starting \/ InFirstBinding => log.uki = Newest /\ log.efi = efi

StubGood ==
    /\ op.at \notin Changing /\ ~BindsTo("install") => StubOf(Newest) /\ pem = SignedBy[Newest]
    /\ InStep("stub2") => stub["systemd"] = SignedBy[op.rel]
    /\ op.at \in {"key", "install"} \/ BindsTo("install") => StubOf(op.rel)
    /\ InStep("install") \/ BindsTo("install") => pem = SignedBy[op.rel]

\* The binding b is right for a boot of release u with the boot stub that goes with it.
Predicted(u) == [sb |-> sb, efi |-> efi, auth |-> IF sb THEN <<SignedBy[u]>> ELSE <<>>]
Fits(b, u) ==
    /\ b.pcr7 = Predicted(u) /\ <<SignedBy[u], u>> \in b.pcr4 /\ b.key = SignedBy[u]
    /\ sb => b.pcr4 = AnyPCR4

BoundGood ==
    /\ op.at \notin {"rebindCerts", "rebind", "stub1", "stub2", "key"} \/ InFirstBinding =>
          \A v \in LUKSVolumes : Fits(bound[v], Target)
    /\ InStep("rebind") =>
          /\ op.next \in {"bind15", "check", "certsReboot", "install"}
          /\ Fits(op.to, Target)
          /\ \A v \in LUKSVolumes : v \notin op.todo => bound[v] = op.to
    /\ op.at \in {"certs", "rebindCerts"} \/ BindsTo("certsReboot") => sb
    /\ op.at \in {"enroll", "passwords"} => op.next = "bind15" \/ (op.next = "pcr4" /\ ~sb)

\* The TPM unlocks the next boot, or will when the operation under way is done.
BindingsGood == LogGood /\ Images /\ StubGood /\ BoundGood

\* Once startup has bound the volumes, they are bound to an empty PCR15.
BoundInInitrd ==
    /\ op.at \notin Starting /\ ~InFirstBinding => bound["root"].pcr15
    /\ InStep("rebind") => op.to.pcr15 /\ ("root" \in op.todo \/ bound["root"].pcr15)

-----------------------------------------------------------------------------
(* The recovery keys.                                                      *)

AllEnrolled == \A v \in LUKSVolumes : keyFile[v] = "enrolled"
Knows(keys) == known = {} \/ known \cap keys # {}
\* Every volume has its own key in a file and the keys that are listed.
KeysGood == AllEnrolled /\ listed # {} /\ \A v \in LUKSVolumes : keySlots[v] = listed

\* The keys of the volumes follow the ones that are listed, and the user has one of them.
Keyed ==
    /\ op.at \notin FirstSteps
    /\ InStep("addKey") =>
          \A v \in LUKSVolumes : keySlots[v] = IF v \in op.todo THEN listed ELSE listed \cup {op.key}
    /\ InStep("wipe") => \A v \in LUKSVolumes : keySlots[v] = IF v \in op.todo THEN listed ELSE {}
    /\ op.at \in {"readd", "put"} => \A v \in LUKSVolumes : keySlots[v] = listed
    /\ op.at \in KeySteps => AllEnrolled
    /\ InStep("off") =>
          AllEnrolled /\ savedKeys # {} /\ Knows(savedKeys) /\ \A v \in LUKSVolumes : keySlots[v] = savedKeys
    /\ op.at \notin KeySteps \cup {"off"} => KeysGood /\ Knows(listed)

\* A boot that makes the recovery keys, with a TPM that unlocks the volumes in use.
Generating ==
    /\ \A v \in LUKSVolumes : ~bound[v].pcr15
    /\ op.at \in FirstSteps \cup {"off", "start"}
    /\ InStep("off") => savedKeys = {} \/ keyFile["root"] = "none"
    /\ op.at \in {"start", "generate"} => listed = {} \/ keyFile["root"] = "none"
    /\ InStep("enroll") => listed # {} /\ \A v \in LUKSVolumes : v \notin op.todo => keyFile[v] = "enrolled"
    /\ InStep("passwords") => AllEnrolled

\* The first boot.
FirstBoot ==
    /\ Generating /\ ~InStep("off") /\ known = {} /\ savedKeys = {}
    /\ op.at \in {"start", "generate"} =>
          listed = {} /\ \A v \in LUKSVolumes : keySlots[v] = {} /\ keyFile[v] = "none"
    /\ InStep("enroll") =>
          op.todo # {} /\ \A v \in LUKSVolumes : keySlots[v] = {} /\ (v \in op.todo => keyFile[v] = "none")
    /\ InStep("passwords") =>
          listed # {} /\ \A v \in LUKSVolumes : keySlots[v] = IF v \in op.todo THEN {} ELSE listed

SavesLater == op.startup \/ InStep("bind15") \/ BindsTo("bind15")
\* The state file has the keys that are listed, but for the first startup.
Saved ==
    /\ op.at \in {"start", "idle"} => savedKeys = listed
    /\ op.at \notin FirstSteps \cup KeySteps \cup {"off"} =>
          \/ savedKeys = listed
          \/ savedKeys = {} /\ known = {} /\ SavesLater

-----------------------------------------------------------------------------
(* What one trouble leaves.                                                *)

\* Every volume has its key file, but for the one that is given a new one.
Enrolled == \A v \in LUKSVolumes : keyFile[v] = "enrolled" \/ (InStep("enroll") /\ op.key = v)

\* The first boot gave root its key and failed at swap; that is never made up for.
SwapLost ==
    /\ keyFile["swap"] # "enrolled" /\ keyFile["root"] # "none" /\ savedKeys # {}
    /\ ~InStep("off") => listed # {}
    /\ op.at \notin FirstSteps \cup {"readd"}
    /\ op.at \in {"addKey", "wipe"} => "swap" \in op.todo

\* The power was lost in the first startup, after the volumes were bound and before the keys
\* were saved: keys cannot be generated again and startup is repeated for ever.
Stuck ==
    /\ known = {} /\ savedKeys = {} /\ bound["root"].pcr15
    /\ InStep("off") \/ (op.at \in {"start", "generate"} /\ listed = {})

\* Nothing has gone wrong so far; or one thing has.
Quiet == trouble = Trouble
QuietInv == BindingsGood /\ BoundInInitrd /\ (Keyed \/ FirstBoot) /\ Saved
TroubledInv == Keyed \/ (BindingsGood /\ (Enrolled \/ Generating)) \/ SwapLost \/ Stuck

SecureBootInv ==
    /\ Shapes /\ trouble \in Nat /\ trouble <= Trouble
    /\ Quiet => QuietInv
    /\ trouble = Trouble - 1 => TroubledInv

-----------------------------------------------------------------------------
NewestOf(S) == CHOOSE u \in S : \A w \in S : w <= u

\* The newest image is the one that none is newer than.
LEMMA NewestIs ==
    ASSUME NEW S \in SUBSET OSReleases, NEW n \in S, \A w \in S : w <= n
    PROVE  NewestOf(S) = n
<1>0. \E u \in S : \A w \in S : w <= u
  OBVIOUS
<1>1. NewestOf(S) \in S /\ \A w \in S : w <= NewestOf(S)
  BY <1>0 DEF NewestOf
<1>2. \A w \in S : w \in Int
  BY DEF OSReleases
<1> QED BY <1>1, <1>2

\* The firmware measures what goes with a boot stub that is signed as the image is.
LEMMA MeasureIs ==
    ASSUME NEW u \in OSReleases, StubOf(u)
    PROVE  /\ LoadedStub = "systemd" /\ stub["systemd"] = SignedBy[u] /\ stub["boot"] = SignedBy[u]
           /\ PCR7(Measure(u)) = Predicted(u) /\ PCR4(Measure(u)) = <<SignedBy[u], u>>
           /\ Measure(u) = [uki |-> u, path |-> "systemd", stub |-> SignedBy[u], sb |-> sb, efi |-> efi,
                            auth |-> IF sb THEN <<SignedBy[u]>> ELSE <<>>]
<1>1. SignedBy[u] \in Certs /\ SignedBy[u] # "torn"
  BY CertAssumption
<1>2. LoadedStub = "systemd" /\ stub["systemd"] = SignedBy[u] /\ stub["boot"] = SignedBy[u]
  BY <1>1 DEF StubOf, LoadedStub
<1>3. Measure(u) = [uki |-> u, path |-> "systemd", stub |-> SignedBy[u], sb |-> sb, efi |-> efi,
                    auth |-> IF sb THEN <<SignedBy[u]>> ELSE <<>>]
  BY <1>2 DEF Measure, Authorities
<1> QED BY <1>2, <1>3 DEF PCR7, PCR4, Predicted

\* A binding that fits unlocks the boot.
LEMMA FitsUnlocks ==
    ASSUME NEW u \in OSReleases, StubOf(u), NEW b
    PROVE  Fits(b, u) => Matches(b, Measure(u))
<1>1. Measure(u).uki = u
  BY MeasureIs
<1> QED BY <1>1, MeasureIs DEF Fits, Matches

\* computeNewPCR7Value predicts what the firmware measures with the boot stub in place, from
\* a log of a boot whose stub and image had one signer.
LEMMA PredictionIs ==
    ASSUME LogGood, NEW u \in OSReleases, StubOf(u)
    PROVE  NewPCR7 = Predicted(u) /\ NewPCR4(u) = <<SignedBy[u], u>> /\ SBEnabled = sb
<1>1. stub["boot"] = SignedBy[u] /\ stub["systemd"] = SignedBy[u]
  BY MeasureIs
<1>2. CASE sb
  <2>1. log.auth = <<SignedBy[log.uki]>> /\ log.sb = sb
    BY <1>2 DEF LogGood
  <2>2. DOMAIN log.auth = 1 .. 1
    BY <2>1
  <2>3. [i \in DOMAIN log.auth |-> stub["boot"]] = <<SignedBy[u]>>
    BY <2>2, <1>1
  <2> QED BY <1>1, <1>2, <2>1, <2>3 DEF NewPCR7, Predicted, NewPCR4, SBEnabled, LogGood
<1>3. CASE ~sb
  <2>1. log.auth = <<>> /\ log.sb = sb
    BY <1>3 DEF LogGood
  <2>2. [i \in DOMAIN log.auth |-> stub["boot"]] = <<>>
    BY <2>1
  <2> QED BY <1>1, <1>3, <2>1, <2>2 DEF NewPCR7, Predicted, NewPCR4, SBEnabled, LogGood
<1> QED BY <1>2, <1>3

LEMMA BindingsFit ==
    ASSUME LogGood, NEW u \in OSReleases, StubOf(u)
    PROVE  /\ Fits(KeyChangeBinding(u), u)
           /\ sb /\ pem = SignedBy[u] => Fits(Binding(AnyPCR4, NewPCR7, pem), u)
           /\ ~sb /\ pem = SignedBy[u] => Fits(PCR4Binding(u), u)
<1>1. NewPCR7 = Predicted(u) /\ NewPCR4(u) = <<SignedBy[u], u>> /\ SBEnabled = sb
  BY PredictionIs
<1>2. <<SignedBy[u], u>> \in AnyPCR4
  BY CertAssumption DEF AnyPCR4
<1>3. Fits(KeyChangeBinding(u), u)
  BY <1>1, <1>2 DEF Fits, KeyChangeBinding, Binding
<1>4. ~sb => PCR7(log) = Predicted(u)
  BY DEF PCR7, Predicted, LogGood
<1> QED BY <1>1, <1>2, <1>3, <1>4 DEF Fits, PCR4Binding, Binding

-----------------------------------------------------------------------------
BootVars == <<firmwareVars, imageVars, log, tpmGood, pem, bound>>

\* What the bindings are about, when it stays as it is.
LEMMA BootSame ==
    ASSUME UNCHANGED BootVars
    PROVE  /\ Newest' = Newest /\ (LogGood => LogGood')
           /\ \A v \in LUKSVolumes : TPMUnlocksNow(v)' <=> TPMUnlocksNow(v)
           /\ \A b, u : Fits(b, u)' <=> Fits(b, u)
           /\ \A u : StubOf(u)' <=> StubOf(u)
<1> USE DEF BootVars, firmwareVars, imageVars
<1>1. Newest' = Newest
  BY DEF Newest
<1>2. LogGood => LogGood'
  BY DEF LogGood
<1>3. \A v \in LUKSVolumes : TPMUnlocksNow(v)' <=> TPMUnlocksNow(v)
  BY DEF TPMUnlocksNow, Matches, PCR7, PCR4
<1>4. \A b, u : Fits(b, u)' <=> Fits(b, u)
  BY DEF Fits, Predicted
<1>5. \A u : StubOf(u)' <=> StubOf(u)
  BY DEF StubOf
<1> QED BY <1>1, <1>2, <1>3, <1>4, <1>5

-----------------------------------------------------------------------------
(* What the steps do to the recovery keys.                                 *)

LEMMA NoOpIs ==
    /\ NoOp = [f \in OpFields |-> NoOp[f]] /\ NoOp.at = "idle" /\ NoOp.todo = {} /\ NoOp.next = "idle"
    /\ NoOp.key = NoKey /\ NoOp.startup = FALSE
BY DEF NoOp, OpFields

LEMMA BindsInitrd ==
    CurrentBinding.pcr15 /\ \A u : KeyChangeBinding(u).pcr15 /\ PCR4Binding(u).pcr15
BY DEF CurrentBinding, KeyChangeBinding, PCR4Binding, Binding

LEMMA AbortEffect ==
    ASSUME Shapes, Abort
    PROVE  /\ Shapes' /\ UNCHANGED <<BootVars, keyFile, keySlots, listed, known>> /\ op'.todo = {} /\ op'.key = NoKey
           /\ \/ InStartup /\ op'.at = "start" /\ savedKeys' = listed
              \/ /\ ~InStartup /\ op.next = "certsReboot" /\ op'.at = "certs" /\ op'.startup = op.startup
                 /\ savedKeys' = savedKeys
              \/ ~InStartup /\ op'.at = "idle" /\ savedKeys' = IF op.startup THEN listed ELSE savedKeys
<1>1. UNCHANGED <<BootVars, keyFile, keySlots, listed, known>>
  BY DEF Abort, BootVars
<1>2. \/ InStartup /\ savedKeys' = listed /\ op' = [NoOp EXCEPT !.at = "start"]
      \/ /\ ~InStartup /\ op.next = "certsReboot" /\ savedKeys' = savedKeys
         /\ op' = [NoOp EXCEPT !.at = "certs", !.vars = op.vars \ {"KEK"}, !.startup = op.startup]
      \/ ~InStartup /\ op' = NoOp /\ savedKeys' = IF op.startup THEN listed ELSE savedKeys
  BY DEF Abort, EndOperation
<1>3. op' = [f \in OpFields |-> op'[f]] /\ op'.todo = {} /\ op'.key = NoKey
      /\ \/ InStartup /\ op'.at = "start" /\ savedKeys' = listed
         \/ /\ ~InStartup /\ op.next = "certsReboot" /\ op'.at = "certs" /\ op'.startup = op.startup
            /\ savedKeys' = savedKeys
         \/ ~InStartup /\ op'.at = "idle" /\ savedKeys' = IF op.startup THEN listed ELSE savedKeys
  BY <1>2, NoOpIs DEF OpFields
<1> QED BY <1>1, <1>3 DEF Shapes, BootVars, imageVars, InStep, KeySteps

\* Most steps leave the keys alone. They save the keys that are listed when startup ends, if
\* they were not saved before, and when the daemon ends.
PlainEffect ==
    /\ UNCHANGED <<keyFile, keySlots, listed, known, trouble>> /\ op.at \in Plain
    /\ \/ /\ op'.at \in Plain /\ savedKeys' = savedKeys
          /\ SavesLater /\ ~InStep("idle") => SavesLater' /\ op'.at # "idle"
       \/ op'.at \in Plain /\ savedKeys' = listed
       \/ op'.at \in {"off", "start"} /\ savedKeys' = listed

LEMMA PlainStep ==
    ASSUME Shapes, PlainAction
    PROVE  Shapes' /\ PlainEffect /\ (BoundInInitrd => BoundInInitrd')
<1> DEFINE Goal == Shapes' /\ PlainEffect /\ (BoundInInitrd => BoundInInitrd')
<1> USE DEF InStep, BindsTo, InFirstBinding, Starting, Plain, KeySteps, keyVars, SavesLater, Nexts
<1>1. CASE StartBindings
  <2>1. /\ UNCHANGED <<BootVars, keyVars, trouble>> /\ op.at = "bind15"
        /\ \/ bound["root"].pcr15 /\ op' = [NoOp EXCEPT !.at = "check", !.startup = TRUE]
           \/ op' = [Rebind(KeyChangeBinding(RunningRelease), "check") EXCEPT !.startup = TRUE]
    BY <1>1 DEF StartBindings, BootVars
  <2>2. /\ op' = [f \in OpFields |-> op'[f]] /\ op'.todo \subseteq LUKSVolumes /\ op'.startup
        /\ \/ bound["root"].pcr15 /\ op'.at = "check"
           \/ /\ op'.at = "rebind" /\ op'.next = "check" /\ op'.todo = LUKSVolumes
              /\ op'.to = KeyChangeBinding(RunningRelease)
    BY <2>1, NoOpIs DEF Shapes, OpFields, Rebind
  <2>3. Shapes' /\ PlainEffect
    BY <2>1, <2>2 DEF Shapes, PlainEffect, BootVars, imageVars
  <2> QED BY <2>1, <2>2, <2>3, BindsInitrd DEF BoundInInitrd, BootVars, LUKSVolumes
<1>2. ASSUME NEW v \in LUKSVolumes, RebindVolume(v) PROVE Goal
  <2>1. /\ UNCHANGED <<imageVars, keyVars, trouble>> /\ op.at = "rebind" /\ v \in op.todo
        /\ bound' = [bound EXCEPT ![v] = op.to]
        /\ \/ op.todo = {v} /\ op' = [op EXCEPT !.at = op.next, !.todo = {}]
           \/ op.todo # {v} /\ op' = [op EXCEPT !.todo = @ \ {v}]
    BY <1>2 DEF RebindVolume
  <2>2. /\ op' = [f \in OpFields |-> op'[f]] /\ op'.next = op.next /\ op'.to = op.to /\ op'.startup = op.startup
        /\ op.next \in Nexts
        /\ \/ op.todo = {v} /\ op'.at = op.next /\ op'.todo = {}
           \/ op'.at = "rebind" /\ op'.todo = op.todo \ {v}
    BY <2>1 DEF Shapes, OpFields
  <2>3. bound'[v] = op.to /\ \A w \in LUKSVolumes : w # v => bound'[w] = bound[w]
    BY <2>1 DEF Shapes
  <2>4. Shapes' /\ PlainEffect
    BY <2>1, <2>2 DEF Shapes, PlainEffect, imageVars
  <2>5. BoundInInitrd => BoundInInitrd'
    BY <2>1, <2>2, <2>3 DEF BoundInInitrd, LUKSVolumes
  <2> QED BY <2>4, <2>5
<1>3. ASSUME UNCHANGED <<BootVars, keyFile, keySlots, listed, known, trouble>>,
             op.at \in Plain, op' = [f \in OpFields |-> op'[f]], op'.todo \subseteq LUKSVolumes,
             op.at \notin Starting \cup {"rebind"}, op'.at \notin Starting,
             op'.at = "rebind" => op'.next \in {"certsReboot", "install", "reboot"} /\ op'.to.pcr15,
             \/ op'.at \in Plain /\ savedKeys' = savedKeys /\ (op.at # "idle" /\ op.startup => op'.startup /\ op'.at # "idle")
             \/ op'.at \in Plain \cup {"off"} /\ savedKeys' = listed
      PROVE  Goal
  BY <1>3 DEF Shapes, PlainEffect, BoundInInitrd, BootVars, imageVars
<1>4. CASE RebindImpossible
  <2>1. op.at = "rebind" /\ Abort /\ trouble' = trouble
    BY <1>4 DEF RebindImpossible
  <2>2. InStartup <=> InFirstBinding
    BY <2>1 DEF InStartup, Startup
  <2> QED BY <2>1, <2>2, AbortEffect DEF PlainEffect, BoundInInitrd, BootVars, Shapes
<1>5. CASE (\E cert \in Certs : RefuseDbx(cert)) \/ PredictionImpossible
  <2>1. op.at \in {"certs", "rebindCerts", "os"} /\ Abort /\ trouble' = trouble
    BY <1>5 DEF RefuseDbx, PredictionImpossible
  <2>2. ~InStartup
    BY <2>1 DEF InStartup, Startup
  <2> QED BY <2>1, <2>2, AbortEffect DEF PlainEffect, BoundInInitrd, BootVars, Shapes
<1>6. CASE StartCheck
  <2>1. /\ UNCHANGED <<BootVars, keyVars, trouble>> /\ op.at \in {"idle", "check"}
        /\ \E vars : \E step \in {"certs", "os"} : op' = [NoOp EXCEPT !.at = step, !.vars = vars, !.startup = (op.at = "check")]
    BY <1>6 DEF StartCheck, BootVars
  <2>2. /\ op' = [f \in OpFields |-> op'[f]] /\ op'.todo \subseteq LUKSVolumes /\ op'.at \in {"certs", "os"}
        /\ op'.startup = (op.at = "check")
    BY <2>1, NoOpIs DEF OpFields
  <2> QED BY <1>3, <2>1, <2>2
<1>7. CASE PublishCerts
  <2>1. UNCHANGED <<BootVars, keyVars, trouble, op>> /\ op.at = "idle"
    BY <1>7 DEF PublishCerts, BootVars
  <2> QED BY <1>3, <2>1 DEF Shapes
<1>8. ASSUME NEW var \in EFIVariables, NEW cert \in Certs, AppendCert(var, cert) PROVE Goal
  <2>1. UNCHANGED <<imageVars, bound, keyVars, trouble>> /\ op.at = "certs" /\ op' = [op EXCEPT !.at = "rebindCerts"]
    BY <1>8 DEF AppendCert
  <2>2. op' = [f \in OpFields |-> op'[f]] /\ op'.todo = op.todo /\ op'.at = "rebindCerts" /\ op'.startup = op.startup
    BY <2>1 DEF Shapes, OpFields
  <2> QED BY <2>1, <2>2 DEF Shapes, PlainEffect, BoundInInitrd, imageVars
<1>9. CASE PredictCerts
  <2>1. /\ UNCHANGED <<BootVars, keyVars, trouble>> /\ op.at = "rebindCerts"
        /\ op' = Rebind(Binding(AnyPCR4, NewPCR7, pem), "certsReboot")
    BY <1>9 DEF PredictCerts, BootVars
  <2>2. /\ op' = [f \in OpFields |-> op'[f]] /\ op'.at = "rebind" /\ op'.todo = LUKSVolumes /\ op'.next = "certsReboot"
        /\ op'.to.pcr15 /\ op'.startup = op.startup
    BY <2>1 DEF Shapes, OpFields, Rebind, Binding
  <2> QED BY <1>3, <2>1, <2>2
<1>10. CASE CertAppended \/ CertsComplete
  <2>1. /\ UNCHANGED <<BootVars, keyVars, trouble>> /\ op.at \in {"certs", "certsReboot"}
        /\ \/ \E step \in {"os", "reboot"} : op' = [op EXCEPT !.at = step, !.next = "idle"]
           \/ op' = [op EXCEPT !.at = "os"]
    BY <1>10 DEF CertAppended, CertsComplete, Goto, BootVars
  <2>2. op' = [f \in OpFields |-> op'[f]] /\ op'.at \in {"os", "reboot"} /\ op'.todo = op.todo /\ op'.startup = op.startup
    BY <2>1 DEF Shapes, OpFields
  <2> QED BY <1>3, <2>1, <2>2 DEF Shapes
<1>11. CASE NoOSUpdate
  <2>1. /\ UNCHANGED <<BootVars, keyFile, keySlots, listed, known, trouble>> /\ op.at = "os" /\ op' = NoOp
        /\ savedKeys' = IF op.startup THEN listed ELSE savedKeys
    BY <1>11 DEF NoOSUpdate, EndOperation, BootVars
  <2> QED BY <1>3, <2>1, NoOpIs
<1>12. ASSUME NEW r \in OSReleases, OSUpdate(r) PROVE Goal
  <2>1. /\ UNCHANGED <<BootVars, keyVars, trouble>> /\ op.at = "os"
        /\ \/ op' = [op EXCEPT !.rel = r, !.at = "stub1"]
           \/ op' = [op EXCEPT !.rel = r, !.at = "rebind", !.todo = LUKSVolumes, !.to = PCR4Binding(r), !.next = "install"]
           \/ op' = [op EXCEPT !.rel = r, !.at = "install"]
    BY <1>12 DEF OSUpdate, Shapes, OpFields, BootVars
  <2>2. /\ op' = [f \in OpFields |-> op'[f]] /\ op'.todo \subseteq LUKSVolumes /\ op'.startup = op.startup
        /\ \/ op'.at \in {"stub1", "install"}
           \/ op'.at = "rebind" /\ op'.next = "install" /\ op'.to = PCR4Binding(r)
    BY <2>1 DEF Shapes, OpFields
  <2> QED BY <1>3, <2>1, <2>2, BindsInitrd
<1>13. ASSUME NEW step \in {"stub1", "stub2"}, NEW path, NEW next \in {"stub2", "key"}, CopyStub(step, path, next) PROVE Goal
  <2>1. /\ UNCHANGED <<bound, keyVars, trouble>> /\ op.at = step
        /\ stub' = [stub EXCEPT ![path] = IF @ = "torn" THEN SignedBy[op.rel] ELSE "torn"]
        /\ op' = [op EXCEPT !.at = next] \/ op' = op
    BY <1>13 DEF CopyStub, Goto
  <2>2. /\ op' = [f \in OpFields |-> op'[f]] /\ op'.todo = op.todo /\ op'.startup = op.startup
        /\ op'.at \in {"stub1", "stub2", "key"}
    BY <2>1, <1>13 DEF Shapes, OpFields
  <2> QED BY <2>1, <2>2 DEF Shapes, PlainEffect, BoundInInitrd
<1>14. CASE ChangeKey \/ ForceUpdatePCRBindings
  <2>1. /\ UNCHANGED <<imageVars, bound, keyVars, trouble>>
        /\ \/ op.at = "key" /\ op' = Rebind(KeyChangeBinding(op.rel), "install")
           \/ op.at = "idle" /\ op' = Rebind(CurrentBinding, "reboot")
    BY <1>14 DEF ChangeKey, ForceUpdatePCRBindings
  <2>2. /\ op' = [f \in OpFields |-> op'[f]] /\ op'.todo = LUKSVolumes /\ op'.startup = op.startup
        /\ op'.at = "rebind" /\ op'.next \in {"install", "reboot"}
        /\ op'.to = KeyChangeBinding(op.rel) \/ op'.to = CurrentBinding
    BY <2>1 DEF Shapes, OpFields, Rebind
  <2> QED BY <2>1, <2>2, BindsInitrd DEF Shapes, PlainEffect, BoundInInitrd, imageVars, LUKSVolumes
<1>15. CASE InstallImage
  <2>1. /\ UNCHANGED <<stub, bound, keyFile, keySlots, listed, known, trouble>> /\ op.at = "install"
        /\ savedKeys' = listed /\ (op' = [op EXCEPT !.at = "reboot"] \/ op' = NoOp)
    BY <1>15 DEF InstallImage, EndOperation
  <2>2. op' = [f \in OpFields |-> op'[f]] /\ op'.todo \subseteq LUKSVolumes /\ op'.at \in {"reboot", "idle"}
    BY <2>1, NoOpIs DEF Shapes, OpFields
  <2> QED BY <2>1, <2>2 DEF Shapes, PlainEffect, BoundInInitrd
<1>16. CASE Reboot
  <2>1. /\ UNCHANGED <<BootVars, keyFile, keySlots, listed, known, trouble>> /\ op.at \in {"idle", "reboot"}
        /\ savedKeys' = listed /\ op' = [NoOp EXCEPT !.at = "off"]
    BY <1>16 DEF Reboot, BootVars
  <2>2. op' = [f \in OpFields |-> op'[f]] /\ op'.todo = {} /\ op'.at = "off"
    BY <2>1, NoOpIs DEF OpFields
  <2> QED BY <1>3, <2>1, <2>2
<1> QED BY <1>1, <1>2, <1>4, <1>5, <1>6, <1>7, <1>8, <1>9, <1>10, <1>11, <1>12, <1>13, <1>14, <1>15, <1>16 DEF PlainAction

\* In a boot that goes as predicted, the TPM still unlocks what is not bound to PCR15.
LEMMA UnlocksNow ==
    ASSUME BindingsGood, op.at \in Starting
    PROVE  \A v \in LUKSVolumes : ~bound[v].pcr15 => TPMUnlocksNow(v)
<1>1. log.uki = Newest /\ log.efi = efi /\ \A v \in LUKSVolumes : Fits(bound[v], Newest)
  BY DEF BindingsGood, Images, BoundGood, Target, UnderWay, BindsTo, InStep, Starting, Changing
<1>2. PCR7(log) = Predicted(Newest) /\ PCR4(log) = <<SignedBy[Newest], Newest>>
  BY <1>1 DEF BindingsGood, LogGood, PCR7, PCR4, Predicted
<1> QED BY <1>1, <1>2 DEF TPMUnlocksNow, Matches, Fits

\* Startup generates the first recovery keys.
LEMMA FirstStep ==
    ASSUME Shapes, FirstAction
    PROVE  /\ Shapes' /\ trouble' = trouble /\ (BoundInInitrd => BoundInInitrd')
           /\ Keyed => Keyed' /\ (Saved => Saved')
           /\ BindingsGood /\ FirstBoot /\ Saved => (FirstBoot' \/ Keyed') /\ Saved'
           /\ Enrolled => Enrolled'
           /\ BindingsGood /\ Generating => Enrolled' \/ Generating'
           /\ SwapLost => SwapLost'
           /\ Stuck => Stuck'
<1> DEFINE Goal == /\ Shapes' /\ trouble' = trouble /\ (BoundInInitrd => BoundInInitrd')
                   /\ Keyed => Keyed' /\ (Saved => Saved')
                   /\ BindingsGood /\ FirstBoot /\ Saved => (FirstBoot' \/ Keyed') /\ Saved'
                   /\ Enrolled => Enrolled'
                   /\ BindingsGood /\ Generating => Enrolled' \/ Generating'
                   /\ SwapLost => SwapLost'
                   /\ Stuck => Stuck'
<1> USE DEF InStep, BindsTo, InFirstBinding, Starting, KeySteps, FirstSteps, keyVars, SavesLater
<1>1. CASE StartKeys
  <2>1. /\ UNCHANGED <<BootVars, keyVars, trouble>> /\ op.at = "start"
        /\ \/ /\ op' = [op EXCEPT !.at = "generate"]
              /\ listed = {} \/ (keyFile["root"] = "none" /\ TPMUnlocksNow("root"))
           \/ /\ op' = [op EXCEPT !.at = "bind15"]
              /\ listed # {} /\ (keyFile["root"] = "none" => ~TPMUnlocksNow("root"))
    BY <1>1 DEF StartKeys, Goto, BootVars
  <2>2. /\ op' = [f \in OpFields |-> op'[f]] /\ op'.todo = op.todo /\ op'.key = op.key
        /\ \/ op'.at = "generate" /\ (listed = {} \/ keyFile["root"] = "none")
           \/ op'.at = "bind15" /\ listed # {} /\ (keyFile["root"] = "none" => ~TPMUnlocksNow("root"))
    BY <2>1 DEF Shapes, OpFields
  <2>3. Shapes' /\ (BoundInInitrd => BoundInInitrd')
    BY <2>1, <2>2 DEF Shapes, BoundInInitrd, BootVars, imageVars
  <2>4. Keyed => Keyed' /\ (Saved => Saved')
    BY <2>1, <2>2 DEF Keyed, Saved, KeysGood, AllEnrolled, Knows, LUKSVolumes
  <2>5. BindingsGood /\ Generating => Generating' /\ op'.at = "generate"
    BY <2>1, <2>2, UnlocksNow DEF Generating, LUKSVolumes, BootVars
  <2>6. BindingsGood /\ FirstBoot /\ Saved => FirstBoot' /\ Saved'
    BY <2>1, <2>2, <2>5 DEF FirstBoot, Saved
  <2>7. (Enrolled => Enrolled') /\ (SwapLost => SwapLost') /\ (Stuck => Stuck')
    BY <2>1, <2>2 DEF Enrolled, SwapLost, Stuck, BootVars
  <2> QED BY <2>1, <2>3, <2>4, <2>5, <2>6, <2>7
<1>2. CASE GenerateCommon
  <2>1. /\ UNCHANGED <<BootVars, keyFile, keySlots, savedKeys, known, trouble>> /\ op.at = "generate"
        /\ listed # {} \/ TPMUnlocksNow("root")
        /\ listed' = IF listed = {} THEN {AutoKey} ELSE listed
        /\ \E next : op' = [op EXCEPT !.at = "enroll", !.todo = LUKSVolumes, !.next = next]
    BY <1>2 DEF GenerateCommon, BootVars
  <2>2. op' = [f \in OpFields |-> op'[f]] /\ op'.at = "enroll" /\ op'.todo = LUKSVolumes
    BY <2>1 DEF Shapes, OpFields
  <2>3. Shapes' /\ (BoundInInitrd => BoundInInitrd')
    BY <2>1, <2>2 DEF Shapes, BoundInInitrd, BootVars, imageVars
  <2>4. ~Keyed /\ ~SwapLost /\ ~Stuck
    BY <2>1 DEF Keyed, SwapLost, Stuck, TPMUnlocksNow
  <2>5. Generating => Generating'
    BY <2>1, <2>2 DEF Generating, BootVars
  <2>6. FirstBoot => FirstBoot' /\ Saved'
    BY <2>1, <2>2, <2>5 DEF FirstBoot, Saved, LUKSVolumes
  <2>7. Enrolled => Enrolled'
    BY <2>1, <2>2 DEF Enrolled
  <2> QED BY <2>1, <2>3, <2>4, <2>5, <2>6, <2>7
<1>3. ASSUME NEW v \in LUKSVolumes, GenerateWipe(v) PROVE Goal
  <2>1. /\ UNCHANGED <<BootVars, listed, savedKeys, known, trouble>> /\ op.at = "enroll" /\ v \in op.todo /\ op.key = NoKey
        /\ keySlots' = [keySlots EXCEPT ![v] = {}]
        /\ keyFile' = [keyFile EXCEPT ![v] = IF @ = "none" THEN "none" ELSE "stale"]
        /\ op' = [op EXCEPT !.key = v]
    BY <1>3 DEF GenerateWipe, BootVars
  <2>2. op' = [f \in OpFields |-> op'[f]] /\ op'.at = "enroll" /\ op'.todo = op.todo /\ op'.key = v
    BY <2>1 DEF Shapes, OpFields
  <2>3. Shapes' /\ (BoundInInitrd => BoundInInitrd')
    BY <2>1, <2>2 DEF Shapes, BoundInInitrd, BootVars, imageVars
  <2>4. ~Keyed /\ ~SwapLost /\ ~Stuck
    BY <2>1 DEF Keyed, SwapLost, Stuck
  <2>5. Generating => Generating'
    BY <2>1, <2>2 DEF Generating, BootVars, Shapes
  <2>6. FirstBoot => FirstBoot' /\ Saved'
    BY <2>1, <2>2, <2>5 DEF FirstBoot, Saved, Shapes
  <2>7. Enrolled => Enrolled'
    BY <2>1, <2>2 DEF Enrolled, Shapes, NoKey, LUKSVolumes
  <2> QED BY <2>1, <2>3, <2>4, <2>5, <2>6, <2>7
<1>4. ASSUME NEW v \in LUKSVolumes, GenerateEnroll(v) PROVE Goal
  <2>1. /\ UNCHANGED <<BootVars, keySlots, listed, savedKeys, known, trouble>> /\ op.at = "enroll" /\ op.key = v
        /\ keyFile' = [keyFile EXCEPT ![v] = "enrolled"]
        /\ \/ op.todo = {v} /\ op' = [op EXCEPT !.at = "passwords", !.todo = LUKSVolumes, !.key = NoKey]
           \/ op.todo # {v} /\ op' = [op EXCEPT !.todo = @ \ {v}, !.key = NoKey]
    BY <1>4 DEF GenerateEnroll, BootVars
  <2>2. /\ op' = [f \in OpFields |-> op'[f]] /\ op'.key = NoKey
        /\ \/ op'.at = "passwords" /\ op.todo = {v} /\ op'.todo = LUKSVolumes
           \/ op'.at = "enroll" /\ op.todo # {v} /\ op'.todo = op.todo \ {v}
    BY <2>1 DEF Shapes, OpFields
  <2>3. Shapes' /\ (BoundInInitrd => BoundInInitrd')
    BY <2>1, <2>2 DEF Shapes, BoundInInitrd, BootVars, imageVars
  <2>4. ~Keyed /\ ~SwapLost /\ ~Stuck
    BY <2>1 DEF Keyed, SwapLost, Stuck
  <2>5. Generating => Generating'
    BY <2>1, <2>2 DEF Generating, BootVars, Shapes, AllEnrolled
  <2>6. ASSUME FirstBoot PROVE FirstBoot' /\ Saved'
    <3>1. /\ known = {} /\ savedKeys = {} /\ Generating /\ listed # {} /\ op.todo # {}
          /\ \A w \in LUKSVolumes : keySlots[w] = {} /\ (w \in op.todo => keyFile[w] = "none")
      BY <2>1, <2>6 DEF FirstBoot, Generating
    <3>2. \A w \in LUKSVolumes : w # v => keyFile'[w] = keyFile[w]
      BY <2>1 DEF Shapes
    <3>3. op'.at = "enroll" => op'.todo # {} /\ \A w \in op'.todo : w # v /\ w \in op.todo
      BY <2>2, <3>1
    <3>4. Generating'
      BY <2>5, <3>1
    <3> QED BY <2>1, <2>2, <3>1, <3>2, <3>3, <3>4 DEF FirstBoot, Saved
  <2>7. Enrolled => Enrolled'
    BY <2>1, <2>2 DEF Enrolled, Shapes
  <2> QED BY <2>1, <2>3, <2>4, <2>5, <2>6, <2>7
<1>5. ASSUME NEW v \in LUKSVolumes, GeneratePasswords(v) PROVE Goal
  <2>1. /\ UNCHANGED <<BootVars, keyFile, listed, savedKeys, known, trouble>> /\ op.at = "passwords" /\ v \in op.todo
        /\ keySlots' = [keySlots EXCEPT ![v] = @ \cup listed]
        /\ \/ op.todo # {v} /\ op' = [op EXCEPT !.todo = @ \ {v}]
           \/ op.todo = {v} /\ op' = Rebind(PCR4Binding(RunningRelease), "bind15")
           \/ op.todo = {v} /\ op' = [op EXCEPT !.at = "bind15", !.todo = {}]
    BY <1>5 DEF GeneratePasswords, BootVars
  <2>2. /\ op' = [f \in OpFields |-> op'[f]] /\ op'.todo \subseteq LUKSVolumes
        /\ \/ op.todo # {v} /\ op'.at = "passwords" /\ op'.todo = op.todo \ {v}
           \/ /\ op.todo = {v} /\ op'.at = "rebind" /\ op'.next = "bind15" /\ op'.todo = LUKSVolumes
              /\ op'.to = PCR4Binding(RunningRelease)
           \/ op.todo = {v} /\ op'.at = "bind15"
    BY <2>1 DEF Shapes, OpFields, Rebind
  <2>3. Shapes' /\ (BoundInInitrd => BoundInInitrd')
    <3>1. Shapes'
      BY <2>1, <2>2 DEF Shapes, BootVars, imageVars, Nexts
    <3>2. op'.at = "rebind" => op'.to.pcr15 /\ "root" \in op'.todo
      BY <2>2, BindsInitrd DEF LUKSVolumes
    <3>3. op'.at = "rebind" => op'.next = "bind15"
      BY <2>2
    <3> QED BY <2>2, <3>1, <3>2, <3>3 DEF BoundInInitrd
  <2>4. ~Keyed /\ ~SwapLost /\ ~Stuck
    BY <2>1 DEF Keyed, SwapLost, Stuck
  <2>5. Generating => Enrolled' /\ (op.todo # {v} => Generating')
    BY <2>1, <2>2 DEF Generating, BootVars, AllEnrolled, Enrolled
  <2>6. ASSUME FirstBoot PROVE (FirstBoot' \/ Keyed') /\ Saved'
    <3>1. listed # {} /\ known = {} /\ savedKeys = {} /\ AllEnrolled /\ Generating
      BY <2>1, <2>6 DEF FirstBoot, Generating
    <3>2. /\ keySlots'[v] = listed /\ \A w \in LUKSVolumes : w # v => keySlots'[w] = keySlots[w]
          /\ \A w \in LUKSVolumes : keySlots[w] = IF w \in op.todo THEN {} ELSE listed
      BY <2>1, <2>6 DEF FirstBoot, Shapes
    <3>3. CASE op.todo # {v}
      BY <2>1, <2>2, <2>5, <3>1, <3>2, <3>3 DEF FirstBoot, Saved
    <3>4. CASE op.todo = {v}
      BY <2>1, <2>2, <3>1, <3>2, <3>4 DEF Keyed, KeysGood, AllEnrolled, Knows, Saved
    <3> QED BY <3>3, <3>4
  <2>7. Enrolled => Enrolled'
    BY <2>1, <2>2 DEF Enrolled
  <2> QED BY <2>1, <2>3, <2>4, <2>5, <2>6, <2>7
<1>6. CASE GenerateImpossible
  <2>1. /\ Abort /\ trouble' = trouble /\ op.at \in FirstSteps
        /\ op.at = "enroll" => op.key = NoKey
        /\ op.at = "generate" => ~TPMUnlocksNow("root")
        /\ op.at # "generate" => \E v \in op.todo : ~TPMUnlocksNow(v)
    BY <1>6 DEF GenerateImpossible
  <2>2. Shapes' /\ UNCHANGED <<BootVars, keyFile, keySlots, listed, known>> /\ op'.at = "start" /\ savedKeys' = listed
    BY <2>1, AbortEffect DEF InStartup, Startup
  <2>3. BoundInInitrd'
    BY <2>2, <2>1 DEF BoundInInitrd
  <2>4. ~Keyed /\ ~SwapLost
    BY <2>1 DEF Keyed, SwapLost
  <2>5. ~(BindingsGood /\ Generating)
    BY <2>1, UnlocksNow DEF Generating, LUKSVolumes, Shapes
  <2>6. (Stuck => Stuck') /\ (Enrolled => Enrolled')
    BY <2>1, <2>2 DEF Stuck, Enrolled, BootVars, NoKey, LUKSVolumes
  <2> QED BY <2>1, <2>2, <2>3, <2>4, <2>5, <2>6 DEF FirstBoot
<1> QED BY <1>1, <1>2, <1>3, <1>4, <1>5, <1>6 DEF FirstAction

\* Requests add and remove recovery keys, and change no binding and no key file.
LEMMA RequestStep ==
    ASSUME Shapes, RequestAction
    PROVE  /\ Shapes' /\ UNCHANGED <<BootVars, keyFile, trouble>>
           /\ op.at \in KeySteps \cup {"idle"} /\ op'.at \in KeySteps \cup {"idle"}
           /\ Keyed => Keyed' /\ (Saved => Saved')
           /\ SwapLost => SwapLost'
<1> DEFINE Goal == /\ Shapes' /\ UNCHANGED <<BootVars, keyFile, trouble>>
                   /\ op.at \in KeySteps \cup {"idle"} /\ op'.at \in KeySteps \cup {"idle"}
                   /\ Keyed => Keyed' /\ (Saved => Saved')
                   /\ SwapLost => SwapLost'
<1> USE DEF InStep, BindsTo, KeySteps, FirstSteps, keyVars, SavesLater
<1>1. CASE Retrieve
  <2>1. /\ UNCHANGED <<BootVars, keyFile, keySlots, listed, op, trouble>> /\ op.at = "idle"
        /\ known' = known \cup listed /\ savedKeys' = listed
    BY <1>1 DEF Retrieve, BootVars
  <2>2. Shapes' /\ (SwapLost => SwapLost')
    BY <2>1 DEF Shapes, SwapLost, BootVars, imageVars
  <2>3. Keyed => Keyed' /\ Saved'
    BY <2>1 DEF Keyed, KeysGood, AllEnrolled, Knows, Saved
  <2> QED BY <2>1, <2>2, <2>3
<1>2. ASSUME NEW want \in (SUBSET Keys) \ {{}}, PutKeys(want) PROVE Goal
  <2>1. UNCHANGED <<BootVars, keyVars, trouble>> /\ op.at = "idle" /\ op' = [NoOp EXCEPT !.at = "put", !.want = want]
    BY <1>2 DEF PutKeys, BootVars
  <2>2. op' = [f \in OpFields |-> op'[f]] /\ op'.at = "put" /\ op'.want = want /\ op'.next = "idle" /\ op'.todo = {}
    BY <2>1, NoOpIs DEF OpFields
  <2>3. Shapes' /\ (SwapLost => SwapLost')
    BY <2>1, <2>2 DEF Shapes, SwapLost, BootVars, imageVars
  <2>4. Keyed => Keyed' /\ Saved'
    BY <2>1, <2>2 DEF Keyed, KeysGood, AllEnrolled, Saved
  <2> QED BY <2>1, <2>2, <2>3, <2>4
<1>3. CASE PutNext
  <2>1. /\ UNCHANGED <<BootVars, keyVars, trouble>> /\ op.at = "put"
        /\ \/ \E k : op' = [op EXCEPT !.at = "addKey", !.key = k, !.todo = LUKSVolumes, !.next = "put"]
           \/ \E k : op' = [op EXCEPT !.at = "wipe", !.key = k, !.todo = LUKSVolumes]
    BY <1>3 DEF PutNext, BootVars
  <2>2. /\ op' = [f \in OpFields |-> op'[f]] /\ op'.want = op.want /\ op'.todo = LUKSVolumes
        /\ \/ op'.at = "addKey" /\ op'.next = "put"
           \/ op'.at = "wipe" /\ op'.next = op.next
    BY <2>1 DEF Shapes, OpFields
  <2>3. Shapes' /\ (SwapLost => SwapLost')
    BY <2>1, <2>2 DEF Shapes, SwapLost, BootVars, imageVars, LUKSVolumes
  <2>4. Keyed => Keyed' /\ Saved'
    BY <2>1, <2>2 DEF Keyed, AllEnrolled, Saved
  <2> QED BY <2>1, <2>2, <2>3, <2>4
<1>4. CASE PutDone
  <2>1. /\ UNCHANGED <<BootVars, keyFile, keySlots, listed, trouble>> /\ op.at = "put" /\ op.want = listed
        /\ op' = NoOp /\ savedKeys' = listed /\ known' = known \cup listed
    BY <1>4 DEF PutDone, EndOperation, BootVars
  <2>2. Shapes' /\ listed # {} /\ (SwapLost => SwapLost')
    BY <2>1, NoOpIs DEF Shapes, SwapLost, BootVars, imageVars
  <2>3. Keyed => Keyed' /\ Saved'
    BY <2>1, <2>2, NoOpIs DEF Keyed, KeysGood, AllEnrolled, Knows, Saved
  <2> QED BY <2>1, <2>2, <2>3, NoOpIs
<1>5. CASE ReaddKeys
  <2>1. /\ UNCHANGED <<BootVars, keyVars, trouble>> /\ op.at = "readd"
        /\ \/ op' = [op EXCEPT !.at = "put"]
           \/ \E k : op' = [op EXCEPT !.at = "addKey", !.key = k, !.todo = LUKSVolumes, !.next = "readd"]
    BY <1>5 DEF ReaddKeys, Goto, BootVars
  <2>2. /\ op' = [f \in OpFields |-> op'[f]] /\ op'.want = op.want
        /\ \/ op'.at = "addKey" /\ op'.next = "readd" /\ op'.todo = LUKSVolumes
           \/ op'.at = "put" /\ op'.next = op.next /\ op'.todo = op.todo
    BY <2>1 DEF Shapes, OpFields
  <2>3. Shapes' /\ ~SwapLost
    BY <2>1, <2>2 DEF Shapes, SwapLost, BootVars, imageVars
  <2>4. Keyed => Keyed' /\ Saved'
    BY <2>1, <2>2 DEF Keyed, AllEnrolled, Saved
  <2> QED BY <2>1, <2>2, <2>3, <2>4
<1>6. ASSUME NEW v \in LUKSVolumes, AddKeyVolume(v) PROVE Goal
  <2>1. /\ UNCHANGED <<BootVars, keyFile, savedKeys, known, trouble>> /\ op.at = "addKey" /\ v \in op.todo
        /\ keyFile[v] = "enrolled" /\ keySlots' = [keySlots EXCEPT ![v] = @ \cup {op.key}]
        /\ \/ op.todo = {v} /\ listed' = listed \cup {op.key} /\ op' = [op EXCEPT !.at = op.next, !.todo = {}]
           \/ op.todo # {v} /\ listed' = listed /\ op' = [op EXCEPT !.todo = @ \ {v}]
    BY <1>6 DEF AddKeyVolume, BootVars
  <2>2. /\ op' = [f \in OpFields |-> op'[f]] /\ op'.want = op.want /\ op'.next = op.next /\ op'.key = op.key
        /\ \/ op.todo = {v} /\ listed' = listed \cup {op.key} /\ op'.at = op.next /\ op'.todo = {}
           \/ op.todo # {v} /\ listed' = listed /\ op'.at = "addKey" /\ op'.todo = op.todo \ {v}
    BY <2>1 DEF Shapes, OpFields
  <2>3. Shapes' /\ op.next \in {"put", "readd"}
    BY <2>1, <2>2 DEF Shapes, BootVars, imageVars
  <2>4. SwapLost => SwapLost'
    BY <2>1, <2>2 DEF SwapLost, LUKSVolumes
  <2>5. ASSUME Keyed PROVE Keyed' /\ Saved'
    <3>1. keySlots'[v] = listed \cup {op.key} /\ \A w \in LUKSVolumes : w # v => keySlots'[w] = keySlots[w]
      BY <2>1, <2>5 DEF Shapes, Keyed
    <3> QED BY <2>1, <2>2, <2>3, <2>5, <3>1 DEF Keyed, AllEnrolled, Saved
  <2> QED BY <2>1, <2>2, <2>3, <2>4, <2>5
<1>7. ASSUME NEW v \in LUKSVolumes, WipeVolume(v) PROVE Goal
  <2>1. /\ UNCHANGED <<BootVars, keyFile, savedKeys, known, trouble>> /\ op.at = "wipe" /\ v \in op.todo
        /\ keyFile[v] = "enrolled" /\ keySlots' = [keySlots EXCEPT ![v] = {}]
        /\ \/ /\ op.todo = {v} /\ listed' = {}
              /\ op' = [op EXCEPT !.at = "readd", !.keep = listed \ {op.key}, !.todo = {}]
           \/ op.todo # {v} /\ listed' = listed /\ op' = [op EXCEPT !.todo = @ \ {v}]
    BY <1>7 DEF WipeVolume, BootVars
  <2>2. /\ op' = [f \in OpFields |-> op'[f]] /\ op'.want = op.want /\ op'.next = op.next
        /\ \/ op.todo = {v} /\ listed' = {} /\ op'.at = "readd" /\ op'.todo = {}
           \/ op.todo # {v} /\ listed' = listed /\ op'.at = "wipe" /\ op'.todo = op.todo \ {v}
    BY <2>1 DEF Shapes, OpFields
  <2>3. Shapes'
    BY <2>1, <2>2 DEF Shapes, BootVars, imageVars
  <2>4. SwapLost => SwapLost'
    BY <2>1, <2>2 DEF SwapLost, LUKSVolumes
  <2>5. ASSUME Keyed PROVE Keyed' /\ Saved'
    <3>1. keySlots'[v] = {} /\ \A w \in LUKSVolumes : w # v => keySlots'[w] = keySlots[w]
      BY <2>1 DEF Shapes
    <3> QED BY <2>1, <2>2, <2>5, <3>1 DEF Keyed, AllEnrolled, Saved
  <2> QED BY <2>1, <2>2, <2>3, <2>4, <2>5
<1> QED BY <1>1, <1>2, <1>3, <1>4, <1>5, <1>6, <1>7 DEF RequestAction

\* A boot reads the keys that were saved.
LEMMA BootKeys ==
    ASSUME Shapes, InStep("off"), NEW u, BootInto(u), UNCHANGED <<imageVars, bound, keyFile, keySlots, savedKeys, known>>
    PROVE  /\ Shapes' /\ InStep("start")' /\ BoundInInitrd' /\ Saved'
           /\ (Keyed => Keyed') /\ (Enrolled => Enrolled') /\ (Generating => Generating')
           /\ (SwapLost => SwapLost') /\ (Stuck => Stuck')
<1>1. op' = [NoOp EXCEPT !.at = "start"] /\ listed' = savedKeys
  BY DEF BootInto
<1>2. op' = [f \in OpFields |-> op'[f]] /\ op'.at = "start" /\ op'.todo = {}
  BY <1>1, NoOpIs DEF OpFields
<1> USE DEF InStep, BindsTo, InFirstBinding, Starting, KeySteps, FirstSteps
<1>3. Shapes' /\ BoundInInitrd' /\ Saved'
  BY <1>1, <1>2 DEF Shapes, BoundInInitrd, Saved, imageVars
<1>4. (Keyed => Keyed') /\ (Enrolled => Enrolled')
  BY <1>1, <1>2 DEF Keyed, KeysGood, AllEnrolled, Knows, Enrolled
<1>5. (Generating => Generating') /\ (SwapLost => SwapLost') /\ (Stuck => Stuck')
  BY <1>1, <1>2 DEF Generating, SwapLost, Stuck
<1> QED BY <1>2, <1>3, <1>4, <1>5

\* What the keys are, once there are some, stays so in every step that goes as it should.
LEMMA KeysStep ==
    ASSUME Shapes, Calm
    PROVE  /\ Shapes' /\ trouble' = trouble /\ (BoundInInitrd => BoundInInitrd')
           /\ Keyed => Keyed' /\ (Saved => Saved')
           /\ BindingsGood /\ FirstBoot /\ Saved => (FirstBoot' \/ Keyed') /\ Saved'
           /\ Enrolled => Enrolled'
           /\ BindingsGood /\ Generating => Enrolled' \/ Generating'
           /\ SwapLost => SwapLost'
           /\ Stuck => Stuck'
<1> USE DEF InStep, BindsTo, InFirstBinding, Starting, Plain, KeySteps, FirstSteps
<1>1. CASE PlainAction
  <2>1. Shapes' /\ PlainEffect /\ (BoundInInitrd => BoundInInitrd')
    BY <1>1, PlainStep
  <2>2. Keyed => Keyed'
    BY <2>1 DEF PlainEffect, Keyed, KeysGood, AllEnrolled, Knows
  <2>3. Keyed /\ Saved => Saved'
    BY <2>1 DEF PlainEffect, Saved, SavesLater
  <2>4. ~Generating /\ ~FirstBoot /\ ~Stuck
    BY <2>1 DEF PlainEffect, Generating, FirstBoot, Stuck
  <2>5. (Enrolled => Enrolled') /\ (SwapLost => SwapLost')
    BY <2>1 DEF PlainEffect, Enrolled, SwapLost
  <2> QED BY <2>1, <2>2, <2>3, <2>4, <2>5 DEF PlainEffect
<1>2. CASE RequestAction
  <2>1. /\ Shapes' /\ UNCHANGED <<BootVars, keyFile, trouble>>
        /\ op.at \in KeySteps \cup {"idle"} /\ op'.at \in KeySteps \cup {"idle"}
        /\ Keyed => Keyed' /\ (Saved => Saved')
        /\ SwapLost => SwapLost'
    BY <1>2, RequestStep
  <2>2. ~Generating /\ ~FirstBoot /\ ~Stuck
    BY <2>1 DEF Generating, FirstBoot, Stuck
  <2>3. (Enrolled => Enrolled') /\ (BoundInInitrd => BoundInInitrd')
    BY <2>1 DEF Enrolled, BoundInInitrd, BootVars
  <2> QED BY <2>1, <2>2, <2>3
<1>3. CASE BootNewest
  <2>1. /\ InStep("off") /\ BootInto(Newest) /\ UNCHANGED <<imageVars, bound, keyFile, keySlots, savedKeys, known, trouble>>
    BY <1>3 DEF BootNewest
  <2> QED BY <2>1, BootKeys DEF FirstBoot
<1> QED BY <1>1, <1>2, <1>3, FirstStep DEF Calm

-----------------------------------------------------------------------------
(* What the steps do to the bindings.                                      *)

LEMMA FirstBindings ==
    ASSUME Shapes, BindingsGood, FirstAction \/ StartBindings
    PROVE  BindingsGood'
<1> USE DEF BindingsGood, InStep, BindsTo, InFirstBinding, UnderWay, Target, Starting, Changing, BootVars
<1>0. ASSUME UNCHANGED BootVars, op.at \in Starting, op'.at \in {"start", "generate", "bind15", "enroll", "passwords", "check"},
             op'.at \in {"enroll", "passwords"} => op'.next = "bind15" \/ (op'.next = "pcr4" /\ ~sb)
      PROVE  BindingsGood'
  BY <1>0, BootSame DEF Images, StubGood, BoundGood, imageVars, firmwareVars
<1>1. CASE StartKeys
  <2>1. UNCHANGED BootVars /\ op.at = "start" /\ \E step \in {"generate", "bind15"} : op' = [op EXCEPT !.at = step]
    BY <1>1 DEF StartKeys, Goto
  <2>2. op'.at \in {"generate", "bind15"}
    BY <2>1 DEF Shapes, OpFields
  <2> QED BY <1>0, <2>1, <2>2
<1>2. CASE GenerateCommon
  <2>1. /\ UNCHANGED BootVars /\ op.at = "generate"
        /\ \E next : /\ op' = [op EXCEPT !.at = "enroll", !.todo = LUKSVolumes, !.next = next]
                     /\ next = "bind15" \/ (next = "pcr4" /\ ~sb)
    BY <1>2 DEF GenerateCommon, SBEnabled, LogGood
  <2>2. op'.at = "enroll" /\ (op'.next = "bind15" \/ (op'.next = "pcr4" /\ ~sb))
    BY <2>1 DEF Shapes, OpFields
  <2> QED BY <1>0, <2>1, <2>2
<1>3. ASSUME NEW v \in LUKSVolumes, GenerateWipe(v) \/ GenerateEnroll(v) PROVE BindingsGood'
  <2>1. /\ UNCHANGED BootVars /\ op.at = "enroll"
        /\ \/ op' = [op EXCEPT !.key = v]
           \/ op' = [op EXCEPT !.at = "passwords", !.todo = LUKSVolumes, !.key = NoKey]
           \/ op' = [op EXCEPT !.todo = @ \ {v}, !.key = NoKey]
    BY <1>3 DEF GenerateWipe, GenerateEnroll
  <2>2. op'.at \in {"enroll", "passwords"} /\ op'.next = op.next
    BY <2>1 DEF Shapes, OpFields
  <2> QED BY <1>0, <2>1, <2>2 DEF BoundGood
<1>4. CASE GenerateImpossible
  <2>1. Abort /\ op.at \in {"generate", "enroll", "passwords"}
    BY <1>4 DEF GenerateImpossible
  <2>2. UNCHANGED BootVars /\ op'.at = "start"
    BY <2>1, AbortEffect DEF InStartup, Startup
  <2> QED BY <1>0, <2>1, <2>2
<1>5. ASSUME op.at \in Starting, UNCHANGED BootVars, op'.at = "rebind", op'.next \in {"bind15", "check"},
             op'.todo = LUKSVolumes, Fits(op'.to, Newest)
      PROVE  BindingsGood'
  <2>1. LogGood' /\ Images' /\ StubGood'
    BY <1>5, BootSame DEF Images, StubGood, imageVars, firmwareVars
  <2>2. BoundGood'
    BY <1>5, BootSame DEF BoundGood, imageVars, firmwareVars
  <2> QED BY <2>1, <2>2
<1>6. op.at \in Starting => Newest \in OSReleases /\ StubOf(Newest) /\ pem = SignedBy[Newest] /\ RunningRelease = Newest
  BY DEF Images, StubGood, RunningRelease
<1>7. ASSUME NEW v \in LUKSVolumes, GeneratePasswords(v) PROVE BindingsGood'
  <2>1. /\ UNCHANGED BootVars /\ op.at = "passwords"
        /\ \/ op' = [op EXCEPT !.todo = @ \ {v}]
           \/ op.next = "pcr4" /\ op' = Rebind(PCR4Binding(RunningRelease), "bind15")
           \/ op' = [op EXCEPT !.at = "bind15", !.todo = {}]
    BY <1>7 DEF GeneratePasswords
  <2>2. \/ op'.at = "passwords" /\ op'.next = op.next
        \/ /\ op.next = "pcr4" /\ op'.at = "rebind" /\ op'.next = "bind15"
           /\ op'.to = PCR4Binding(RunningRelease) /\ op'.todo = LUKSVolumes
        \/ op'.at = "bind15"
    BY <2>1 DEF Shapes, OpFields, Rebind
  <2>3. op.next = "pcr4" => Fits(PCR4Binding(RunningRelease), Newest)
    BY <2>1, <1>6, BindingsFit DEF BoundGood
  <2> QED BY <1>0, <1>5, <2>1, <2>2, <2>3 DEF BoundGood
<1>8. CASE StartBindings
  <2>1. /\ UNCHANGED BootVars /\ op.at = "bind15"
        /\ \/ op' = [NoOp EXCEPT !.at = "check", !.startup = TRUE]
           \/ op' = [Rebind(KeyChangeBinding(RunningRelease), "check") EXCEPT !.startup = TRUE]
    BY <1>8 DEF StartBindings
  <2>2. \/ op'.at = "check"
        \/ /\ op'.at = "rebind" /\ op'.next = "check"
           /\ op'.to = KeyChangeBinding(RunningRelease) /\ op'.todo = LUKSVolumes
    BY <2>1, NoOpIs DEF Shapes, OpFields, Rebind
  <2>3. Fits(KeyChangeBinding(RunningRelease), Newest)
    BY <2>1, <1>6, BindingsFit
  <2> QED BY <1>0, <1>5, <2>1, <2>2, <2>3
<1> QED BY <1>1, <1>2, <1>3, <1>4, <1>7, <1>8 DEF FirstAction

\* A volume is bound again, or the certificates are updated.
LEMMA CertBindings ==
    ASSUME Shapes, BindingsGood,
           \/ \E v \in LUKSVolumes : RebindVolume(v)
           \/ StartCheck \/ PublishCerts \/ PredictCerts \/ CertAppended \/ CertsComplete
           \/ \E var \in EFIVariables, cert \in Certs : AppendCert(var, cert)
           \/ \E cert \in Certs : RefuseDbx(cert)
    PROVE  BindingsGood'
<1> USE DEF BindingsGood, InStep, BindsTo, InFirstBinding, UnderWay, Target, Starting, Changing, BootVars
<1>1. ASSUME NEW v \in LUKSVolumes, RebindVolume(v) PROVE BindingsGood'
  <2>1. /\ UNCHANGED <<firmwareVars, imageVars, log, tpmGood, pem>> /\ op.at = "rebind" /\ v \in op.todo
        /\ bound' = [bound EXCEPT ![v] = op.to]
        /\ \/ op.todo = {v} /\ op' = [op EXCEPT !.at = op.next, !.todo = {}]
           \/ op.todo # {v} /\ op' = [op EXCEPT !.todo = @ \ {v}]
    BY <1>1 DEF RebindVolume
  <2>2. /\ op'.next = op.next /\ op'.to = op.to /\ op'.rel = op.rel
        /\ op.next \in {"bind15", "check", "certsReboot", "install"}
        /\ \/ op.todo = {v} /\ op'.at = op.next
           \/ op'.at = "rebind" /\ op'.todo = op.todo \ {v}
    BY <2>1 DEF Shapes, OpFields, BoundGood
  <2>3. bound'[v] = op.to /\ \A w \in LUKSVolumes : w # v => bound'[w] = bound[w]
    BY <2>1 DEF Shapes
  <2>4. Newest' = Newest /\ LogGood'
    BY <2>1 DEF Newest, LogGood, imageVars, firmwareVars
  <2>5. Images' /\ StubGood'
    BY <2>1, <2>2, <2>4 DEF Images, StubGood, StubOf, imageVars, firmwareVars
  <2>6. \A b, u : Fits(b, u)' <=> Fits(b, u)
    BY <2>1 DEF Fits, Predicted, firmwareVars
  <2>7. BoundGood'
    BY <2>1, <2>2, <2>3, <2>4, <2>6 DEF BoundGood, firmwareVars
  <2> QED BY <2>4, <2>5, <2>7
<1>2. ASSUME UNCHANGED BootVars, op.at \in {"idle", "check", "certs", "certsReboot", "os"},
             op'.at \in {"idle", "certs", "os", "reboot"}, op'.at = "certs" => sb
      PROVE  BindingsGood'
  BY <1>2, BootSame DEF Images, StubGood, BoundGood, imageVars, firmwareVars
<1>3. CASE StartCheck
  <2>1. /\ UNCHANGED BootVars /\ op.at \in {"idle", "check"}
        /\ \E vars, s : \/ SBEnabled /\ op' = [NoOp EXCEPT !.at = "certs", !.vars = vars, !.startup = s]
                        \/ op' = [NoOp EXCEPT !.at = "os", !.vars = vars, !.startup = s]
    BY <1>3 DEF StartCheck
  <2>2. op'.at \in {"certs", "os"} /\ (op'.at = "certs" => sb)
    BY <2>1, NoOpIs DEF OpFields, SBEnabled, LogGood
  <2> QED BY <1>2, <2>1, <2>2
<1>4. CASE PublishCerts
  <2>1. UNCHANGED <<BootVars, op>> /\ op.at = "idle"
    BY <1>4 DEF PublishCerts
  <2> QED BY <1>2, <2>1
<1>5. CASE CertAppended \/ CertsComplete
  <2>1. /\ UNCHANGED BootVars /\ op.at \in {"certs", "certsReboot"}
        /\ \/ \E step \in {"os", "reboot"} : op' = [op EXCEPT !.at = step, !.next = "idle"]
           \/ op' = [op EXCEPT !.at = "os"]
    BY <1>5 DEF CertAppended, CertsComplete, Goto
  <2>2. op'.at \in {"os", "reboot"}
    BY <2>1 DEF Shapes, OpFields
  <2> QED BY <1>2, <2>1, <2>2
<1>6. ASSUME NEW cert \in Certs, RefuseDbx(cert) PROVE BindingsGood'
  <2>1. Abort /\ op.at = "certs" /\ sb
    BY <1>6 DEF RefuseDbx, BoundGood
  <2>2. UNCHANGED BootVars /\ op'.at \in {"certs", "idle"}
    BY <2>1, AbortEffect DEF InStartup, Startup
  <2> QED BY <1>2, <2>1, <2>2
<1>7. CASE PredictCerts
  <2>1. /\ UNCHANGED BootVars /\ op.at = "rebindCerts" /\ sb
        /\ op' = Rebind(Binding(AnyPCR4, NewPCR7, pem), "certsReboot")
    BY <1>7 DEF PredictCerts, BoundGood
  <2>2. /\ op'.at = "rebind" /\ op'.todo = LUKSVolumes /\ op'.next = "certsReboot"
        /\ op'.to = Binding(AnyPCR4, NewPCR7, pem)
    BY <2>1 DEF Shapes, OpFields, Rebind
  <2>3. Fits(Binding(AnyPCR4, NewPCR7, pem), Newest)
    BY <2>1, BindingsFit DEF Images, StubGood
  <2> QED BY <2>1, <2>2, <2>3, BootSame DEF Images, StubGood, BoundGood, imageVars, firmwareVars
<1>8. ASSUME NEW var \in EFIVariables, NEW cert \in Certs, AppendCert(var, cert) PROVE BindingsGood'
  <2>1. /\ UNCHANGED <<sb, imageVars, log, tpmGood, pem, bound>> /\ op.at = "certs" /\ sb
        /\ op' = [op EXCEPT !.at = "rebindCerts"]
    BY <1>8 DEF AppendCert, BoundGood
  <2>2. op'.at = "rebindCerts"
    BY <2>1 DEF Shapes, OpFields
  <2>3. Newest' = Newest /\ LogGood'
    BY <2>1 DEF Newest, LogGood, imageVars
  <2>4. Images' /\ StubGood' /\ BoundGood'
    BY <2>1, <2>2, <2>3 DEF Images, StubGood, StubOf, BoundGood, imageVars
  <2> QED BY <2>3, <2>4
<1> QED BY <1>1, <1>3, <1>4, <1>5, <1>6, <1>7, <1>8

\* An OS update, with the change of the signing key.
LEMMA UpdateBindings ==
    ASSUME Shapes, BindingsGood,
           \/ NoOSUpdate \/ (\E r \in OSReleases : OSUpdate(r))
           \/ CopyStub("stub1", "systemd", "stub2") \/ CopyStub("stub2", "boot", "key")
           \/ ChangeKey \/ InstallImage
    PROVE  BindingsGood'
<1> USE DEF BindingsGood, InStep, BindsTo, InFirstBinding, UnderWay, Target, Starting, Changing, BootVars
<1>1. CASE NoOSUpdate
  <2>1. UNCHANGED BootVars /\ op.at = "os" /\ op'.at = "idle"
    BY <1>1, NoOpIs DEF NoOSUpdate, EndOperation
  <2> QED BY <2>1, BootSame DEF Images, StubGood, BoundGood, imageVars, firmwareVars
<1>2. ASSUME NEW r \in OSReleases, OSUpdate(r) PROVE BindingsGood'
  <2>1. /\ UNCHANGED BootVars /\ op.at = "os" /\ Newer(r)
        /\ \/ op' = [op EXCEPT !.rel = r, !.at = "stub1"]
           \/ /\ SignedBy[r] = pem /\ ~SBEnabled
              /\ op' = [op EXCEPT !.rel = r, !.at = "rebind", !.todo = LUKSVolumes, !.to = PCR4Binding(r), !.next = "install"]
           \/ SignedBy[r] = pem /\ SBEnabled /\ op' = [op EXCEPT !.rel = r, !.at = "install"]
    BY <1>2 DEF OSUpdate, Shapes, OpFields
  <2>2. /\ op'.rel = r
        /\ \/ op'.at = "stub1"
           \/ /\ SignedBy[r] = pem /\ ~sb /\ op'.at = "rebind" /\ op'.todo = LUKSVolumes
              /\ op'.to = PCR4Binding(r) /\ op'.next = "install"
           \/ SignedBy[r] = pem /\ sb /\ op'.at = "install"
    BY <2>1 DEF Shapes, OpFields, SBEnabled, LogGood
  <2>3. StubOf(Newest) /\ pem = SignedBy[Newest] /\ \A v \in LUKSVolumes : Fits(bound[v], Newest)
    BY <2>1 DEF StubGood, BoundGood
  <2>4. SignedBy[r] = pem => StubOf(r) /\ (~sb => Fits(PCR4Binding(r), r))
    BY <2>3, BindingsFit DEF StubOf
  <2>5. SignedBy[r] = pem /\ sb => \A v \in LUKSVolumes : Fits(bound[v], r)
    BY <2>3, CertAssumption DEF Fits, Predicted, AnyPCR4
  <2>6. \A u \in ukis : u < r
    BY <2>1 DEF Newer, Images, OSReleases
  <2>7. LogGood' /\ Images' /\ StubGood'
    BY <2>1, <2>2, <2>3, <2>4, <2>6, BootSame DEF Images, StubGood, imageVars, firmwareVars
  <2>8. BoundGood'
    BY <2>1, <2>2, <2>4, <2>5, BootSame DEF BoundGood, imageVars, firmwareVars
  <2> QED BY <2>7, <2>8
<1>3. ASSUME NEW step, NEW path, NEW next, CopyStub(step, path, next),
             <<step, path, next>> \in {<<"stub1", "systemd", "stub2">>, <<"stub2", "boot", "key">>}
      PROVE  BindingsGood'
  <2>1. /\ UNCHANGED <<firmwareVars, ukis, log, tpmGood, pem, bound>> /\ op.at = step
        /\ stub' = [stub EXCEPT ![path] = IF @ = "torn" THEN SignedBy[op.rel] ELSE "torn"]
        /\ \/ stub[path] = "torn" /\ op' = [op EXCEPT !.at = next]
           \/ stub[path] # "torn" /\ op' = op
    BY <1>3 DEF CopyStub, Goto
  <2>2. /\ op'.rel = op.rel
        /\ \/ stub'[path] = SignedBy[op.rel] /\ op'.at = next
           \/ op'.at = step
        /\ \/ step = "stub1" /\ path = "systemd" /\ next = "stub2"
           \/ step = "stub2" /\ path = "boot" /\ next = "key"
    BY <2>1, <1>3 DEF Shapes, OpFields
  <2>3. step = "stub2" => stub'["systemd"] = stub["systemd"]
    BY <1>3, <2>1, <2>2 DEF Shapes
  <2>4. Newest' = Newest /\ LogGood'
    BY <2>1 DEF Newest, LogGood, firmwareVars
  <2>5. stub' = [p \in {"systemd", "boot"} |-> stub'[p]]
    BY <2>1 DEF Shapes
  <2>6. StubGood'
    BY <2>1, <2>2, <2>3, <2>5 DEF StubGood, StubOf
  <2>7. Images' /\ BoundGood'
    BY <2>1, <2>2, <2>4 DEF Images, BoundGood, firmwareVars
  <2> QED BY <2>4, <2>6, <2>7
<1>4. CASE ChangeKey
  <2>1. /\ UNCHANGED <<firmwareVars, imageVars, log, tpmGood, bound>> /\ op.at = "key"
        /\ pem' = SignedBy[op.rel] /\ op' = Rebind(KeyChangeBinding(op.rel), "install")
    BY <1>4 DEF ChangeKey
  <2>2. /\ op'.rel = op.rel /\ op'.at = "rebind" /\ op'.next = "install" /\ op'.todo = LUKSVolumes
        /\ op'.to = KeyChangeBinding(op.rel)
    BY <2>1 DEF Shapes, OpFields, Rebind
  <2>3. Fits(KeyChangeBinding(op.rel), op.rel)
    BY <2>1, BindingsFit DEF Images, StubGood
  <2>4. Newest' = Newest /\ LogGood'
    BY <2>1 DEF Newest, LogGood, firmwareVars, imageVars
  <2>5. Images' /\ StubGood'
    BY <2>1, <2>2, <2>4 DEF Images, StubGood, StubOf, imageVars
  <2>6. \A b, u : Fits(b, u)' <=> Fits(b, u)
    BY <2>1 DEF Fits, Predicted, firmwareVars
  <2>7. BoundGood'
    BY <2>1, <2>2, <2>3, <2>6 DEF BoundGood
  <2> QED BY <2>4, <2>5, <2>7
<1>5. CASE InstallImage
  <2>1. /\ UNCHANGED <<firmwareVars, stub, log, tpmGood, pem, bound>> /\ op.at = "install"
        /\ ukis' = {log.uki, op.rel} /\ (op' = [op EXCEPT !.at = "reboot"] \/ op' = NoOp)
    BY <1>5 DEF InstallImage, RunningRelease, EndOperation
  <2>2. op'.at \in {"reboot", "idle"}
    BY <2>1, NoOpIs DEF Shapes, OpFields
  <2>3. log.uki \in OSReleases /\ op.rel \in OSReleases /\ log.uki < op.rel
    BY <2>1 DEF Images, LogGood
  <2>4. Newest' = op.rel
    <3>1. Newest' = NewestOf(ukis')
      BY DEF Newest, NewestOf
    <3>2. ukis' \in SUBSET OSReleases /\ op.rel \in ukis' /\ \A w \in ukis' : w <= op.rel
      BY <2>1, <2>3 DEF OSReleases
    <3> QED BY <3>1, <3>2, NewestIs
  <2>5. LogGood'
    BY <2>1 DEF LogGood, firmwareVars
  <2>6. Images' /\ StubGood'
    BY <2>1, <2>2, <2>3, <2>4 DEF Images, StubGood, StubOf, OSReleases
  <2>7. \A b, u : Fits(b, u)' <=> Fits(b, u)
    BY <2>1 DEF Fits, Predicted, firmwareVars
  <2>8. BoundGood'
    BY <2>1, <2>2, <2>4, <2>7 DEF BoundGood
  <2> QED BY <2>5, <2>6, <2>8
<1> QED BY <1>1, <1>2, <1>3, <1>4, <1>5

LEMMA BootBindings == ASSUME BindingsGood, BootNewest PROVE BindingsGood'
<1> USE DEF BindingsGood, InStep, BindsTo, InFirstBinding, UnderWay, Target, Starting, Changing, BootVars
<1>1. /\ UNCHANGED <<firmwareVars, imageVars, bound>> /\ op.at = "off" /\ op'.at = "start"
      /\ log' = Measure(Newest) /\ tpmGood' = TPMUnlocks(Newest) /\ pem' = SignedBy[Newest]
  BY NoOpIs DEF BootNewest, BootInto, OpFields
<1>2. Newest \in OSReleases /\ StubOf(Newest) /\ \A v \in LUKSVolumes : Fits(bound[v], Newest)
  BY <1>1 DEF Images, StubGood, BoundGood
<1>3. TPMUnlocks(Newest)
  BY <1>2, FitsUnlocks DEF TPMUnlocks, LUKSVolumes
<1>4. Newest' = Newest
  BY <1>1 DEF Newest, imageVars
<1>5. log'.uki = Newest /\ log'.efi = efi
  BY <1>1, <1>2, MeasureIs
<1>6. LogGood'
  BY <1>1, <1>2, <1>3, <1>4, <1>5, MeasureIs DEF LogGood, Images, firmwareVars, imageVars
<1>7. \A b, u : Fits(b, u)' <=> Fits(b, u)
  BY <1>1 DEF Fits, Predicted, firmwareVars
<1>8. Images' /\ StubGood' /\ BoundGood'
  BY <1>1, <1>2, <1>4, <1>5, <1>7 DEF Images, StubGood, StubOf, BoundGood, imageVars, firmwareVars
<1> QED BY <1>6, <1>8

\* With a recovery key for every volume, no loop over the volumes stops half way, no
\* prediction is impossible, and the TPM need not be bound by force.
LEMMA BindingsStep ==
    ASSUME Shapes, BindingsGood, InStep("rebind") => AllEnrolled, Calm
    PROVE  BindingsGood'
<1> USE DEF BindingsGood, InStep, BindsTo, InFirstBinding, UnderWay, Target, Starting, Changing, BootVars
<1>1. CASE RequestAction
  <2>1. UNCHANGED BootVars /\ op.at \in KeySteps \cup {"idle"} /\ op'.at \in KeySteps \cup {"idle"}
    BY <1>1, RequestStep
  <2> QED BY <2>1, BootSame DEF Images, StubGood, BoundGood, imageVars, firmwareVars, KeySteps
<1>2. CASE Reboot
  <2>1. UNCHANGED BootVars /\ op.at \in {"idle", "reboot"} /\ op'.at = "off"
    BY <1>2, NoOpIs DEF Reboot, OpFields
  <2> QED BY <2>1, BootSame DEF Images, StubGood, BoundGood, imageVars, firmwareVars
<1>3. ~RebindImpossible
  BY DEF RebindImpossible, CanRebind, AllEnrolled, Shapes
<1>4. ~PredictionImpossible
  <2>1. op.at \in {"rebindCerts", "os"} => StubOf(Newest) /\ Newest \in OSReleases
    BY DEF StubGood, Images
  <2>2. SignedBy[Newest] \in Certs \/ Newest \notin OSReleases
    BY CertAssumption
  <2> QED BY <2>1, <2>2, CertAssumption DEF PredictionImpossible, StubOf, LogGood
<1>5. ~ForceUpdatePCRBindings
  BY DEF ForceUpdatePCRBindings, LogGood
<1> QED BY <1>1, <1>2, <1>3, <1>4, <1>5, FirstBindings, CertBindings, UpdateBindings, BootBindings DEF Calm, PlainAction

-----------------------------------------------------------------------------
(* What a trouble does, and the theorems.                                  *)

LEMMA QuietStep == ASSUME Shapes, QuietInv, Calm PROVE QuietInv'
<1>1. InStep("rebind") => AllEnrolled
  BY DEF QuietInv, Keyed, KeysGood, FirstBoot, Generating, InStep, FirstSteps, KeySteps
<1> QED BY <1>1, KeysStep, BindingsStep DEF QuietInv

LEMMA TroubledStep == ASSUME Shapes, TroubledInv, Calm PROVE TroubledInv'
<1>1. Enrolled \/ Generating => (InStep("rebind") => AllEnrolled)
  BY DEF Enrolled, Generating, AllEnrolled, InStep, FirstSteps
<1> QED BY <1>1, KeysStep, BindingsStep DEF TroubledInv

\* The bindings survive a trouble outside of the operations that change them.
LEMMA BindingsSurvive ==
    ASSUME BindingsGood, UNCHANGED BootVars, op.at \in Starting \cup KeySteps \/ InFirstBinding,
           op'.at \in {"off", "idle"} \/ (op'.at = "start" /\ op.at \in Starting)
    PROVE  BindingsGood'
<1> USE DEF BindingsGood, InStep, BindsTo, InFirstBinding, UnderWay, Target, Starting, Changing, KeySteps, BootVars
<1>1. LogGood' /\ Images' /\ StubGood'
  BY BootSame DEF Images, StubGood, imageVars, firmwareVars
<1>2. BoundGood'
  BY BootSame DEF BoundGood, imageVars, firmwareVars
<1> QED BY <1>1, <1>2

LEMMA FaultStep == ASSUME Shapes, QuietInv, Fault PROVE Shapes' /\ TroubledInv'
<1> USE DEF QuietInv, TroubledInv, InStep, FirstSteps, KeySteps
<1>1. Abort /\ op.at \notin {"off", "start"}
  BY DEF Fault
<1>2. /\ Shapes' /\ UNCHANGED <<BootVars, keyFile, keySlots, listed, known>>
      /\ op'.at \in {"start", "certs", "idle"}
      /\ InStartup => op'.at = "start" /\ savedKeys' = listed
      /\ op'.at = "start" => InStartup
      /\ op'.at = "certs" => op.next = "certsReboot"
  BY <1>1, AbortEffect
<1>3. CASE FirstBoot
  <2>1. op.at \in FirstSteps /\ op'.at = "start" /\ savedKeys' = listed
    BY <1>1, <1>2, <1>3 DEF FirstBoot, Generating, InStartup, Startup
  <2>2. BindingsGood'
    BY <1>2, <2>1, BindingsSurvive DEF Starting
  <2>3. (listed = {} \/ keyFile["root"] = "none") => Generating'
    BY <1>2, <1>3, <2>1 DEF FirstBoot, Generating, BootVars
  <2>4. op.at = "generate" => listed = {}
    BY <1>3 DEF FirstBoot
  <2>5. op.at = "enroll" /\ keyFile["root"] # "none" => SwapLost'
    <3>1. SUFFICES ASSUME op.at = "enroll", keyFile["root"] # "none" PROVE SwapLost'
      OBVIOUS
    <3>2. listed # {} /\ op.todo # {} /\ \A v \in LUKSVolumes : v \in op.todo => keyFile[v] = "none"
      BY <1>3, <3>1 DEF FirstBoot, Generating
    <3>3. "swap" \in op.todo /\ keyFile["swap"] = "none"
      BY <3>1, <3>2 DEF Shapes, LUKSVolumes
    <3> QED BY <1>2, <2>1, <3>1, <3>2, <3>3 DEF SwapLost
  <2>6. op.at = "passwords" => Enrolled'
    BY <1>2, <1>3 DEF FirstBoot, Generating, Enrolled, AllEnrolled
  <2> QED BY <1>2, <2>1, <2>2, <2>3, <2>4, <2>5, <2>6
<1>4. CASE Keyed /\ op.at \in KeySteps
  <2>1. ~InStartup /\ op.next # "certsReboot"
    BY <1>4 DEF Shapes, InStartup, Startup
  <2>2. op'.at = "idle" /\ Enrolled'
    BY <1>2, <1>4, <2>1 DEF Keyed, AllEnrolled, Enrolled
  <2> QED BY <1>2, <1>4, <2>2, BindingsSurvive
<1>5. CASE Keyed /\ op.at \notin KeySteps
  <2>1. KeysGood /\ Knows(listed)
    BY <1>1, <1>5 DEF Keyed
  <2>2. Keyed'
    BY <1>2, <2>1 DEF Keyed, KeysGood, AllEnrolled, Knows
  <2> QED BY <1>2, <2>2
<1> QED BY <1>3, <1>4, <1>5

LEMMA PowerLossStep == ASSUME Shapes, QuietInv, PowerLoss PROVE Shapes' /\ TroubledInv'
<1> USE DEF QuietInv, TroubledInv, InStep, FirstSteps, KeySteps
<1>1. UNCHANGED <<BootVars, keyVars>> /\ op.at # "off" /\ op' = [NoOp EXCEPT !.at = "off"]
  BY DEF PowerLoss, BootVars
<1>2. op' = [f \in OpFields |-> op'[f]] /\ op'.at = "off" /\ op'.todo = {}
  BY <1>1, NoOpIs DEF OpFields
<1>3. Shapes'
  BY <1>1, <1>2 DEF Shapes, BootVars, imageVars, keyVars
<1>4. CASE FirstBoot
  <2>1. Generating' /\ op.at \in FirstSteps \cup {"start"}
    BY <1>1, <1>2, <1>4 DEF FirstBoot, Generating, BootVars, keyVars
  <2> QED BY <1>1, <1>2, <1>3, <2>1, BindingsSurvive DEF Starting
<1>5. CASE Keyed /\ op.at \in KeySteps
  <2>1. Enrolled'
    BY <1>1, <1>2, <1>5 DEF Keyed, AllEnrolled, Enrolled, keyVars
  <2> QED BY <1>1, <1>2, <1>3, <1>5, <2>1, BindingsSurvive
<1>6. CASE Keyed /\ op.at \notin KeySteps
  <2>1. KeysGood /\ Knows(listed)
    BY <1>1, <1>6 DEF Keyed
  <2>2. CASE savedKeys = listed
    <3>1. Keyed'
      BY <1>1, <1>2, <2>1, <2>2 DEF Keyed, KeysGood, AllEnrolled, Knows, keyVars
    <3> QED BY <1>3, <3>1
  <2>3. CASE savedKeys # listed
    <3>1. savedKeys = {} /\ known = {}
      BY <1>1, <1>6, <2>3 DEF Saved, Keyed
    <3>2. bound["root"].pcr15 => Stuck'
      BY <1>1, <1>2, <3>1 DEF Stuck, keyVars, BootVars
    <3>3. ~bound["root"].pcr15 => op.at \in Starting \/ InFirstBinding
      BY DEF BoundInInitrd
    <3>4. Enrolled'
      BY <1>1, <1>2, <2>1 DEF KeysGood, AllEnrolled, Enrolled, keyVars
    <3> QED BY <1>1, <1>2, <1>3, <3>2, <3>3, <3>4, BindingsSurvive
  <2> QED BY <2>2, <2>3
<1> QED BY <1>4, <1>5, <1>6

\* One trouble leaves the keys, or the bindings with what is needed to make new keys.
LEMMA TroubleStep == ASSUME Shapes, QuietInv, Troubles PROVE TroubledInv'
<1>1. CASE BootOlder \/ SwitchSecureBoot \/ ReplaceTPM
  <2>1. InStep("off")
    BY <1>1 DEF BootOlder, SwitchSecureBoot, ReplaceTPM
  <2>2. Keyed
    BY <2>1 DEF QuietInv, FirstBoot
  <2>3. CASE BootOlder
    <3>1. \E u : BootInto(u) /\ UNCHANGED <<imageVars, bound, keyFile, keySlots, savedKeys, known>>
      BY <2>3 DEF BootOlder
    <3> QED BY <2>1, <2>2, <3>1, BootKeys DEF TroubledInv
  <2>4. CASE SwitchSecureBoot \/ ReplaceTPM
    <3>1. UNCHANGED <<keyVars, op>>
      BY <2>4 DEF SwitchSecureBoot, ReplaceTPM
    <3> QED BY <2>2, <3>1 DEF TroubledInv, Keyed, KeysGood, AllEnrolled, Knows, keyVars, InStep
  <2> QED BY <1>1, <2>3, <2>4
<1> QED BY <1>1, FaultStep, PowerLossStep DEF Troubles

LEMMA TroubleShapes == ASSUME Shapes, Troubles PROVE Shapes' /\ trouble > 0 /\ trouble' = trouble - 1
<1>1. trouble > 0 /\ trouble' = trouble - 1
  BY DEF Troubles, Fault, PowerLoss, BootOlder, SwitchSecureBoot, ReplaceTPM, MayFail
<1>2. CASE Fault
  BY <1>1, <1>2, AbortEffect DEF Fault
<1>3. CASE PowerLoss
  <2>1. UNCHANGED <<BootVars, keyVars>> /\ op' = [NoOp EXCEPT !.at = "off"]
    BY <1>3 DEF PowerLoss, BootVars
  <2>2. op' = [f \in OpFields |-> op'[f]] /\ op'.at = "off" /\ op'.todo = {}
    BY <2>1, NoOpIs DEF OpFields
  <2> QED BY <1>1, <2>1, <2>2 DEF Shapes, BootVars, imageVars, keyVars, InStep, KeySteps
<1>4. CASE BootOlder
  <2>1. InStep("off") /\ \E u : BootInto(u) /\ UNCHANGED <<imageVars, bound, keyFile, keySlots, savedKeys, known>>
    BY <1>4 DEF BootOlder
  <2> QED BY <1>1, <2>1, BootKeys
<1>5. CASE SwitchSecureBoot
  BY <1>1, <1>5 DEF SwitchSecureBoot, Shapes, imageVars, keyVars, InStep
<1>6. CASE ReplaceTPM
  <2>1. UNCHANGED <<imageVars, keyVars, op>> /\ bound' = [v \in LUKSVolumes |-> bound'[v]]
    BY <1>6 DEF ReplaceTPM
  <2> QED BY <1>1, <2>1 DEF Shapes, imageVars, keyVars, InStep
<1> QED BY <1>1, <1>2, <1>3, <1>4, <1>5, <1>6 DEF Troubles

LEMMA SecureBootStep == ASSUME SecureBootInv, [SecureBootNext]_secureBootVars PROVE SecureBootInv'
<1>1. CASE UNCHANGED secureBootVars
  <2>1. UNCHANGED <<BootVars, keyVars, op, trouble>>
    BY <1>1 DEF secureBootVars, BootVars, firmwareVars, imageVars
  <2>2. Shapes'
    BY <2>1 DEF SecureBootInv, Shapes, BootVars, imageVars, keyVars, InStep
  <2> USE DEF keyVars, BootVars, imageVars, firmwareVars, InStep, BindsTo, InFirstBinding, UnderWay, Target
  <2>3. BindingsGood => BindingsGood'
    BY <2>1, BootSame DEF BindingsGood, Images, StubGood, BoundGood
  <2>4. (Keyed => Keyed') /\ (Saved => Saved') /\ (BoundInInitrd => BoundInInitrd') /\ (Generating => Generating')
    BY <2>1 DEF Keyed, KeysGood, AllEnrolled, Knows, Saved, SavesLater, BoundInInitrd, Generating
  <2>5. (FirstBoot => FirstBoot') /\ (Enrolled => Enrolled') /\ (SwapLost => SwapLost') /\ (Stuck => Stuck')
    BY <2>1, <2>4 DEF FirstBoot, Enrolled, SwapLost, Stuck
  <2> QED BY <2>1, <2>2, <2>3, <2>4, <2>5 DEF SecureBootInv, Quiet, QuietInv, TroubledInv
<1>2. SecureBootNext => Calm \/ Troubles
  BY DEF SecureBootNext, Daemon, Calm, PlainAction, FirstAction, RequestAction, Troubles
<1>3. CASE Calm
  <2>1. Shapes' /\ trouble' = trouble
    BY <1>3, KeysStep DEF SecureBootInv
  <2> QED BY <1>3, <2>1, QuietStep, TroubledStep DEF SecureBootInv, Quiet
<1>4. CASE Troubles
  <2>1. Shapes' /\ trouble > 0 /\ trouble' = trouble - 1
    BY <1>4, TroubleShapes DEF SecureBootInv
  <2>2. trouble \in Nat /\ Trouble \in Nat /\ trouble <= Trouble
    BY BoundAssumption DEF SecureBootInv
  <2>3. trouble' \in Nat /\ trouble' < Trouble /\ (trouble' = Trouble - 1 => Quiet)
    BY <2>1, <2>2 DEF Quiet
  <2> QED BY <1>4, <2>1, <2>2, <2>3, TroubleStep DEF SecureBootInv, Quiet
<1> QED BY <1>1, <1>2, <1>3, <1>4

LEMMA SecureBootStart == ASSUME SecureBootInit PROVE SecureBootInv
<1> USE DEF SecureBootInit, InStep
<1>1. 1 \in OSReleases /\ SignedBy[1] \in Certs /\ SignedBy[1] # "torn"
  BY ReleaseAssumption, CertAssumption DEF OSReleases
<1>2. Newest = 1
  <2>1. ukis \in SUBSET OSReleases /\ 1 \in ukis /\ \A w \in ukis : w <= 1
    BY <1>1
  <2> QED BY <2>1, NewestIs DEF Newest, NewestOf
<1>3. StubOf(1)
  BY DEF StubOf
<1>4. /\ log = [uki |-> 1, path |-> "systemd", stub |-> SignedBy[1], sb |-> sb, efi |-> efi,
                auth |-> IF sb THEN <<SignedBy[1]>> ELSE <<>>]
      /\ PCR7(log) = Predicted(1) /\ PCR4(log) = <<SignedBy[1], 1>>
  BY <1>1, <1>3, MeasureIs
<1>5. op = [f \in OpFields |-> op[f]] /\ op.at = "start" /\ op.todo = {} /\ op.next = "idle"
  BY NoOpIs DEF OpFields
<1>6. Shapes
  BY <1>5 DEF Shapes, KeySteps
<1>7. \A v \in LUKSVolumes : Fits(bound[v], 1) /\ ~bound[v].pcr15
  BY <1>1, <1>4 DEF Fits, AnyPCR4
<1>8. FirstBoot /\ Saved /\ BoundInInitrd
  BY <1>5, <1>7 DEF FirstBoot, Generating, Saved, BoundInInitrd, FirstSteps, KeySteps, Starting, BindsTo
<1>9. LogGood
  <2>1. ukis = {1} /\ tpmGood
    OBVIOUS
  <2> HIDE DEF SecureBootInit
  <2>2. log.uki = 1 /\ log.path = "systemd" /\ log.stub = SignedBy[1] /\ log.efi = efi
    BY <1>4
  <2>3. log.sb = sb
    BY <1>4
  <2>4. log.auth = IF sb THEN <<SignedBy[1]>> ELSE <<>>
    BY <1>4
  <2> QED BY <2>1, <2>2, <2>3, <2>4 DEF LogGood
<1>10. ukis = {1} /\ pem = SignedBy[1] /\ log.uki = 1 /\ log.efi = efi
  <2>1. ukis = {1} /\ pem = SignedBy[1]
    OBVIOUS
  <2> HIDE DEF SecureBootInit
  <2> QED BY <1>4, <2>1
<1>11. Images /\ StubGood /\ BoundGood
  <2> HIDE DEF SecureBootInit
  <2> QED BY <1>1, <1>2, <1>3, <1>5, <1>7, <1>10
          DEF Images, StubGood, BoundGood, InFirstBinding, UnderWay, BindsTo, Target, Changing, Starting, OSReleases
<1>12. trouble = Trouble /\ Trouble \in Nat
  BY BoundAssumption
<1> HIDE DEF SecureBootInit
<1> QED BY <1>6, <1>8, <1>9, <1>11, <1>12 DEF SecureBootInv, Quiet, QuietInv, BindingsGood

\* With good bindings the system that is off is unlocked by its TPM.
LEMMA OffUnlocks == ASSUME BindingsGood, InStep("off") PROVE TPMUnlocks(Newest)
<1>1. Newest \in OSReleases /\ StubOf(Newest) /\ Fits(bound["root"], Newest)
  BY DEF BindingsGood, Images, StubGood, BoundGood, Target, UnderWay, BindsTo, Changing, InStep, LUKSVolumes
<1> QED BY <1>1, FitsUnlocks DEF TPMUnlocks

\* As long as no command fails, the power is not cut and the firmware left alone, no sequence
\* of certificate updates, key changes, OS updates, changes of the recovery keys and reboots
\* stops the TPM from unlocking the next boot: the PCR values predicted for it are the ones
\* the firmware measures (computeNewPCR7Value, computeNewPCR4Value, UpdatePCRBindings).
THEOREM PredictionsAreRight == SecureBootSpec => []PredictionsHold
<1>1. SecureBootInv => PredictionsHold
  BY OffUnlocks DEF SecureBootInv, Quiet, QuietInv, PredictionsHold
<1> QED BY <1>1, SecureBootStart, SecureBootStep, PTL DEF SecureBootSpec

\* As long as nothing went wrong, the recovery keys the API lists are those that open every
\* volume, between any two operations and across reboots (GenerateRecoveryKeys,
\* AddEncryptionKey, DeleteEncryptionKey).
THEOREM ListedKeysOpen == SecureBootSpec => []ListedKeysWork
<1>1. SecureBootInv => ListedKeysWork
  BY DEF SecureBootInv, Quiet, QuietInv, Keyed, KeysGood, FirstBoot, Generating, ListedKeysWork, InStep, FirstSteps, KeySteps
<1> QED BY <1>1, SecureBootStart, SecureBootStep, PTL DEF SecureBootSpec

\* Whichever single command fails, wherever the power is lost once, or whichever one outside
\* change is made, and whatever follows: once the user has retrieved a recovery key and every
\* volume has its own, a system that is switched on is unlocked by the TPM or by a key the
\* user has (GenerateRecoveryKeys, AddEncryptionKey, DeleteEncryptionKey, UpdatePCRBindings,
\* ForceUpdatePCRBindings).
THEOREM OneTroubleLocksNobodyOut == ASSUME Trouble <= 1 PROVE SecureBootSpec => []NeverLockedOut
<1>1. SecureBootInv => NeverLockedOut
  <2> SUFFICES ASSUME SecureBootInv, InStep("off"), known # {}, \A v \in LUKSVolumes : keyFile[v] = "enrolled"
               PROVE  TPMUnlocks(Newest) \/ Passphrase
    BY DEF NeverLockedOut
  <2>1. trouble = Trouble \/ trouble = Trouble - 1
    BY BoundAssumption DEF SecureBootInv
  <2>2. Keyed => Passphrase
    BY DEF Keyed, Knows, Passphrase, InStep, LUKSVolumes
  <2>3. ~FirstBoot /\ ~SwapLost /\ ~Stuck
    BY DEF FirstBoot, SwapLost, Stuck, LUKSVolumes
  <2> QED BY <2>1, <2>2, <2>3, OffUnlocks DEF SecureBootInv, Quiet, QuietInv, TroubledInv
<1> QED BY <1>1, SecureBootStart, SecureBootStep, PTL DEF SecureBootSpec

-----------------------------------------------------------------------------
(* The firmware keeps accepting the boot stub and the images.              *)

FirstKey == SignedBy[1]
Signers == {SignedBy[r] : r \in OSReleases}
\* Every release embeds the certificates of all of them, no release goes back to the first
\* key, and of the keys that sign releases the first one alone is ever revoked.
FirstKeyReplaced ==
    /\ \A r \in OSReleases : Signers \subseteq Embedded[r]
    /\ \A q \in OSReleases, r \in OSReleases : r < q /\ SignedBy[q] = FirstKey => SignedBy[r] = FirstKey
    /\ \A a \in DOMAIN Archives : Archives[a]["dbx"] \cap Signers \subseteq {FirstKey}

KeyChange == {"stub1", "stub2", "key"}
FirstOnly == \A u \in ukis : SignedBy[u] = FirstKey

Installed ==
    /\ ukis \subseteq OSReleases /\ log.uki \in ukis /\ \E u \in ukis : \A w \in ukis : w <= u
    /\ UnderWay => op.rel \in OSReleases /\ \A u \in ukis : u < op.rel
    /\ InStep("install") \/ BindsTo("install") => pem = SignedBy[op.rel]
    /\ Quiet /\ op.at \in KeyChange => \E u \in ukis : pem = SignedBy[u]

\* One copy of the boot stub is complete, but for a copy that nothing can interrupt any more,
\* and a stub that is signed by the first key comes with images that are.
StubFound ==
    /\ \A p \in {"systemd", "boot"} : stub[p] \in Signers \cup {"torn"}
    /\ ~InStep("stub1") => \E p \in {"systemd", "boot"} : stub[p] # "torn"
    /\ InStep("stub1") /\ Quiet => stub["boot"] # "torn"
    /\ InStep("stub2") \/ InStep("key") => stub["systemd"] = SignedBy[op.rel]
    /\ InStep("key") => stub["boot"] = SignedBy[op.rel]
    /\ FirstKey \in {stub["systemd"], stub["boot"]} => FirstOnly /\ (op.at \in KeyChange \/ pem = FirstKey)

\* The variables of a system that never ran with Secure Boot are those it was installed with.
AsInstalled == efi["db"] = {FirstKey} /\ efi["dbx"] = {}
VariablesMatch ==
    /\ efi = [var \in EFIVariables |-> efi[var]]
    /\ op.at \in {"certs", "rebindCerts"} \/ op.next = "certsReboot" => log.sb
    /\ efi["dbx"] \cap Signers \subseteq {FirstKey}
    /\ ~InStep("off") \/ Quiet => sb = log.sb
    /\ Quiet /\ ~sb => AsInstalled
    /\ sb # log.sb => stub["systemd"] = stub["boot"] /\ (sb => AsInstalled)
    /\ sb /\ log.sb =>
          /\ \A p \in {"systemd", "boot"} : stub[p] \in efi["db"] \cup {"torn"}
          /\ \A u \in ukis : SignedBy[u] \in efi["db"] \ efi["dbx"]
          /\ UnderWay => SignedBy[op.rel] \in efi["db"]

AcceptedInv == Installed /\ StubFound /\ VariablesMatch

-----------------------------------------------------------------------------
FirmwareVars == <<firmwareVars, imageVars, log, pem>>

\* Steps of the daemon that leave the firmware, the boot stub and the images alone.
Aside ==
    /\ UNCHANGED FirmwareVars /\ ~InStep("off") /\ (Quiet' => Quiet)
    /\ op'.at \in {"certs", "rebindCerts"} \/ op'.next = "certsReboot" => log.sb
    /\ op'.at \notin Changing
    /\ op'.at = "rebind" => op'.next # "install"
    /\ op.at \in KeyChange => Quiet

LEMMA AsideKeeps == ASSUME AcceptedInv, Aside PROVE AcceptedInv'
<1> USE DEF AcceptedInv, Aside, FirmwareVars, firmwareVars, imageVars, InStep, BindsTo, UnderWay, Changing, KeyChange
<1>1. Installed'
  BY DEF Installed
<1>2. StubFound'
  <2>1. \A p \in {"systemd", "boot"} : stub[p] \in Signers \cup {"torn"}
    BY DEF StubFound
  <2>2. \E p \in {"systemd", "boot"} : stub[p] # "torn"
    BY DEF StubFound
  <2>3. ASSUME FirstKey \in {stub["systemd"], stub["boot"]} PROVE FirstOnly /\ pem = FirstKey
    <3>1. CASE op.at \in KeyChange
      BY <2>3, <3>1 DEF StubFound, Installed, FirstOnly
    <3>2. CASE op.at \notin KeyChange
      BY <2>3, <3>2 DEF StubFound
    <3> QED BY <3>1, <3>2
  <2> QED BY <2>1, <2>2, <2>3 DEF StubFound, FirstOnly
<1>3. VariablesMatch'
  BY DEF VariablesMatch, AsInstalled
<1> QED BY <1>1, <1>2, <1>3

LEMMA AbortAside ==
    ASSUME Shapes, AcceptedInv, Abort, ~InStep("off"), Quiet' => Quiet, op.at \notin KeyChange \/ Quiet
    PROVE  Aside
<1>1. UNCHANGED BootVars /\ op'.at \in {"start", "certs", "idle"} /\ (op'.at = "certs" => op.next = "certsReboot")
  BY AbortEffect
<1>2. op'.next = "idle"
  BY NoOpIs DEF Abort, EndOperation, NoOp
<1> QED BY <1>1, <1>2 DEF Aside, FirmwareVars, BootVars, AcceptedInv, VariablesMatch, Changing, KeyChange

\* What the requests, the first recovery keys and most of the checks do to the daemon's step.
AsideAction ==
    \/ StartBindings \/ RebindImpossible \/ StartCheck \/ PublishCerts \/ PredictCerts \/ CertAppended
    \/ CertsComplete \/ (\E cert \in Certs : RefuseDbx(cert)) \/ NoOSUpdate \/ PredictionImpossible \/ Reboot
    \/ FirstAction \/ RequestAction

LEMMA AsideSteps == ASSUME Shapes, AcceptedInv, AsideAction PROVE Aside
<1> USE DEF InStep, Quiet, Changing, KeyChange, FirmwareVars
<1>1. ASSUME UNCHANGED <<FirmwareVars, trouble>>, op.at \notin KeyChange \cup {"off"},
             op'.at \notin Changing \cup {"rebindCerts", "certs"}, op'.at = "rebind" => op'.next # "install",
             op'.next # op.next => op'.next # "certsReboot" \/ op.at = "rebindCerts"
      PROVE  Aside
  BY <1>1 DEF Aside, AcceptedInv, VariablesMatch
<1>2. CASE StartBindings
  <2>1. /\ UNCHANGED <<FirmwareVars, trouble>> /\ op.at = "bind15"
        /\ \/ op' = [NoOp EXCEPT !.at = "check", !.startup = TRUE]
           \/ op' = [Rebind(KeyChangeBinding(RunningRelease), "check") EXCEPT !.startup = TRUE]
    BY <1>2 DEF StartBindings
  <2>2. (op'.at = "check" /\ op'.next = "idle") \/ (op'.at = "rebind" /\ op'.next = "check")
    BY <2>1, NoOpIs DEF Shapes, OpFields, Rebind
  <2> QED BY <1>1, <2>1, <2>2
<1>3. CASE StartCheck
  <2>1. /\ UNCHANGED <<FirmwareVars, trouble>> /\ op.at \in {"idle", "check"}
        /\ \E at \in {"certs", "os"} : op' = [NoOp EXCEPT !.at = at, !.vars = EFIVariables, !.startup = InStep("check")]
                                       /\ (at = "certs" => log.sb)
    BY <1>3 DEF StartCheck, SBEnabled
  <2>2. op'.at \in {"certs", "os"} /\ op'.next = "idle" /\ (op'.at = "certs" => log.sb)
    BY <2>1, NoOpIs DEF OpFields
  <2> QED BY <2>1, <2>2 DEF Aside
<1>4. CASE PublishCerts
  BY <1>4 DEF PublishCerts, Aside, AcceptedInv, VariablesMatch
<1>5. CASE PredictCerts
  <2>1. /\ UNCHANGED <<FirmwareVars, trouble>> /\ op.at = "rebindCerts"
        /\ op' = Rebind(Binding(AnyPCR4, NewPCR7, pem), "certsReboot")
    BY <1>5 DEF PredictCerts
  <2>2. op'.at = "rebind" /\ op'.next = "certsReboot"
    BY <2>1 DEF Shapes, OpFields, Rebind
  <2> QED BY <1>1, <2>1, <2>2
<1>6. CASE CertAppended
  <2>1. /\ UNCHANGED <<FirmwareVars, trouble>> /\ op.at = "certsReboot"
        /\ op' = [op EXCEPT !.at = IF op.startup THEN "reboot" ELSE "os", !.next = "idle"]
    BY <1>6 DEF CertAppended
  <2>2. op'.at \in {"reboot", "os"} /\ op'.next = "idle"
    BY <2>1 DEF Shapes, OpFields
  <2> QED BY <1>1, <2>1, <2>2
<1>7. CASE CertsComplete
  <2>1. UNCHANGED <<FirmwareVars, trouble>> /\ op.at = "certs" /\ op' = [op EXCEPT !.at = "os"]
    BY <1>7 DEF CertsComplete, Goto
  <2>2. op'.at = "os" /\ op'.next = op.next
    BY <2>1 DEF Shapes, OpFields
  <2> QED BY <1>1, <2>1, <2>2
<1>8. CASE RebindImpossible \/ PredictionImpossible \/ \E cert \in Certs : RefuseDbx(cert)
  <2>1. Abort /\ trouble' = trouble /\ op.at \in {"rebind", "rebindCerts", "os", "certs"}
    BY <1>8 DEF RebindImpossible, PredictionImpossible, RefuseDbx
  <2> QED BY <2>1, AbortAside
<1>9. CASE NoOSUpdate
  <2>1. UNCHANGED <<FirmwareVars, trouble>> /\ op.at = "os" /\ op' = NoOp
    BY <1>9 DEF NoOSUpdate, EndOperation
  <2> QED BY <1>1, <2>1, NoOpIs
<1>10. CASE Reboot
  <2>1. UNCHANGED <<FirmwareVars, trouble>> /\ op.at \in {"idle", "reboot"} /\ op' = [NoOp EXCEPT !.at = "off"]
    BY <1>10 DEF Reboot
  <2>2. op'.at = "off" /\ op'.next = "idle"
    BY <2>1, NoOpIs DEF OpFields
  <2> QED BY <1>1, <2>1, <2>2
<1>11. CASE FirstAction
  <2>1. CASE GenerateImpossible
    BY <2>1, AbortAside DEF GenerateImpossible
  <2>2. CASE ~GenerateImpossible
    <3>1. /\ UNCHANGED <<FirmwareVars, trouble>> /\ op.at \in {"start", "generate", "enroll", "passwords"}
          /\ \/ \E at \in {"generate", "bind15"} : op' = [op EXCEPT !.at = at]
             \/ \E next \in {"pcr4", "bind15"} : op' = [op EXCEPT !.at = "enroll", !.todo = LUKSVolumes, !.next = next]
             \/ \E v \in LUKSVolumes :
                   \/ op' = [op EXCEPT !.key = v]
                   \/ op' = [op EXCEPT !.at = "passwords", !.todo = LUKSVolumes, !.key = NoKey]
                   \/ op' = [op EXCEPT !.todo = @ \ {v}, !.key = NoKey]
                   \/ op' = [op EXCEPT !.todo = @ \ {v}]
             \/ op' = Rebind(PCR4Binding(RunningRelease), "bind15")
             \/ op' = [op EXCEPT !.at = "bind15", !.todo = {}]
      BY <1>11, <2>2 DEF FirstAction, StartKeys, GenerateCommon, GenerateWipe, GenerateEnroll, GeneratePasswords, Goto
    <3>2. /\ op'.at \in {"generate", "bind15", "enroll", "passwords", "rebind", op.at}
          /\ op'.next \in {op.next, "pcr4", "bind15"} /\ (op'.at = "rebind" => op'.next = "bind15")
      BY <3>1 DEF Shapes, OpFields, Rebind
    <3> QED BY <1>1, <3>1, <3>2
  <2> QED BY <2>1, <2>2
<1>12. CASE RequestAction
  <2>1. UNCHANGED <<FirmwareVars, trouble>> /\ op.at \in KeySteps \cup {"idle"} /\ op'.at \in KeySteps \cup {"idle"}
    BY <1>12, RequestStep DEF BootVars
  <2>2. CASE \E want \in (SUBSET Keys) \ {{}} : PutKeys(want)
    <3>1. PICK want : op' = [NoOp EXCEPT !.at = "put", !.want = want]
      BY <2>2 DEF PutKeys
    <3> QED BY <1>1, <2>1, <3>1, NoOpIs DEF OpFields, KeySteps
  <2>3. CASE Retrieve \/ PutDone
    <3>1. op' = op \/ op' = NoOp
      BY <2>3 DEF Retrieve, PutDone, EndOperation
    <3> QED BY <1>1, <2>1, <3>1, NoOpIs DEF KeySteps
  <2>4. CASE PutNext \/ ReaddKeys
    <3>1. \/ \E k : op' = [op EXCEPT !.at = "wipe", !.key = k, !.todo = LUKSVolumes]
          \/ \E k : op' = [op EXCEPT !.at = "addKey", !.key = k, !.todo = LUKSVolumes, !.next = "put"]
          \/ \E k : op' = [op EXCEPT !.at = "addKey", !.key = k, !.todo = LUKSVolumes, !.next = "readd"]
          \/ op' = [op EXCEPT !.at = "put"]
      BY <2>4 DEF PutNext, ReaddKeys, Goto
    <3>2. op'.next \in {op.next, "put", "readd"}
      BY <3>1 DEF Shapes, OpFields
    <3> QED BY <1>1, <2>1, <3>2 DEF KeySteps
  <2>5. CASE \E v \in LUKSVolumes : AddKeyVolume(v) \/ WipeVolume(v)
    <3>1. \/ op' = [op EXCEPT !.at = op.next, !.todo = {}]
          \/ \E v : op' = [op EXCEPT !.todo = @ \ {v}]
          \/ op' = [op EXCEPT !.at = "readd", !.keep = listed \ {op.key}, !.todo = {}]
      BY <2>5 DEF AddKeyVolume, WipeVolume
    <3>2. op'.next = op.next
      BY <3>1 DEF Shapes, OpFields
    <3> QED BY <1>1, <2>1, <3>2 DEF KeySteps
  <2> QED BY <1>12, <2>2, <2>3, <2>4, <2>5 DEF RequestAction
<1> QED BY <1>2, <1>3, <1>4, <1>5, <1>6, <1>7, <1>8, <1>9, <1>10, <1>11, <1>12 DEF AsideAction

LEMMA BindAccepted ==
    ASSUME Shapes, AcceptedInv, NEW v \in LUKSVolumes, RebindVolume(v)
    PROVE  AcceptedInv'
<1> USE DEF InStep, BindsTo, UnderWay, Quiet, FirmwareVars, firmwareVars, imageVars, Changing, KeyChange
<1>1. /\ UNCHANGED <<FirmwareVars, trouble>> /\ op.at = "rebind" /\ op.next \in Nexts
      /\ \/ op' = [op EXCEPT !.at = op.next, !.todo = {}]
         \/ op' = [op EXCEPT !.todo = @ \ {v}]
  BY DEF RebindVolume, Shapes
<1>2. op'.at \in {"rebind", op.next} /\ op'.next = op.next /\ op'.rel = op.rel
  BY <1>1 DEF Shapes, OpFields
<1>3. CASE op.next = "install"
  <2>1. Installed'
    BY <1>1, <1>2, <1>3 DEF AcceptedInv, Installed
  <2>2. StubFound'
    BY <1>1, <1>2, <1>3 DEF AcceptedInv, StubFound, FirstOnly
  <2>3. VariablesMatch'
    BY <1>1, <1>2, <1>3 DEF AcceptedInv, VariablesMatch, AsInstalled
  <2> QED BY <2>1, <2>2, <2>3 DEF AcceptedInv
<1>4. CASE op.next # "install"
  <2>1. Aside
    BY <1>1, <1>2, <1>4 DEF Aside, AcceptedInv, VariablesMatch, Nexts
  <2> QED BY <2>1, AsideKeeps
<1> QED BY <1>3, <1>4

\* UpdateSecureBootCerts: certificates are only added, and the first key is revoked when no
\* image is signed by it.
LEMMA AppendAccepted ==
    ASSUME FirstKeyReplaced, certArchive \in DOMAIN Archives, Shapes, AcceptedInv,
           NEW var \in EFIVariables, NEW cert \in Certs, AppendCert(var, cert)
    PROVE  AcceptedInv'
<1> USE DEF InStep, BindsTo, UnderWay, Quiet, firmwareVars, imageVars, Changing, KeyChange
<1>1. /\ UNCHANGED <<sb, imageVars, log, pem, trouble>> /\ op.at = "certs" /\ op' = [op EXCEPT !.at = "rebindCerts"]
      /\ efi' = [efi EXCEPT ![var] = @ \cup {cert}]
      /\ var = "dbx" => cert \in Archives[certArchive]["dbx"] /\ \A u \in ukis : SignedBy[u] # cert
  BY DEF AppendCert, Pending, WouldBrick
<1>2. op'.at = "rebindCerts" /\ op'.next = op.next
  BY <1>1 DEF Shapes, OpFields
<1>3. log.sb /\ sb = log.sb
  BY <1>1 DEF AcceptedInv, VariablesMatch
<1>4. /\ efi' = [w \in EFIVariables |-> efi'[w]] /\ efi["db"] \subseteq efi'["db"]
      /\ efi'["dbx"] \subseteq efi["dbx"] \cup (IF var = "dbx" THEN {cert} ELSE {})
  BY <1>1 DEF AcceptedInv, VariablesMatch, EFIVariables
<1>5. var = "dbx" /\ cert \in Signers => cert = FirstKey
  BY <1>1 DEF FirstKeyReplaced
<1>6. Installed'
  BY <1>1, <1>2 DEF AcceptedInv, Installed
<1>7. StubFound'
  BY <1>1, <1>2 DEF AcceptedInv, StubFound, FirstOnly
<1>8. \A u \in ukis : SignedBy[u] \in efi'["db"] \ efi'["dbx"]
  BY <1>1, <1>3, <1>4 DEF AcceptedInv, VariablesMatch
<1>9. efi'["dbx"] \cap Signers \subseteq {FirstKey}
  BY <1>4, <1>5 DEF AcceptedInv, VariablesMatch
<1>10. VariablesMatch'
  BY <1>1, <1>2, <1>3, <1>4, <1>8, <1>9 DEF AcceptedInv, VariablesMatch, FirstKey, Signers
<1> QED BY <1>6, <1>7, <1>10 DEF AcceptedInv

LEMMA UpdateAccepted ==
    ASSUME FirstKeyReplaced, SecureBootInv, AcceptedInv, NEW r \in OSReleases, OSUpdate(r)
    PROVE  AcceptedInv'
<1> USE DEF InStep, BindsTo, UnderWay, Quiet, FirmwareVars, firmwareVars, imageVars, Changing, KeyChange
<1>1. /\ UNCHANGED <<FirmwareVars, trouble>> /\ op.at = "os" /\ \A u \in ukis : r > u
      /\ log.sb => SignedBy[r] \in efi["db"]
      /\ \/ SignedBy[r] # pem /\ op' = [[op EXCEPT !.rel = r] EXCEPT !.at = "stub1"]
         \/ /\ SignedBy[r] = pem
            /\ op' = [[op EXCEPT !.rel = r] EXCEPT !.at = "rebind", !.todo = LUKSVolumes, !.to = PCR4Binding(r), !.next = "install"]
         \/ SignedBy[r] = pem /\ op' = [[op EXCEPT !.rel = r] EXCEPT !.at = "install"]
  BY DEF OSUpdate, Newer, Trusted, CertsFromVar, SBEnabled
<1>2. /\ op'.rel = r /\ op'.next \in {op.next, "install"}
      /\ \/ SignedBy[r] # pem /\ op'.at = "stub1"
         \/ SignedBy[r] = pem /\ op'.at = "rebind" /\ op'.next = "install"
         \/ SignedBy[r] = pem /\ op'.at = "install"
  BY <1>1 DEF SecureBootInv, Shapes, OpFields
<1>3. Quiet => StubOf(Newest) /\ pem = SignedBy[Newest] /\ Newest \in ukis /\ Newest \in OSReleases
  BY <1>1 DEF SecureBootInv, QuietInv, BindingsGood, StubGood, Images
<1>4. Quiet => stub["boot"] # "torn"
  BY <1>3, CertAssumption DEF StubOf
<1>5. \A u \in ukis : u < r
  BY <1>1 DEF AcceptedInv, Installed, OSReleases
<1>6. Installed'
  BY <1>1, <1>2, <1>3, <1>5 DEF AcceptedInv, Installed
<1>7. StubFound'
  BY <1>1, <1>2, <1>4 DEF AcceptedInv, StubFound, FirstOnly
<1>8. VariablesMatch'
  BY <1>1, <1>2 DEF AcceptedInv, VariablesMatch, AsInstalled
<1> QED BY <1>6, <1>7, <1>8 DEF AcceptedInv

\* A stub that is signed by the first key again comes with a release that is.
LEMMA GoesBack ==
    ASSUME FirstKeyReplaced, AcceptedInv, UnderWay, SignedBy[op.rel] = FirstKey
    PROVE  FirstOnly
BY DEF FirstKeyReplaced, AcceptedInv, Installed, FirstOnly

LEMMA StubAccepted ==
    ASSUME FirstKeyReplaced, Shapes, AcceptedInv,
           CopyStub("stub1", "systemd", "stub2") \/ CopyStub("stub2", "boot", "key")
    PROVE  AcceptedInv'
<1> USE DEF InStep, BindsTo, UnderWay, Quiet, firmwareVars, Changing, KeyChange
<1>1. PICK path \in {"systemd", "boot"} :
         /\ UNCHANGED <<firmwareVars, ukis, log, pem, trouble>>
         /\ op.at = IF path = "systemd" THEN "stub1" ELSE "stub2"
         /\ \/ /\ stub' = [stub EXCEPT ![path] = SignedBy[op.rel]]
               /\ op' = [op EXCEPT !.at = IF path = "systemd" THEN "stub2" ELSE "key"]
            \/ stub' = [stub EXCEPT ![path] = "torn"] /\ op' = op /\ stub[path] # "torn"
  BY DEF CopyStub, Goto
<1>2. op'.at \in KeyChange /\ op'.rel = op.rel /\ op'.next = op.next
  BY <1>1 DEF Shapes, OpFields
<1>3. SignedBy[op.rel] \in Signers /\ op.rel \in OSReleases
  BY <1>1 DEF AcceptedInv, Installed, Signers
<1>4. Installed'
  BY <1>1, <1>2 DEF AcceptedInv, Installed
<1>5. FirstKey \in {stub'["systemd"], stub'["boot"]} => FirstOnly
  BY <1>1, GoesBack, CertAssumption, ReleaseAssumption DEF AcceptedInv, StubFound, Shapes, FirstKey, OSReleases
<1>6. StubFound'
  BY <1>1, <1>2, <1>3, <1>5, CertAssumption DEF AcceptedInv, StubFound, FirstOnly, Shapes
<1>7. VariablesMatch'
  BY <1>1, <1>2 DEF AcceptedInv, VariablesMatch, AsInstalled, Shapes
<1> QED BY <1>4, <1>6, <1>7 DEF AcceptedInv

LEMMA InstallAccepted ==
    ASSUME FirstKeyReplaced, Shapes, AcceptedInv, ChangeKey \/ InstallImage \/ ForceUpdatePCRBindings
    PROVE  AcceptedInv'
<1> USE DEF InStep, BindsTo, UnderWay, Quiet, firmwareVars, imageVars, Changing, KeyChange
<1>1. CASE ChangeKey
  <2>1. /\ UNCHANGED <<firmwareVars, imageVars, log, trouble>> /\ op.at = "key" /\ pem' = SignedBy[op.rel]
        /\ op' = Rebind(KeyChangeBinding(op.rel), "install")
    BY <1>1 DEF ChangeKey
  <2>2. op'.at = "rebind" /\ op'.next = "install" /\ op'.rel = op.rel
    BY <2>1 DEF Shapes, OpFields, Rebind
  <2>3. Installed'
    BY <2>1, <2>2 DEF AcceptedInv, Installed
  <2>4. StubFound'
    BY <2>1, <2>2 DEF AcceptedInv, StubFound, FirstOnly
  <2>5. VariablesMatch'
    BY <2>1, <2>2 DEF AcceptedInv, VariablesMatch, AsInstalled
  <2> QED BY <2>3, <2>4, <2>5 DEF AcceptedInv
<1>2. CASE InstallImage
  <2>1. /\ UNCHANGED <<firmwareVars, stub, log, pem, trouble>> /\ op.at = "install" /\ ukis' = {log.uki, op.rel}
        /\ op' = [op EXCEPT !.at = "reboot"] \/ op' = NoOp
    BY <1>2 DEF InstallImage, RunningRelease, EndOperation
  <2>2. op'.at \in {"reboot", "idle"} /\ op'.next \in {op.next, "idle"}
    BY <2>1, NoOpIs DEF Shapes, OpFields
  <2>3. op.rel \in OSReleases /\ log.uki \in ukis /\ pem = SignedBy[op.rel]
    BY <2>1 DEF AcceptedInv, Installed
  <2>4. op.rel \in ukis' /\ \A w \in ukis' : w <= op.rel
    BY <2>1, <2>3 DEF AcceptedInv, Installed, OSReleases
  <2>5. Installed'
    BY <2>1, <2>2, <2>3, <2>4 DEF AcceptedInv, Installed
  <2>6. StubFound'
    BY <2>1, <2>2, <2>3 DEF AcceptedInv, StubFound, FirstOnly
  <2>7. sb /\ log.sb => SignedBy[op.rel] \in efi["db"] \ efi["dbx"]
    <3>1. SUFFICES ASSUME sb, log.sb, SignedBy[op.rel] \in efi["dbx"] PROVE FALSE
      BY <2>1 DEF AcceptedInv, VariablesMatch
    <3>2. SignedBy[op.rel] = FirstKey
      BY <2>3, <3>1 DEF AcceptedInv, VariablesMatch, Signers
    <3>3. SignedBy[log.uki] = FirstKey
      BY <2>1, <2>3, <3>2, GoesBack DEF FirstOnly
    <3> QED BY <2>3, <3>1, <3>2, <3>3 DEF AcceptedInv, VariablesMatch
  <2>8. VariablesMatch'
    BY <2>1, <2>2, <2>3, <2>7 DEF AcceptedInv, VariablesMatch, AsInstalled
  <2> QED BY <2>5, <2>6, <2>8 DEF AcceptedInv
<1>3. CASE ForceUpdatePCRBindings
  <2>1. /\ UNCHANGED <<firmwareVars, imageVars, log, trouble>> /\ op.at = "idle" /\ pem' = SignedBy[log.uki]
        /\ op' = Rebind(CurrentBinding, "reboot")
    BY <1>3 DEF ForceUpdatePCRBindings, RunningRelease
  <2>2. op'.at = "rebind" /\ op'.next = "reboot"
    BY <2>1 DEF Shapes, OpFields, Rebind
  <2>3. Installed'
    BY <2>1, <2>2 DEF AcceptedInv, Installed
  <2>4. StubFound'
    BY <2>1, <2>2 DEF AcceptedInv, Installed, StubFound, FirstOnly
  <2>5. VariablesMatch'
    BY <2>1, <2>2 DEF AcceptedInv, VariablesMatch, AsInstalled
  <2> QED BY <2>3, <2>4, <2>5 DEF AcceptedInv
<1> QED BY <1>1, <1>2, <1>3

\* When Secure Boot was just enabled, what boots is signed by the first key, as all is then.
LEMMA BootAccepted ==
    ASSUME AcceptedInv, InStep("off"), NEW u \in ukis, BootInto(u), Quiet' => Quiet, UNCHANGED <<firmwareVars, imageVars>>
    PROVE  AcceptedInv'
<1> USE DEF InStep, BindsTo, UnderWay, firmwareVars, imageVars, Changing, KeyChange
<1>1. /\ UNCHANGED <<firmwareVars, imageVars>> /\ op.at = "off" /\ log' = Measure(u) /\ pem' = SignedBy[u]
      /\ op' = [NoOp EXCEPT !.at = "start"] /\ Accepted(stub[LoadedStub], u)
  BY DEF BootInto
<1>2. op'.at = "start" /\ op'.next = "idle"
  BY <1>1, NoOpIs DEF OpFields
<1>3. log'.uki = u /\ log'.sb = sb
  BY <1>1 DEF Measure
<1>4. Installed'
  BY <1>1, <1>2, <1>3 DEF AcceptedInv, Installed
<1>5. StubFound'
  BY <1>1, <1>2 DEF AcceptedInv, StubFound, FirstOnly
<1>6. ASSUME sb, ~log.sb
      PROVE  stub["systemd"] = FirstKey /\ stub["boot"] = FirstKey /\ FirstOnly /\ AsInstalled
  <2>1. stub["systemd"] = stub["boot"] /\ AsInstalled
    BY <1>6 DEF AcceptedInv, VariablesMatch
  <2>2. stub["systemd"] = FirstKey
    BY <1>1, <1>6, <2>1 DEF Accepted, LoadedStub, AsInstalled
  <2> QED BY <2>1, <2>2 DEF AcceptedInv, StubFound
<1>7. sb => /\ \A p \in {"systemd", "boot"} : stub[p] \in efi["db"] \cup {"torn"}
            /\ \A w \in ukis : SignedBy[w] \in efi["db"] \ efi["dbx"]
  BY <1>6 DEF AcceptedInv, VariablesMatch, FirstOnly, AsInstalled
<1>8. VariablesMatch'
  BY <1>1, <1>2, <1>3, <1>7 DEF AcceptedInv, VariablesMatch, AsInstalled
<1> QED BY <1>4, <1>5, <1>8 DEF AcceptedInv

LEMMA TroubleAccepted ==
    ASSUME Trouble <= 1, SecureBootInv, AcceptedInv, Troubles
    PROVE  AcceptedInv'
<1> USE DEF InStep, BindsTo, UnderWay, firmwareVars, imageVars, Changing, KeyChange, MayFail
<1>1. Quiet /\ ~Quiet'
  BY TroubleShapes, BoundAssumption DEF SecureBootInv, Quiet
<1>2. CASE Fault
  <2>1. Abort /\ op.at # "off"
    BY <1>2 DEF Fault
  <2> QED BY <1>1, <2>1, AbortAside, AsideKeeps DEF SecureBootInv
<1>3. CASE PowerLoss
  <2>1. UNCHANGED FirmwareVars /\ op.at # "off" /\ op' = [NoOp EXCEPT !.at = "off"]
    BY <1>3 DEF PowerLoss, FirmwareVars
  <2>2. op'.at = "off" /\ op'.next = "idle"
    BY <2>1, NoOpIs DEF OpFields
  <2> QED BY <1>1, <2>1, <2>2, AsideKeeps DEF Aside
<1>4. CASE BootOlder
  <2>1. InStep("off") /\ UNCHANGED <<firmwareVars, imageVars>> /\ \E u \in ukis : BootInto(u)
    BY <1>4 DEF BootOlder
  <2> QED BY <1>1, <2>1, BootAccepted
<1>5. CASE SwitchSecureBoot
  <2>1. UNCHANGED <<efi, imageVars, log, pem, op>> /\ op.at = "off" /\ sb' = ~sb
    BY <1>5 DEF SwitchSecureBoot
  <2>2. StubOf(Newest)
    BY <1>1, <2>1 DEF SecureBootInv, QuietInv, BindingsGood, StubGood
  <2>3. Installed' /\ StubFound'
    BY <1>1, <2>1 DEF AcceptedInv, Installed, StubFound, FirstOnly
  <2>4. VariablesMatch'
    BY <1>1, <2>1, <2>2 DEF AcceptedInv, VariablesMatch, AsInstalled, StubOf
  <2> QED BY <2>3, <2>4 DEF AcceptedInv
<1>6. CASE ReplaceTPM
  <2>1. UNCHANGED <<FirmwareVars, op>> /\ op.at = "off"
    BY <1>6 DEF ReplaceTPM, FirmwareVars
  <2>2. Installed' /\ StubFound'
    BY <1>1, <2>1 DEF AcceptedInv, Installed, StubFound, FirstOnly, FirmwareVars
  <2>3. VariablesMatch'
    BY <1>1, <2>1 DEF AcceptedInv, VariablesMatch, AsInstalled, FirmwareVars
  <2> QED BY <2>2, <2>3 DEF AcceptedInv
<1> QED BY <1>2, <1>3, <1>4, <1>5, <1>6 DEF Troubles

LEMMA ArchiveThere ==
    ASSUME certArchive \in DOMAIN Archives, SecureBootNext
    PROVE  certArchive' \in DOMAIN Archives
<1> USE DEF updates
<1>1. Abort => certArchive' = certArchive
  BY DEF Abort
<1>2. CASE PublishCerts
  <2>1. certArchive < Len(Archives) /\ certArchive' = certArchive + 1 /\ DOMAIN Archives = 1 .. Len(Archives)
    BY <1>2, CertAssumption DEF PublishCerts
  <2> QED BY <2>1
<1>3. PlainAction /\ ~PublishCerts => certArchive' = certArchive
  <2>1. StartBindings \/ (\E v \in LUKSVolumes : RebindVolume(v)) \/ RebindImpossible \/ StartCheck
        \/ (\E var \in EFIVariables, cert \in Certs : AppendCert(var, cert)) => certArchive' = certArchive
    BY <1>1 DEF StartBindings, RebindVolume, RebindImpossible, StartCheck, AppendCert
  <2>2. PredictCerts \/ CertAppended \/ CertsComplete \/ (\E cert \in Certs : RefuseDbx(cert)) \/ NoOSUpdate
        \/ PredictionImpossible => certArchive' = certArchive
    BY <1>1 DEF PredictCerts, CertAppended, CertsComplete, RefuseDbx, NoOSUpdate, PredictionImpossible
  <2>3. (\E r \in OSReleases : OSUpdate(r)) \/ CopyStub("stub1", "systemd", "stub2") \/ CopyStub("stub2", "boot", "key")
        \/ ChangeKey \/ InstallImage \/ ForceUpdatePCRBindings \/ Reboot => certArchive' = certArchive
    BY DEF OSUpdate, CopyStub, ChangeKey, InstallImage, ForceUpdatePCRBindings, Reboot
  <2> QED BY <2>1, <2>2, <2>3 DEF PlainAction
<1>4. FirstAction => certArchive' = certArchive
  BY <1>1 DEF FirstAction, StartKeys, GenerateCommon, GenerateImpossible, GenerateWipe, GenerateEnroll, GeneratePasswords
<1>5. RequestAction => certArchive' = certArchive
  BY DEF RequestAction, Retrieve, PutKeys, PutNext, PutDone, ReaddKeys, AddKeyVolume, WipeVolume
<1>6. BootNewest \/ Troubles => certArchive' = certArchive
  BY <1>1 DEF BootNewest, Troubles, Fault, PowerLoss, BootOlder, SwitchSecureBoot, ReplaceTPM
<1> QED BY <1>2, <1>3, <1>4, <1>5, <1>6
        DEF SecureBootNext, Daemon, PlainAction, FirstAction, RequestAction, Troubles

LEMMA AcceptedStep ==
    ASSUME FirstKeyReplaced, Trouble <= 1, SecureBootInv, AcceptedInv, certArchive \in DOMAIN Archives,
           [SecureBootNext]_secureBootVars
    PROVE  AcceptedInv' /\ certArchive' \in DOMAIN Archives
<1>1. Shapes /\ trouble \in Nat /\ trouble <= Trouble
  BY DEF SecureBootInv
<1>2. CASE UNCHANGED secureBootVars
  <2>1. UNCHANGED <<FirmwareVars, op, trouble, certArchive>>
    BY <1>2 DEF secureBootVars, FirmwareVars, firmwareVars, imageVars, updates
  <2> QED BY <2>1 DEF AcceptedInv, Installed, StubFound, VariablesMatch, FirstOnly, AsInstalled, FirmwareVars,
             firmwareVars, imageVars, UnderWay, BindsTo, InStep, Quiet
<1>3. AsideAction => AcceptedInv'
  BY <1>1, AsideSteps, AsideKeeps
<1>4. ASSUME BootNewest PROVE AcceptedInv'
  <2>1. InStep("off") /\ BootInto(Newest) /\ UNCHANGED <<firmwareVars, imageVars, trouble>>
    BY <1>4 DEF BootNewest
  <2>2. Newest \in ukis
    BY DEF AcceptedInv, Installed, Newest
  <2> QED BY <2>1, <2>2, BootAccepted DEF Quiet
<1>5. /\ \A v \in LUKSVolumes : RebindVolume(v) => AcceptedInv'
      /\ \A var \in EFIVariables, cert \in Certs : AppendCert(var, cert) => AcceptedInv'
      /\ \A r \in OSReleases : OSUpdate(r) => AcceptedInv'
  BY <1>1, BindAccepted, AppendAccepted, UpdateAccepted
<1>6. /\ CopyStub("stub1", "systemd", "stub2") \/ CopyStub("stub2", "boot", "key") => AcceptedInv'
      /\ ChangeKey \/ InstallImage \/ ForceUpdatePCRBindings => AcceptedInv'
      /\ Troubles => AcceptedInv'
  BY <1>1, StubAccepted, InstallAccepted, TroubleAccepted
<1>7. SecureBootNext => AcceptedInv'
  BY <1>3, <1>4, <1>5, <1>6 DEF SecureBootNext, Daemon, AsideAction, FirstAction, RequestAction, Troubles
<1> QED BY <1>2, <1>7, ArchiveThere

LEMMA AcceptedStart == ASSUME SecureBootInit PROVE AcceptedInv /\ certArchive \in DOMAIN Archives
<1> USE DEF SecureBootInit
<1>1. 1 \in OSReleases /\ FirstKey \in Signers /\ FirstKey # "torn"
  BY ReleaseAssumption, CertAssumption DEF OSReleases, FirstKey, Signers
<1>2. op.at = "start" /\ op.next = "idle"
  BY NoOpIs DEF OpFields
<1>3. log.uki = 1 /\ log.sb = sb
  BY DEF Measure
<1>4. certArchive \in DOMAIN Archives
  BY CertAssumption
<1>5. /\ ukis = {1} /\ pem = FirstKey /\ stub["systemd"] = FirstKey /\ stub["boot"] = FirstKey
      /\ efi = [var \in EFIVariables |-> efi[var]] /\ AsInstalled
  BY DEF FirstKey, AsInstalled, EFIVariables
<1> HIDE DEF SecureBootInit
<1> USE DEF InStep, BindsTo, UnderWay, Changing, KeyChange
<1>6. Installed /\ StubFound
  BY <1>1, <1>2, <1>3, <1>5 DEF Installed, StubFound, FirstOnly, FirstKey
<1>7. VariablesMatch
  BY <1>1, <1>2, <1>3, <1>5 DEF VariablesMatch, AsInstalled, FirstKey
<1> QED BY <1>4, <1>6, <1>7 DEF AcceptedInv

\* When one key takes the place of the one the system was installed with, and that one is
\* revoked in the end: whichever single command fails, wherever the power is lost once or
\* whichever one outside change is made, the firmware accepts the boot stub and every
\* installed image (UpdateSecureBootCerts, checkDbxUpdateWouldBrickUKI, updateEFIBootStub).
THEOREM ImagesStayAccepted ==
    ASSUME FirstKeyReplaced, Trouble <= 1
    PROVE  SecureBootSpec => []ImagesAccepted
<1>1. AcceptedInv => ImagesAccepted
  <2> SUFFICES ASSUME AcceptedInv, InStep("off"), sb = log.sb, NEW u \in ukis
               PROVE  Accepted(stub[LoadedStub], u)
    BY DEF ImagesAccepted
  <2>1. LoadedStub \in {"systemd", "boot"} /\ stub[LoadedStub] \in Signers /\ stub[LoadedStub] # "torn"
    BY DEF AcceptedInv, StubFound, LoadedStub, InStep
  <2>2. u \in OSReleases /\ SignedBy[u] \in Signers
    BY DEF AcceptedInv, Installed, Signers
  <2>3. CASE sb
    <3>1. stub[LoadedStub] \in efi["dbx"] => stub[LoadedStub] = FirstKey /\ FirstOnly
      BY <2>1 DEF AcceptedInv, StubFound, VariablesMatch
    <3> QED BY <2>1, <2>3, <3>1 DEF AcceptedInv, VariablesMatch, Accepted, FirstOnly
  <2>4. CASE ~sb
    BY <2>1, <2>2, <2>4 DEF Accepted, FirstKeyReplaced
  <2> QED BY <2>3, <2>4
<1>2. SecureBootInit => SecureBootInv /\ AcceptedInv /\ certArchive \in DOMAIN Archives
  BY SecureBootStart, AcceptedStart
<1>3. SecureBootInv /\ AcceptedInv /\ certArchive \in DOMAIN Archives /\ [SecureBootNext]_secureBootVars
         => SecureBootInv' /\ AcceptedInv' /\ (certArchive \in DOMAIN Archives)'
  BY SecureBootStep, AcceptedStep
<1> QED BY <1>1, <1>2, <1>3, PTL DEF SecureBootSpec
=============================================================================
