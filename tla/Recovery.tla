------------------------------- MODULE Recovery -------------------------------
(***************************************************************************)
(* The recovery that runs early at every start while a medium labelled     *)
(* RESCUE_DATA is present: a signed script, then an update from the medium *)
(* that is applied through the debug provider. For that the configured     *)
(* provider is replaced in the daemon's state and put back afterwards.     *)
(***************************************************************************)
EXTENDS Integers, FiniteSets

CONSTANTS
    Media,         \* recovery media: see MediaType
    MaxRelease,    \* releases are 1 .. MaxRelease
    MaxStarts      \* how often the system starts

Signatures == {"none", "good", "bad"}
\* Files of another architecture are not looked at; the others are there or missing, and
\* match the checksum of the metadata or not.
MediaType == [script : Signatures, update : Signatures, version : 1 .. MaxRelease, os : BOOLEAN,
              files : SUBSET {"good", "bad", "missing", "other-arch"}]

ASSUME RecoveryAssumption ==
    /\ MaxRelease \in Nat \ {0} /\ MaxStarts \in Nat
    /\ Media \subseteq MediaType

VARIABLES
    medium,      \* the medium, if there is one
    release,     \* the running release
    nextRelease, \* the release that boots next
    provider,    \* the provider in the daemon's state
    diskProvider,\* the provider in the state file
    configured,  \* the provider the user or the seed configured, "" on the first boot
    rescue,      \* the recovery under way
    debugPath,   \* what the debug provider finds: files, and a RELEASE file or 0
    starts

recoveryVars == <<medium, release, nextRelease, provider, diskProvider, configured, rescue, debugPath, starts>>

NoRescue == [at |-> "down", named |-> FALSE, stash |-> ""]
RescueAt(step) == rescue.at = step
RescueGo(step) == rescue' = [rescue EXCEPT !.at = step]
NoPath == [files |-> {}, release |-> 0]
M == CHOOSE x \in medium : TRUE
---------------------------------------------------------------------------
\* The deferred functions of CheckRunRecovery.
RecoveryEnds ==
    /\ provider' = IF rescue.named THEN "" ELSE provider
    /\ rescue' = [NoRescue EXCEPT !.at = "startup"]

\* The system starts, with or without a medium.
RecoveryStart(media) ==
    /\ RescueAt("down") /\ starts < MaxStarts
    /\ starts' = starts + 1
    /\ release' = nextRelease
    /\ provider' = diskProvider
    /\ medium' = media
    /\ RescueGo(IF media = {} THEN "startup" ELSE "mount")
    /\ debugPath' = NoPath
    /\ UNCHANGED <<nextRelease, diskProvider, configured>>

\* CheckRunRecovery: a medium that cannot be mounted ends it. Without a provider, as on the
\* first boot, one is named for the time being.
CheckRunRecovery ==
    /\ RescueAt("mount")
    /\ \/ /\ provider' = IF provider = "" THEN "images" ELSE provider
          /\ rescue' = [rescue EXCEPT !.at = "script", !.named = provider = ""]
       \/ RescueGo("startup") /\ UNCHANGED provider
    /\ UNCHANGED <<medium, release, nextRelease, diskProvider, configured, debugPath, starts>>

\* runHotfix, RunSignedScript: an unsigned script, or one that fails, ends the recovery.
RunHotfix ==
    /\ RescueAt("script")
    /\ \/ M.script # "bad" /\ RescueGo("update") /\ UNCHANGED provider
       \/ M.script # "none" /\ RecoveryEnds
    /\ UNCHANGED <<medium, release, nextRelease, diskProvider, configured, debugPath, starts>>

\* applyUpdate: the signature, and no release older than the running one.
ApplyUpdate ==
    /\ RescueAt("update")
    /\ IF M.update = "good" /\ M.version >= release
       THEN RescueGo("files") /\ UNCHANGED provider
       ELSE RecoveryEnds
    /\ UNCHANGED <<medium, release, nextRelease, diskProvider, configured, debugPath, starts>>

\* verifyAndDecompressFile for each file; the debug path is removed again on an error.
VerifyAndDecompressFiles ==
    /\ RescueAt("files")
    /\ IF "bad" \in M.files \/ "good" \notin M.files
       THEN RecoveryEnds /\ debugPath' = NoPath
       ELSE /\ debugPath' = [files |-> {"good"}, release |-> M.version]
            /\ RescueGo("stash") /\ UNCHANGED provider
    /\ UNCHANGED <<medium, release, nextRelease, diskProvider, configured, starts>>

\* The provider is replaced by the debug one.
StashProvider ==
    /\ RescueAt("stash")
    /\ rescue' = [rescue EXCEPT !.at = "check", !.stash = provider]
    /\ provider' = "debug"
    /\ UNCHANGED <<medium, release, nextRelease, diskProvider, configured, debugPath, starts>>

\* The update check: an update of the system saves the state and reboots; the process ends
\* before the deferred functions run. Updates of applications may save the state as well.
RecoveryChecker ==
    /\ RescueAt("check")
    /\ \/ /\ M.os /\ debugPath.release > release
          /\ nextRelease' = debugPath.release
          /\ diskProvider' = provider
          /\ rescue' = NoRescue
       \/ /\ RescueGo("restore")
          /\ \/ diskProvider' = provider
             \/ UNCHANGED diskProvider
          /\ UNCHANGED nextRelease
    /\ UNCHANGED <<medium, release, provider, configured, debugPath, starts>>

\* The deferred functions: the provider is put back and the debug path removed.
RestoreProvider ==
    /\ RescueAt("restore")
    /\ provider' = IF rescue.named THEN "" ELSE rescue.stash
    /\ rescue' = [NoRescue EXCEPT !.at = "startup"]
    /\ debugPath' = NoPath
    /\ UNCHANGED <<medium, release, nextRelease, diskProvider, configured, starts>>

\* The startup goes on, takes the provider of the seed if there is none, and saves.
RecoveryStartup ==
    /\ RescueAt("startup")
    /\ provider' = IF provider = "" THEN "operations-center" ELSE provider
    /\ diskProvider' = provider'
    /\ configured' = IF configured = "" THEN "operations-center" ELSE configured
    /\ RescueGo("down")
    /\ UNCHANGED <<medium, release, nextRelease, debugPath, starts>>

\* Power may be lost before the startup saved the state.
RecoveryPowerLoss ==
    /\ ~RescueAt("down")
    /\ rescue' = NoRescue
    /\ UNCHANGED <<medium, release, nextRelease, provider, diskProvider, configured, debugPath, starts>>

RecoveryInit ==
    /\ medium = {} /\ release = 1 /\ nextRelease = 1
    /\ configured \in {"", "images"} /\ provider = configured /\ diskProvider = configured
    /\ rescue = NoRescue /\ debugPath = NoPath /\ starts = 0

RecoveryNext ==
    \/ \E media \in {{}} \cup {{x} : x \in Media} : RecoveryStart(media)
    \/ CheckRunRecovery \/ RunHotfix \/ ApplyUpdate \/ VerifyAndDecompressFiles \/ StashProvider
    \/ RecoveryChecker \/ RestoreProvider \/ RecoveryStartup \/ RecoveryPowerLoss

RecoverySpec == RecoveryInit /\ [][RecoveryNext]_recoveryVars
---------------------------------------------------------------------------
(* Properties *)

RecoveryTypeOK ==
    /\ provider \in {"", "images", "operations-center", "debug"} /\ release \in 1 .. MaxRelease
    /\ rescue.at \in {"down", "mount", "script", "update", "files", "stash", "check", "restore", "startup"}
    /\ \A x \in medium : x \in Media

\* Once a recovery is done the system uses the provider that was configured.
ProviderKept ==
    RescueAt("startup") => provider = configured
=============================================================================
