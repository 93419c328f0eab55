------------------------------ MODULE StateFile -------------------------------
(***************************************************************************)
(* The state file across versions of its format. A line of the file is a   *)
(* setting; upgrades rename settings, change their type or add defaults,   *)
(* and the daemon of an image only knows the names of its own version. The *)
(* file outlives the images: an update boots a newer one, a fallback an    *)
(* older one, and every change saves the whole state.                      *)
(*                                                                         *)
(* Settings stand for the lines the eight upgrades touch, and one they do  *)
(* not. Form counts how often a setting's line was changed up to a         *)
(* version; the value 0 is Go's zero value, which is never written.        *)
(***************************************************************************)
EXTENDS Integers, FiniteSets

CONSTANTS
    MaxSetting,    \* values a user may configure are 1 .. MaxSetting
    MaxStateCalls, \* how many changes, updates and boots there are
    FirstFormats   \* versions of the format a system may be installed with

CurrentVersion == 8

ASSUME StateFileAssumption ==
    /\ MaxSetting \in Nat \ {0} /\ MaxStateCalls \in Nat
    /\ FirstFormats \subseteq 0 .. CurrentVersion

Default == 1

\* The versions whose upgrade changes the line of a setting.
Changes ==
    [hostname |-> {}, keys |-> {1}, proxy |-> {2}, apps |-> {3, 8}, frequency |-> {4, 5},
     channel |-> {4}, ntp |-> {6}, scrub |-> {7}]
Settings == DOMAIN Changes
Added == {"channel", "scrub"}

VARIABLES
    stateFile,  \* state.txt: a version, and the lines
    stateTmp,   \* state.txt.tmp: none, partly written, or what is to be saved
    image,      \* the version of the running image; -1 when none runs
    slots,      \* the versions of the two images
    memory,     \* the daemon's state
    kept,       \* the settings as they were last saved
    stateCalls

stateVars == <<stateFile, stateTmp, image, slots, memory, kept, stateCalls>>

NoFile == [version |-> -1, lines |-> {}]
Line(s, form, val) == [setting |-> s, form |-> form, val |-> val]
Form(s, v) == Cardinality({c \in Changes[s] : c <= v})
Known(s, v) == s \notin Added \/ Form(s, v) > 0
Zero == [s \in Settings |-> 0]
---------------------------------------------------------------------------
(* Encode, the upgrades and Decode *)

\* One line for each setting that is not zero, under the names of the running image and the
\* version of the file that was loaded.
Encode(m, v) ==
    [version |-> m.version, lines |-> {Line(s, Form(s, v), m.vals[s]) : s \in {t \in Settings : m.vals[t] # 0}}]

\* What the upgrade to version i does to a line, and the default it appends.
UpgradeLine(i, l) == IF i \in Changes[l.setting] THEN [l EXCEPT !.form = @ + 1] ELSE l
Upgrade(i, lines) ==
    {UpgradeLine(i, l) : l \in lines} \cup {Line(s, 1, Default) : s \in {t \in Added : i \in Changes[t]}}

\* The upgrades the image knows and the file has not seen, in order.
Upgrades(f, v) ==
    LET upgraded[i \in 0 .. CurrentVersion] == IF i <= f.version THEN f.lines ELSE Upgrade(i, upgraded[i - 1])
    IN  IF v > f.version THEN upgraded[v] ELSE f.lines

\* A line of another form has a name the image does not know. The type of the frequency
\* changed under the same name: its value cannot be parsed and the daemon does not start.
Recognised(l, v) == l.form = Form(l.setting, v) /\ Known(l.setting, v)
Unparsable(l, v) == l.setting = "frequency" /\ {l.form, Form("frequency", v)} = {1, 2}

Decode(f, v) ==
    LET lines == Upgrades(f, v)
        known == {l \in lines : Recognised(l, v)}
    IN  [version |-> IF v > f.version THEN v ELSE f.version,
         vals |-> [s \in Settings |-> IF \E l \in known : l.setting = s
                                      THEN (CHOOSE l \in known : l.setting = s).val ELSE 0],
         unrecognised |-> {l \in lines : ~Recognised(l, v)} # {},
         failed |-> \E l \in lines : Unparsable(l, v),
         save |-> v > f.version]

\* initialize
Initialized(v) ==
    [version |-> v, unrecognised |-> FALSE, failed |-> FALSE, save |-> TRUE,
     vals |-> [s \in Settings |-> IF s \in {"channel", "frequency", "scrub"} /\ Known(s, v) THEN Default ELSE 0]]

LoadOrCreate(v) == IF stateFile = NoFile THEN Initialized(v) ELSE Decode(stateFile, v)
---------------------------------------------------------------------------
(* Saving: into a temporary file that is synced and then renamed *)

Running == image >= 0 /\ ~memory.failed

\* Mutant: a state that could not be read completely is saved as well.
SaveAlways ==
    /\ Running /\ memory.save /\ stateTmp = NoFile
    /\ stateTmp' = [version |-> -2, lines |-> {}]
    /\ UNCHANGED <<stateFile, image, slots, memory, kept, stateCalls>>

\* Nothing is saved when a field was not recognised; the caller is not told.
Save ==
    /\ Running /\ memory.save /\ stateTmp = NoFile
    /\ IF memory.unrecognised
       THEN memory' = [memory EXCEPT !.save = FALSE] /\ UNCHANGED stateTmp
       ELSE stateTmp' = [version |-> -2, lines |-> {}] /\ UNCHANGED memory
    /\ UNCHANGED <<stateFile, image, slots, kept, stateCalls>>

\* The write fails when the disk is full; the error is returned or ignored.
WriteFile ==
    /\ Running /\ memory.save /\ stateTmp.version = -2
    /\ \/ stateTmp' = Encode(memory, image) /\ UNCHANGED memory
       \/ memory' = [memory EXCEPT !.save = FALSE] /\ stateTmp' = NoFile
    /\ UNCHANGED <<stateFile, image, slots, kept, stateCalls>>

SaveRename ==
    /\ Running /\ memory.save /\ stateTmp.version >= 0
    /\ stateFile' = stateTmp /\ stateTmp' = NoFile
    /\ kept' = [s \in Settings |-> IF Known(s, image) THEN memory.vals[s] ELSE kept[s]]
    /\ memory' = [memory EXCEPT !.save = FALSE]
    /\ UNCHANGED <<image, slots, stateCalls>>
---------------------------------------------------------------------------
(* The daemon and its images *)

StateCall == stateCalls < MaxStateCalls /\ stateCalls' = stateCalls + 1

\* A user configures a setting the image has.
Configure(s, val) ==
    /\ Running /\ ~memory.save /\ StateCall
    /\ Known(s, image) /\ memory.vals[s] # val
    /\ memory' = [memory EXCEPT !.vals[s] = val, !.save = TRUE]
    /\ UNCHANGED <<stateFile, stateTmp, image, slots, kept>>

\* An update replaces the image that is not running.
UpdateImage(n, v) ==
    /\ Running /\ ~memory.save /\ StateCall
    /\ slots[n] <= slots[3 - n] /\ slots[3 - n] = image /\ v > image
    /\ slots' = [slots EXCEPT ![n] = v]
    /\ UNCHANGED <<stateFile, stateTmp, image, memory, kept>>

\* Either image may boot; a power loss at any moment leaves what is on disk.
BootImage(n) ==
    /\ image = -1
    /\ image' = slots[n]
    /\ memory' = LoadOrCreate(slots[n])
    /\ UNCHANGED <<stateFile, stateTmp, slots, kept, stateCalls>>

Restart ==
    /\ image >= 0 /\ StateCall
    /\ image' = -1
    /\ stateTmp' = NoFile
    /\ UNCHANGED <<stateFile, slots, memory, kept>>

StateInit ==
    /\ stateFile = NoFile /\ stateTmp = NoFile /\ image = -1
    /\ slots \in {[n \in 1 .. 2 |-> v] : v \in FirstFormats}
    /\ memory = Initialized(0) /\ kept = Zero /\ stateCalls = 0

StateNext ==
    \/ Save \/ WriteFile \/ SaveRename \/ Restart
    \/ \E s \in Settings, val \in 1 .. MaxSetting : Configure(s, val)
    \/ \E n \in 1 .. 2 : BootImage(n) \/ \E v \in 0 .. CurrentVersion : UpdateImage(n, v)

StateSpec == StateInit /\ [][StateNext]_stateVars
---------------------------------------------------------------------------
(* Properties *)

StateTypeOK ==
    /\ stateFile.version \in -1 .. CurrentVersion /\ stateTmp.version \in -2 .. CurrentVersion
    /\ image \in -1 .. CurrentVersion /\ slots \in [1 .. 2 -> 0 .. CurrentVersion]
    /\ memory.vals \in [Settings -> 0 .. MaxSetting] /\ kept \in [Settings -> 0 .. MaxSetting]
    /\ \A l, m \in stateFile.lines : l.setting = m.setting => l = m

\* Nothing that was saved is ever lost from the file: not by an upgrade of the format, by a
\* fallback to an older image that does not know a renamed setting, by what that image
\* saves, by a failing write or by a power loss in the middle of a save.
SettingsKept ==
    \A s \in Settings : kept[s] # 0 => \E l \in stateFile.lines : l.setting = s /\ l.val = kept[s]
=============================================================================
