------------------------------ MODULE Publisher ------------------------------
(***************************************************************************)
(* The image publisher (cmd/image-publisher): the commands that turn the   *)
(* output of the build system into the tree of releases the image server   *)
(* serves, with its signed index. Each command is a process without any    *)
(* lock; it may fail or be killed between any two of its writes, and what  *)
(* it wrote stays.                                                         *)
(***************************************************************************)
EXTENDS Integers, FiniteSets, Sequences, SequencesExt

CONSTANTS
    Publishers,   \* processes that may run a command at the same time
    Releases,     \* the numbers of the builds: 1 .. a bound
    Archs,        \* architectures a release is built for
    Channels,     \* channels a release can be in; a new one goes to "testing"
    Retentions,   \* the retention arguments of prune
    Commands,     \* bound on the number of commands that are run
    Absent,       \* no such file or directory
    Torn          \* a file that was emptied and not yet written: it does not decode

ASSUME PublisherAssumption ==
    /\ Releases \subseteq Nat \ {0} /\ IsFiniteSet(Releases) /\ Commands \in Nat /\ Retentions \subseteq Int
    /\ "testing" \in Channels /\ Archs \cap Channels = {}

VARIABLES
    builds,    \* the releases whose build succeeded
    store,     \* the directory of each release: its files, update.json and update.sjson
    index,     \* index.json: the listed releases, newest first
    served,    \* index.sjson, what clients read
    proc,      \* the command each process runs, and how far it has got
    linked,    \* processes whose open update.json is still the one in the directory
    started,   \* number of commands run
    hurt,      \* <<release, file>>: files a prune or a demotion has taken away and nobody has written
               \* again, until an index, or metadata, without them is written by a command that is alone
    tidy       \* the last command ended well and nothing else ran since it began

publisherVars == <<builds, store, index, served, proc, linked, started, hurt, tidy>>

Severities == {"none", "high"}
Files == Archs \cup Channels          \* the image files of an architecture, the changelogs of a channel
Meta == [channels : SUBSET Channels, severity : Severities, files : SUBSET Files]

Entry == [version : Releases, meta : Meta]
NoDirectory == [files |-> {}, meta |-> Absent, signed |-> Absent]

Directory == [files : SUBSET Files, meta : Meta \cup {Absent, Torn}, signed : Meta \cup {Absent, Torn}]

ASSUME AbsentAssumption == Absent \notin Directory

Idle == [cmd |-> "none"]
Steps == {"download", "changelog", "remove", "truncate", "encode", "sign", "index", "createIndex", "encodeIndex", "signIndex",
          "prune"}
Names == {"sync", "promote", "demote", "severity", "prune"}

PublisherTypeOK ==
    /\ builds \subseteq Releases
    /\ store \in [Releases -> Directory \cup {Absent}]
    /\ index \in {Absent, Torn} \/ index \in Seq(Entry)
    /\ served \in {Absent, Torn} \/ served \in Seq(Entry)
    /\ \A p \in Publishers : proc[p] = Idle \/ (proc[p].cmd \in Names /\ proc[p].step \in Steps)
    /\ linked \subseteq Publishers /\ started \in 0 .. Commands /\ hurt \subseteq Releases \X Files /\ tidy \in BOOLEAN

\* What a sync leaves when it is done.
Synced == [channels |-> {"testing"}, severity |-> "none", files |-> Archs \cup {"testing"}]
Published == [files |-> Synced.files, meta |-> Synced, signed |-> Synced]

\* The tree is empty, or holds a first release.
PublisherInit ==
    /\ \E first \in {{}, {v \in Releases : \A w \in Releases : v <= w}} :
        /\ builds = first
        /\ store = [v \in Releases |-> IF v \in first THEN Published ELSE Absent]
        /\ index = IF first = {} THEN Absent ELSE <<[version |-> CHOOSE v \in first : TRUE, meta |-> Synced]>>
    /\ served = index
    /\ proc = [p \in Publishers |-> Idle] /\ linked = {} /\ started = 0 /\ hurt = {} /\ tidy = FALSE

(***************************************************************************)
(* Steps common to the commands                                            *)
(***************************************************************************)

\* A command that refuses its arguments leaves everything as it is and is not counted.
Begin(p, c) ==
    /\ proc[p] = Idle /\ started < Commands
    /\ proc' = [q \in Publishers |->
                    IF q = p THEN [c EXCEPT !.alone = \A o \in Publishers : proc[o] = Idle]
                    ELSE IF proc[q] = Idle THEN Idle ELSE [proc[q] EXCEPT !.alone = FALSE]]
    /\ linked' = IF c.cmd \in {"promote", "demote", "severity"} THEN linked \cup {p} ELSE linked
    /\ started' = started + 1 /\ tidy' = FALSE

Command(name, v, channel, meta, step) ==
    [cmd |-> name, version |-> v, channel |-> channel, meta |-> meta, step |-> step,
     list |-> <<>>, doomed |-> <<>>, alone |-> TRUE]

At(p, step) == proc[p] # Idle /\ proc[p].step = step
GoTo(p, step) == proc' = [proc EXCEPT ![p].step = step]

\* Decoded, and so listed, is what update.json holds when it was written to the end.
Decodes(v) == store[v] # Absent /\ store[v].meta \notin {Absent, Torn}

\* The build system finishes a run, well or not.
Build ==
    /\ \E v \in Releases \ builds :
        /\ \A w \in builds : w < v
        /\ builds' = builds \cup {v}
    /\ UNCHANGED <<store, index, served, proc, linked, started, hurt, tidy>>

\* The newest run that succeeded, and the archive of each architecture.
GetLatestRelease(v) == v \in builds /\ \A w \in builds : w <= v

\* The local archives given as arguments must all be of one release.
LocalRelease(v) == v \in builds

\* sync: a release whose directory exists counts as imported.
Sync(p, v, remote) ==
    /\ IF remote THEN GetLatestRelease(v) ELSE LocalRelease(v)
    /\ store[v] = Absent
    /\ store' = [store EXCEPT ![v] = NoDirectory]
    /\ Begin(p, Command("sync", v, "testing",
             [channels |-> {"testing"}, severity |-> "none", files |-> {}], "download"))
    /\ UNCHANGED <<builds, index, served, hurt>>

\* A directory that a prune has removed in the meantime is made again.
Made(v) == IF store[v] = Absent THEN NoDirectory ELSE store[v]

\* Mutant: an error of a download does not stop the command.
DownloadUnchecked(p) ==
    /\ At(p, "download")
    /\ LET v == proc[p].version
       IN  \E got \in SUBSET Archs :
            /\ store' = [store EXCEPT ![v] = [Made(v) EXCEPT !.files = got]]
            /\ proc' = [proc EXCEPT ![p].meta.files = got, ![p].step = "changelog"]
    /\ UNCHANGED <<builds, index, served, linked, started, hurt, tidy>>

\* The files of an archive are extracted and added to the metadata.
ExtractImage(p, v, a) ==
    /\ store' = [store EXCEPT ![v] = [Made(v) EXCEPT !.files = @ \cup {a}]]
    /\ hurt' = hurt \ {<<v, a>>}
    /\ proc' = [proc EXCEPT ![p].meta.files = @ \cup {a}]

\* One goroutine for each architecture extracts the files of its archive; all must succeed.
DownloadImage(p) ==
    /\ At(p, "download")
    /\ LET v == proc[p].version
           missing == Archs \ proc[p].meta.files
       IN  IF missing = {}
           THEN GoTo(p, "changelog") /\ UNCHANGED <<store, hurt>>
           ELSE \E a \in missing : ExtractImage(p, v, a)
    /\ UNCHANGED <<builds, index, served, linked, started, tidy>>

\* The metadata of a release is read by the commands that change it.
Promote(p, v, c) ==
    /\ Decodes(v) /\ c \notin store[v].meta.channels
    /\ Begin(p, Command("promote", v, c, [store[v].meta EXCEPT !.channels = @ \cup {c}], "changelog"))
    /\ UNCHANGED <<builds, store, index, served, hurt>>

\* Without an index there is no prior release; one that does not decode is an error.
GenerateChangelog(p) ==
    /\ At(p, "changelog")
    /\ index # Torn
    /\ LET v == proc[p].version
           c == proc[p].channel
       IN  /\ store[v] # Absent
           /\ proc[p].meta.files \cap Archs \subseteq store[v].files   \* their manifests are read
           /\ store' = [store EXCEPT ![v].files = @ \cup {c}]
           /\ proc' = [proc EXCEPT ![p].meta.files = @ \cup {c}, ![p].step = "truncate"]
           /\ hurt' = hurt \ {<<v, c>>}
    /\ UNCHANGED <<builds, index, served, linked, started, tidy>>

\* demote removes the changelogs of the channel before it writes the metadata that lists them no more.
Demote(p, v, c) ==
    /\ Decodes(v) /\ c \in store[v].meta.channels
    /\ Begin(p, Command("demote", v, c,
             [store[v].meta EXCEPT !.channels = @ \ {c}, !.files = @ \ {c}],
             IF c \in store[v].meta.files THEN "remove" ELSE "truncate"))
    /\ UNCHANGED <<builds, store, index, served, hurt>>

RemoveChangelog(p) ==
    /\ At(p, "remove")
    /\ LET v == proc[p].version
       IN  /\ store[v] # Absent /\ proc[p].channel \in store[v].files
           /\ store' = [store EXCEPT ![v].files = @ \ {proc[p].channel}]
           /\ hurt' = hurt \cup {<<v, proc[p].channel>>}
    /\ GoTo(p, "truncate")
    /\ UNCHANGED <<builds, index, served, linked, started, tidy>>

Severity(p, v, s) ==
    /\ Decodes(v)
    /\ Begin(p, Command("severity", v, "", [store[v].meta EXCEPT !.severity = s], "truncate"))
    /\ UNCHANGED <<builds, store, index, served, hurt>>

\* A file that is open stays so when the directory is removed: what is written to it then is lost.
Reaches(p, v) == p \in linked /\ store[v] # Absent

\* update.json is rewritten in place: first emptied, then written. The other commands have it
\* open since they read it; sync creates it here, in a directory that must be there.
TruncateMeta(p) ==
    /\ At(p, "truncate")
    /\ LET v == proc[p].version
           creates == proc[p].cmd = "sync"
       IN  /\ creates => store[v] # Absent
           /\ store' = IF creates \/ Reaches(p, v) THEN [store EXCEPT ![v].meta = Torn] ELSE store
           /\ linked' = IF creates THEN linked \cup {p} ELSE linked
    /\ GoTo(p, "encode")
    /\ UNCHANGED <<builds, index, served, started, hurt, tidy>>

EncodeMeta(p) ==
    /\ At(p, "encode")
    /\ LET v == proc[p].version
       IN  /\ store' = IF Reaches(p, v) THEN [store EXCEPT ![v].meta = proc[p].meta] ELSE store
           /\ hurt' = IF Reaches(p, v) /\ proc[p].cmd = "demote" /\ proc[p].alone
                      THEN hurt \ {<<v, proc[p].channel>>} ELSE hurt
    /\ linked' = linked \ {p}
    /\ GoTo(p, "sign")
    /\ UNCHANGED <<builds, index, served, started, tidy>>

\* The signature covers what the file holds when openssl reads it.
SignMeta(p) ==
    /\ At(p, "sign")
    /\ LET v == proc[p].version
       IN  /\ store[v] # Absent /\ store[v].meta # Absent
           /\ store' = [store EXCEPT ![v].signed = store[v].meta]
    /\ GoTo(p, "index")
    /\ UNCHANGED <<builds, index, served, linked, started, hurt, tidy>>

(***************************************************************************)
(* The index                                                               *)
(***************************************************************************)

Listed == {v \in Releases : Decodes(v)}
NewestFirst(S) == [i \in 1 .. Cardinality(S) |-> CHOOSE v \in S : Cardinality({w \in S : w >= v}) = i]
Listing == LET order == NewestFirst(Listed) IN [i \in DOMAIN order |-> [version |-> order[i], meta |-> store[order[i]].meta]]

\* Reads the metadata of every release; one that does not decode is an error, one that is not there is not.
ReadReleases(p) ==
    /\ At(p, "index")
    /\ \A v \in Releases : store[v] # Absent => store[v].meta # Torn
    /\ proc' = [proc EXCEPT ![p].list = Listing, ![p].step = "createIndex"]
    /\ UNCHANGED <<builds, store, index, served, linked, started, hurt, tidy>>

CreateIndex(p) ==
    /\ At(p, "createIndex")
    /\ index' = Torn
    /\ GoTo(p, "encodeIndex")
    /\ UNCHANGED <<builds, store, served, linked, started, hurt, tidy>>

EncodeIndex(p) ==
    /\ At(p, "encodeIndex")
    /\ index' = proc[p].list
    /\ GoTo(p, "signIndex")
    /\ UNCHANGED <<builds, store, served, linked, started, hurt, tidy>>

\* Mutant: the index is not signed again.
SignIndexLost(p) ==
    /\ At(p, "signIndex")
    /\ tidy' = proc[p].alone /\ proc' = [proc EXCEPT ![p] = Idle]
    /\ UNCHANGED <<builds, store, index, served, linked, started, hurt>>

\* The command ends here; what is missing of a release that is not listed matters no more.
SignIndex(p) ==
    /\ At(p, "signIndex")
    /\ served' = index
    /\ tidy' = proc[p].alone /\ proc' = [proc EXCEPT ![p] = Idle]
    /\ hurt' = IF proc[p].alone THEN {h \in hurt : h[1] \in Listed} ELSE hurt
    /\ UNCHANGED <<builds, store, index, linked, started>>

(***************************************************************************)
(* prune                                                                   *)
(***************************************************************************)

\* Mutant: a release is removed as soon as one of its channels has enough of them.
RetainInAll(acc, e, retention) ==
    LET room == {c \in e.meta.channels : acc.kept[c] < retention}
    IN  [kept |-> [c \in Channels |-> IF c \in room THEN acc.kept[c] + 1 ELSE acc.kept[c]],
         doomed |-> IF room # e.meta.channels \/ room = {} THEN Append(acc.doomed, e.version) ELSE acc.doomed]

\* Counts a release for each channel that has room for it; without any it is to be removed.
Retain(acc, e, retention) ==
    LET room == {c \in e.meta.channels : acc.kept[c] < retention}
    IN  [kept |-> [c \in Channels |-> IF c \in room THEN acc.kept[c] + 1 ELSE acc.kept[c]],
         doomed |-> IF room = {} THEN Append(acc.doomed, e.version) ELSE acc.doomed]

\* Goes down the index and counts the releases kept for each channel.
Unused(list, retention) ==
    LET after[i \in 0 .. Len(list)] ==
            IF i = 0 THEN [kept |-> [c \in Channels |-> 0], doomed |-> <<>>] ELSE Retain(after[i - 1], list[i], retention)
    IN  after[Len(list)].doomed

Prune(p, n) ==
    /\ index \notin {Absent, Torn}
    /\ Begin(p, [Command("prune", 0, "", Absent, "prune") EXCEPT
                    !.list = index, !.doomed = Unused(index, n)])
    /\ UNCHANGED <<builds, store, index, served, hurt>>

\* Of a release there is left what is said, or nothing; a file that was open and is removed is no
\* more the one in the directory.
RemoveRelease(v, left) ==
    /\ store' = [store EXCEPT ![v] = left]
    /\ hurt' = hurt \cup ({v} \X (Made(v).files \ (IF left = Absent THEN {} ELSE left.files)))
    /\ linked' = IF left = Absent \/ left.meta = Absent
                 THEN {q \in linked : proc[q].version # v} ELSE linked

\* RemoveAll of one release; the index that clients read lists it until it is signed again.
RemoveImage(p) ==
    /\ At(p, "prune") /\ proc[p].doomed # <<>>
    /\ RemoveRelease(Head(proc[p].doomed), Absent)
    /\ proc' = [proc EXCEPT ![p].doomed = Tail(@)]
    /\ UNCHANGED <<builds, index, served, started, tidy>>

PruneDone(p) ==
    /\ At(p, "prune") /\ proc[p].doomed = <<>>
    /\ GoTo(p, "index")
    /\ UNCHANGED <<builds, store, index, served, linked, started, hurt, tidy>>

\* A command fails or is killed: nothing it did is taken back. A removal may be cut short.
Stop(p) ==
    /\ proc[p] # Idle
    /\ proc' = [proc EXCEPT ![p] = Idle]
    /\ \/ linked' = linked \ {p} /\ UNCHANGED <<store, hurt>>
       \/ /\ At(p, "prune") /\ proc[p].doomed # <<>> /\ store[Head(proc[p].doomed)] # Absent
          /\ LET v == Head(proc[p].doomed)
             IN  \E F \in SUBSET store[v].files, m \in {Absent, store[v].meta} :
                    RemoveRelease(v, [files |-> F, meta |-> m, signed |-> Absent])
    /\ UNCHANGED <<builds, index, served, started, tidy>>

Run(p) ==
    \/ \E v \in Releases, remote \in BOOLEAN : Sync(p, v, remote)
    \/ \E v \in Releases, c \in Channels : Promote(p, v, c) \/ Demote(p, v, c)
    \/ \E v \in Releases, s \in Severities : Severity(p, v, s)
    \/ \E n \in Retentions : Prune(p, n)
    \/ DownloadImage(p) \/ GenerateChangelog(p) \/ RemoveChangelog(p)
    \/ TruncateMeta(p) \/ EncodeMeta(p) \/ SignMeta(p)
    \/ ReadReleases(p) \/ CreateIndex(p) \/ EncodeIndex(p) \/ SignIndex(p)
    \/ RemoveImage(p) \/ PruneDone(p) \/ Stop(p)

PublisherNext == Build \/ \E p \in Publishers : Run(p)

PublisherSpec == PublisherInit /\ [][PublisherNext]_publisherVars

(***************************************************************************)
(* Properties                                                              *)
(***************************************************************************)

\* generateIndex, at the end of every command: whatever failed or was cut short before it, a
\* command that ran alone to its end leaves a signed index that lists, newest first, exactly
\* the releases that have metadata, and says of them what their update.json says.
IndexHeals ==
    tidy => served = index /\ served = Listing

\* sync writes update.json after every file of the release is there, demote forgets the
\* changelog it removes, promote writes it first, prune lists anew what it has left (main_prune.go):
\* clients are sent to an image that is not there only when a prune has begun to remove that
\* very release and no index without it is signed. Once the last command has ended and ran
\* alone, every release listed has its metadata, and images and changelogs are all there but
\* those that a prune or a demotion took away which was cut short or ran beside another command.
ListedFilesThere ==
    served \notin {Absent, Torn} => \A i \in DOMAIN served :
        LET v == served[i].version
            there == Made(v).files \cup {f \in Files : <<v, f>> \in hurt}
        IN  Archs \subseteq there /\ (tidy => Decodes(v) /\ served[i].meta.files \subseteq there)

\* prune's countdown over the index (main_prune.go) removes exactly the releases that are in
\* none of their channels among the newest ones the retention asks for.
PruneKeepsNewest ==
    index \notin {Absent, Torn} => \A n \in Retentions, i \in DOMAIN index :
        index[i].version \in Range(Unused(index, n)) <=>
            \A c \in index[i].meta.channels :
                Cardinality({j \in DOMAIN index : index[j].version > index[i].version
                                                  /\ c \in index[j].meta.channels}) >= n
=============================================================================
