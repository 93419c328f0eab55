----------------------------- MODULE FactoryReset -----------------------------
(***************************************************************************)
(* A factory reset writes the seed partition, clears the TPM and deletes   *)
(* the swap, root and local-data partitions one by one; then the system    *)
(* is reset. Every command may fail, the power may be lost, and a reset    *)
(* that failed may be requested again with other seeds.                    *)
(*                                                                         *)
(* The archive is written in place, over the one that is there: a write    *)
(* that did not end leaves what the next reader may refuse, or may take    *)
(* for an archive of new entries followed by old ones. A seed file is its  *)
(* name, its extension and where its content is from: a request, or Torn   *)
(* for one that was written only in part.                                  *)
(***************************************************************************)
EXTENDS Integers, Sequences, FiniteSets

CONSTANTS
    SeedNames,  \* names of seeds
    MaxResets   \* how many resets are requested

ASSUME ResetAssumption == MaxResets \in Nat /\ "incus" \in SeedNames

Extensions == {".json", ".yaml", ".yml"}
SystemPartitions == <<9, 10, 11>>
SeedFile(n, ext, from) == [name |-> n, ext |-> ext, from |-> from]
Torn == -1

VARIABLES
    seedFiles,  \* files a reader of the seed partition gets
    seedArchive,\* "whole", "partial" (a write did not end, it can be read), "unreadable"
    seedsMixed, \* whether seeds in the archive were kept from a partial one
    tpmCleared,
    partitions, \* system partitions that exist
    reset,      \* the reset under way: its seeds, the merged ones, those it replaces
    resets

resetVars == <<seedFiles, seedArchive, seedsMixed, tpmCleared, partitions, reset, resets>>

NoReset == [at |-> "idle", given |-> {}, wipe |-> FALSE, allow |-> FALSE, left |-> <<>>, new |-> {}, old |-> {},
            mixed |-> FALSE]
ResetAt(step) == reset.at = step
ResetGo(step) == reset' = [reset EXCEPT !.at = step]
ResetEnds == reset' = NoReset

\* The seeds of the request replace those of the same name, whatever their extension.
MergedSeeds(existing, given, from) ==
    {f \in existing : f.name \notin given \/ f.ext \notin Extensions}
        \cup {SeedFile(n, ".json", from) : n \in given}

\* What a reader of a partly written archive may get, one content for each file name.
Mixes(new, old) ==
    LET torn == {[f EXCEPT !.from = Torn] : f \in new}
    IN  {files \in SUBSET (new \cup old \cup torn) :
            \A f, g \in files : f.name = g.name /\ f.ext = g.ext => f = g}

\* What is on disk when the write, or the system before its next sync, is cut short.
HalfWritten(new, old) ==
    \/ seedArchive' = "unreadable" /\ seedFiles' = {}
    \/ seedArchive' = "partial" /\ seedFiles' \in Mixes(new, old)
---------------------------------------------------------------------------
(* PerformOSFactoryReset *)

\* The request is refused when a seed is not valid, before anything is changed.
ApiSystemFactoryReset(given, wipe, allow) ==
    /\ ResetAt("idle") /\ resets < MaxResets
    /\ resets' = resets + 1
    /\ reset' = [NoReset EXCEPT !.at = "read", !.given = given, !.wipe = wipe, !.allow = allow,
                               !.left = SystemPartitions]
    /\ UNCHANGED <<seedFiles, seedArchive, seedsMixed, tpmCleared, partitions>>

\* getExistingSeeds: whatever the reader accepts is kept, also from a partial archive.
ResetOpenSeed ==
    LET existing == IF reset.wipe THEN {} ELSE seedFiles
    IN  /\ ResetAt("read")
        /\ IF ~reset.wipe /\ seedArchive = "unreadable"
           THEN ResetEnds
           ELSE reset' = [reset EXCEPT !.at = "write", !.old = seedFiles,
                                       !.new = MergedSeeds(existing, reset.given, resets),
                                       !.mixed = ~reset.wipe /\ (seedsMixed \/ seedArchive = "partial")]
        /\ UNCHANGED <<seedFiles, seedArchive, seedsMixed, tpmCleared, partitions, resets>>

\* Mutant: an error of the archive is ignored.
ResetWriteAnyway ==
    /\ ResetAt("write")
    /\ ResetGo("tpm")
    /\ \/ seedFiles' = reset.new /\ seedArchive' = "whole" /\ seedsMixed' = reset.mixed
       \/ HalfWritten(reset.new, reset.old) /\ UNCHANGED seedsMixed
    /\ UNCHANGED <<tpmCleared, partitions, resets>>

ResetWriteSeed ==
    /\ ResetAt("write")
    /\ \/ seedFiles' = reset.new /\ seedArchive' = "whole" /\ seedsMixed' = reset.mixed /\ ResetGo("tpm")
       \/ HalfWritten(reset.new, reset.old) /\ ResetEnds /\ UNCHANGED seedsMixed
       \/ ResetEnds /\ UNCHANGED <<seedFiles, seedArchive, seedsMixed>>
    /\ UNCHANGED <<tpmCleared, partitions, resets>>

\* An error may be allowed; the files of a degraded system are removed as well.
ResetClearTPM ==
    /\ ResetAt("tpm")
    /\ \/ tpmCleared' = TRUE /\ ResetGo("partitions")
       \/ reset.allow /\ ResetGo("partitions") /\ UNCHANGED tpmCleared
       \/ ~reset.allow /\ ResetEnds /\ UNCHANGED tpmCleared
    /\ UNCHANGED <<seedFiles, seedArchive, seedsMixed, partitions, resets>>

\* sgdisk fails for a partition that is gone.
ResetDeletePartition ==
    LET p == Head(reset.left)
    IN  /\ ResetAt("partitions")
        /\ IF reset.left = <<>>
           THEN ResetGo("sysrq") /\ UNCHANGED partitions
           ELSE \/ /\ p \in partitions
                   /\ partitions' = partitions \ {p}
                   /\ reset' = [reset EXCEPT !.left = Tail(@)]
                \/ ResetEnds /\ UNCHANGED partitions
        /\ UNCHANGED <<seedFiles, seedArchive, seedsMixed, tpmCleared, resets>>

\* The power is lost, or the reset is done: a system without its partitions sets itself up
\* anew from the seeds; one that has some of them but not the root partition does not start.
\* The seeds are not synced before sgdisk, which syncs all disks, deletes the first partition.
ResetBoot ==
    /\ \/ ResetAt("sysrq")
       \/ ~ResetAt("idle") /\ 10 \in partitions
    /\ ResetEnds
    /\ IF partitions = {}
       THEN partitions' = {9, 10, 11} /\ tpmCleared' = FALSE
       ELSE UNCHANGED <<partitions, tpmCleared>>
    /\ \/ reset.at \in {"write", "tpm", "partitions"} /\ 9 \in partitions /\ HalfWritten(reset.new, reset.old)
       \/ UNCHANGED <<seedFiles, seedArchive>>
    /\ UNCHANGED <<seedsMixed, resets>>

ResetInit ==
    /\ seedFiles \in {{SeedFile("incus", ext, 0), SeedFile("network", ".yaml", 0)} : ext \in Extensions} \cup {{}}
    /\ seedArchive = "whole" /\ seedsMixed = FALSE /\ tpmCleared = FALSE /\ partitions = {9, 10, 11}
    /\ reset = NoReset /\ resets = 0

ResetNext ==
    \/ \E given \in SUBSET SeedNames, wipe, allow \in BOOLEAN : ApiSystemFactoryReset(given, wipe, allow)
    \/ ResetOpenSeed \/ ResetWriteSeed \/ ResetClearTPM \/ ResetDeletePartition \/ ResetBoot

ResetSpec == ResetInit /\ [][ResetNext]_resetVars
---------------------------------------------------------------------------
(* Properties *)

ResetTypeOK ==
    /\ \A files \in {seedFiles, reset.new, reset.old} : \A f \in files :
          f.name \in SeedNames \cup {"network"} /\ f.ext \in Extensions /\ f.from \in Torn .. MaxResets
    /\ seedArchive \in {"whole", "partial", "unreadable"} /\ seedsMixed \in BOOLEAN
    /\ partitions \subseteq {9, 10, 11} /\ tpmCleared \in BOOLEAN

\* A system that lost all of its partitions, which is what makes it set itself up again, has
\* a complete seed partition, in which each seed of the request is the one file of its name:
\* after failed resets, power losses and requests that were repeated. The other seeds are one
\* complete file for each name too, unless seeds were kept that had been in an archive a
\* reset did not finish to write (reset.go:174 reads what is left of it).
ResetSeeded ==
    partitions = {} =>
        /\ seedArchive = "whole"
        /\ \A n \in reset.given : {f \in seedFiles : f.name = n} = {SeedFile(n, ".json", resets)}
        /\ ~seedsMixed => \A f, g \in seedFiles : f.from # Torn /\ (f.name = g.name => f = g)
=============================================================================
