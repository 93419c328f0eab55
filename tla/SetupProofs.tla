----------------------------- MODULE SetupProofs -----------------------------
(***************************************************************************)
(* Proofs about Publisher, Install, NetworkFiles and UpdateSchedule, for   *)
(* any number of processes, releases, commands, disks, seeds,              *)
(* interventions, network configurations and maintenance windows: the      *)
(* index heals, partitions are kept, an installation that is complete      *)
(* starts, the network devices are the right ones, and checks for updates  *)
(* run when they should.                                                   *)
(***************************************************************************)
EXTENDS Publisher, Install, NetworkFiles, UpdateSchedule, TLAPS, FiniteSetTheorems, SequenceTheorems

-----------------------------------------------------------------------------
(* The publisher.                                                          *)

Fields == {"cmd", "version", "channel", "meta", "step", "list", "doomed", "alone"}

\* A process is idle or runs a command.
Processes ==
    /\ DOMAIN proc = Publishers /\ proc = [p \in Publishers |-> proc[p]]
    /\ \A p \in Publishers :
        proc[p] = Idle \/ (proc[p] = [f \in Fields |-> proc[p][f]] /\ proc[p].alone \in BOOLEAN)

Busy(p) == proc[p] # Idle

\* A command that has been alone since it began still is, and what it read of the releases
\* and wrote to the index has not been changed.
AloneKnows ==
    \A p \in Publishers : Busy(p) /\ proc[p].alone =>
        /\ \A q \in Publishers \ {p} : ~Busy(q)
        /\ proc[p].step \in {"createIndex", "encodeIndex", "signIndex"} => proc[p].list = Listing
        /\ proc[p].step = "signIndex" => index = proc[p].list

\* After it, nothing runs.
TidyRests == tidy => \A p \in Publishers : ~Busy(p)

PublisherInv == Processes /\ AloneKnows /\ TidyRests /\ IndexHeals /\ tidy \in BOOLEAN

\* A command that begins is alone only if nothing else runs; the others are not any more.
LEMMA BeginInv ==
    ASSUME PublisherInv, NEW p \in Publishers, NEW c, c = [f \in Fields |-> c[f]],
           c.step \notin {"createIndex", "encodeIndex", "signIndex"}, Begin(p, c)
    PROVE  PublisherInv'
<1> DEFINE first == [c EXCEPT !.alone = \A o \in Publishers : proc[o] = Idle]
           Other(q) == [proc[q] EXCEPT !.alone = FALSE]
<1>1. /\ first = [f \in Fields |-> first[f]] /\ first.step = c.step
      /\ first.alone \in BOOLEAN
      /\ first.alone => \A o \in Publishers : proc[o] = Idle
  BY DEF Fields
<1>2. \A q \in Publishers : proc[q] # Idle =>
          Other(q) = [f \in Fields |-> Other(q)[f]] /\ Other(q).alone = FALSE
  BY DEF PublisherInv, Processes, Fields
<1>3. proc' = [q \in Publishers |-> IF q = p THEN first
                                    ELSE IF proc[q] = Idle THEN Idle ELSE Other(q)]
  BY DEF Begin
<1>4. tidy' = FALSE
  BY DEF Begin
<1> HIDE DEF first, Other
<1>5. proc'[p] = first /\ \A q \in Publishers \ {p} :
          proc'[q] = IF proc[q] = Idle THEN Idle ELSE Other(q)
  BY <1>3
<1>6. Processes'
  BY <1>1, <1>2, <1>3, <1>5 DEF Processes
<1>7. ASSUME NEW q \in Publishers, Busy(q)', proc'[q].alone
      PROVE  /\ \A o \in Publishers \ {q} : ~Busy(o)'
             /\ proc'[q].step \notin {"createIndex", "encodeIndex", "signIndex"}
  <2>1. q = p
    BY <1>2, <1>5, <1>7 DEF Busy
  <2>2. \A o \in Publishers : proc[o] = Idle
    BY <1>1, <1>5, <1>7, <2>1
  <2> QED BY <1>1, <1>5, <2>1, <2>2 DEF Busy
<1>8. AloneKnows'
  BY <1>7 DEF AloneKnows
<1> QED BY <1>4, <1>6, <1>8 DEF PublisherInv, TidyRests, IndexHeals

\* The same for the commands as they are called.
LEMMA CommandInv ==
    ASSUME PublisherInv, NEW p \in Publishers, NEW n, NEW v, NEW c, NEW m,
           NEW s \in {"download", "changelog", "remove", "truncate"}, Begin(p, Command(n, v, c, m, s))
    PROVE  PublisherInv'
<1> DEFINE k == Command(n, v, c, m, s)
<1>1. k = [f \in Fields |-> k[f]] /\ k.step = s
  BY DEF Command, Fields
<1>2. Begin(p, k)
  OBVIOUS
<1> HIDE DEF k
<1>3. k.step \notin {"createIndex", "encodeIndex", "signIndex"}
  BY <1>1
<1> QED BY <1>1, <1>2, <1>3, BeginInv

\* One process takes a step of its command; what it may do to the releases and the index
\* follows from where it is.
LEMMA StepOfCommand ==
    ASSUME PublisherInv, NEW p \in Publishers, Busy(p), NEW r, r = [f \in Fields |-> r[f]],
           proc' = [proc EXCEPT ![p] = r], r.alone = proc[p].alone, tidy' = tidy,
           r.alone =>
             /\ r.step \in {"createIndex", "encodeIndex", "signIndex"} => r.list = Listing'
             /\ r.step = "signIndex" => index' = r.list
    PROVE  PublisherInv'
<1>1. ~tidy
  BY DEF PublisherInv, TidyRests
<1>2. proc'[p] = r /\ \A q \in Publishers \ {p} : proc'[q] = proc[q]
  BY DEF PublisherInv, Processes
<1>3. r.alone \in BOOLEAN
  BY DEF PublisherInv, Processes, Busy
<1>4. Processes'
  BY <1>2, <1>3 DEF PublisherInv, Processes
<1>5. AloneKnows'
  <2> SUFFICES ASSUME NEW q \in Publishers, Busy(q)', proc'[q].alone
               PROVE  /\ \A o \in Publishers \ {q} : ~Busy(o)'
                      /\ proc'[q].step \in {"createIndex", "encodeIndex", "signIndex"} =>
                            proc'[q].list = Listing'
                      /\ proc'[q].step = "signIndex" => index' = proc'[q].list
    BY DEF AloneKnows
  <2>1. CASE q = p
    <3>1. \A o \in Publishers \ {p} : ~Busy(o)
      BY <1>2, <2>1 DEF PublisherInv, AloneKnows
    <3>2. \A o \in Publishers \ {p} : ~Busy(o)'
      BY <1>2, <3>1 DEF Busy
    <3> QED BY <1>2, <2>1, <3>2
  <2>2. CASE q # p
    <3>1. proc'[q] = proc[q] /\ Busy(q)
      BY <1>2, <2>2 DEF Busy
    <3> QED BY <2>2, <3>1 DEF PublisherInv, AloneKnows
  <2> QED BY <2>1, <2>2
<1> QED BY <1>1, <1>4, <1>5 DEF PublisherInv, TidyRests, IndexHeals

\* A command that ends, in any way, does not disturb the others.
LEMMA EndOfCommand ==
    ASSUME PublisherInv, NEW p \in Publishers, Busy(p), proc' = [proc EXCEPT ![p] = Idle],
           tidy' \in BOOLEAN,
           tidy' => proc[p].alone /\ served' = index' /\ index' = Listing'
    PROVE  PublisherInv'
<1>2. proc'[p] = Idle /\ \A q \in Publishers \ {p} : proc'[q] = proc[q]
  BY DEF PublisherInv, Processes
<1>4. Processes'
  BY <1>2 DEF PublisherInv, Processes
<1>5. \A q \in Publishers : Busy(q)' => q # p /\ Busy(q) /\ ~proc[q].alone /\ ~proc'[q].alone
  BY <1>2 DEF Busy, PublisherInv, AloneKnows
<1>6. AloneKnows'
  BY <1>5 DEF AloneKnows
<1>7. TidyRests'
  BY <1>2 DEF TidyRests, Busy, PublisherInv, AloneKnows
<1> QED BY <1>4, <1>6, <1>7 DEF PublisherInv, IndexHeals

\* The tree is empty or holds a release that is indexed; no command has run.
LEMMA PublisherInitInv == ASSUME PublisherInit PROVE PublisherInv
BY DEF PublisherInit, PublisherInv, Processes, AloneKnows, TidyRests, IndexHeals, Busy

\* Every step of every command keeps the invariant.
LEMMA RunInv == ASSUME PublisherInv, NEW p \in Publishers, Run(p) PROVE PublisherInv'
<1>f. ASSUME Busy(p) PROVE proc[p] = [f \in Fields |-> proc[p][f]] /\ proc[p].alone \in BOOLEAN
  BY <1>f DEF PublisherInv, Processes, Busy
<1>g. ASSUME NEW s PROVE [proc EXCEPT ![p].step = s] = [proc EXCEPT ![p] = [proc[p] EXCEPT !.step = s]]
  OBVIOUS
<1>1. CASE \E v \in Releases, remote \in BOOLEAN : Sync(p, v, remote)
  BY <1>1, CommandInv DEF Sync
<1>2. CASE \E v \in Releases, c \in Channels : Promote(p, v, c) \/ Demote(p, v, c)
  <2>1. PICK v \in Releases, c \in Channels : Promote(p, v, c) \/ Demote(p, v, c)
    BY <1>2
  <2>2. CASE Promote(p, v, c)
    BY <2>2, CommandInv DEF Promote
  <2>3. CASE Demote(p, v, c)
    <3>1. (IF c \in store[v].meta.files THEN "remove" ELSE "truncate") \in {"remove", "truncate"}
      OBVIOUS
    <3> QED BY <2>3, <3>1, CommandInv DEF Demote
  <2> QED BY <2>1, <2>2, <2>3
<1>3. CASE \E v \in Releases, s \in Severities : Severity(p, v, s)
  BY <1>3, CommandInv DEF Severity
<1>4. CASE \E n \in Retentions : Prune(p, n)
  <2>1. PICK n \in Retentions :
            Begin(p, [Command("prune", 0, "", Absent, "prune") EXCEPT
                        !.list = index, !.doomed = Unused(index, n)])
    BY <1>4 DEF Prune
  <2> DEFINE c == [Command("prune", 0, "", Absent, "prune") EXCEPT
                        !.list = index, !.doomed = Unused(index, n)]
  <2>2. c = [f \in Fields |-> c[f]] /\ c.step = "prune"
    BY DEF Command, Fields
  <2> HIDE DEF c
  <2> QED BY <2>1, <2>2, BeginInv DEF c
<1>5. CASE DownloadImage(p)
  <2>0. Busy(p) /\ tidy' = tidy
    BY <1>5 DEF DownloadImage, At, Busy
  <2>1. CASE GoTo(p, "changelog")
    <3> DEFINE r == [proc[p] EXCEPT !.step = "changelog"]
    <3>1. r = [f \in Fields |-> r[f]] /\ r.alone = proc[p].alone /\ r.step = "changelog"
      BY <1>f, <2>0 DEF Fields
    <3>2. proc' = [proc EXCEPT ![p] = r]
      BY <1>g, <2>1 DEF GoTo
    <3> QED BY <2>0, <3>1, <3>2, StepOfCommand
  <2>2. CASE \E a \in Archs : ExtractImage(p, proc[p].version, a)
    <3>1. PICK a \in Archs : proc' = [proc EXCEPT ![p].meta.files = @ \cup {a}]
      BY <2>2 DEF ExtractImage
    <3> DEFINE r == [proc[p] EXCEPT !.meta = [proc[p].meta EXCEPT !.files = @ \cup {a}]]
    <3>2. r = [f \in Fields |-> r[f]] /\ r.alone = proc[p].alone /\ r.step = "download"
      BY <1>5, <1>f, <2>0 DEF Fields, DownloadImage, At
    <3>3. proc' = [proc EXCEPT ![p] = r]
      BY <3>1
    <3> QED BY <2>0, <3>2, <3>3, StepOfCommand
  <2> QED BY <1>5, <2>1, <2>2 DEF DownloadImage
<1>6. ASSUME NEW s \in {"truncate", "encode", "sign", "index"}, GoTo(p, s), Busy(p), tidy' = tidy
      PROVE  PublisherInv'
  <2> DEFINE r == [proc[p] EXCEPT !.step = s]
  <2>1. r = [f \in Fields |-> r[f]] /\ r.alone = proc[p].alone /\ r.step = s
    BY <1>6, <1>f DEF Fields
  <2>2. proc' = [proc EXCEPT ![p] = r]
    BY <1>6, <1>g DEF GoTo
  <2>3. r.step \notin {"createIndex", "encodeIndex", "signIndex"}
    BY <2>1
  <2> HIDE DEF r
  <2> QED BY <1>6, <2>1, <2>2, <2>3, StepOfCommand
<1>7. CASE GenerateChangelog(p)
  <2>0. Busy(p) /\ tidy' = tidy
    BY <1>7 DEF GenerateChangelog, At, Busy
  <2> DEFINE c == proc[p].channel
             r == [proc[p] EXCEPT !.meta = [proc[p].meta EXCEPT !.files = @ \cup {c}],
                                  !.step = "truncate"]
  <2>1. proc' = [proc EXCEPT ![p] = r]
    BY <1>7 DEF GenerateChangelog
  <2>2. r = [f \in Fields |-> r[f]] /\ r.alone = proc[p].alone /\ r.step = "truncate"
    BY <1>f, <2>0 DEF Fields
  <2> HIDE DEF r
  <2> QED BY <2>0, <2>1, <2>2, StepOfCommand
<1>8. CASE RemoveChangelog(p) \/ TruncateMeta(p) \/ EncodeMeta(p) \/ SignMeta(p) \/ PruneDone(p)
  BY <1>6, <1>8 DEF RemoveChangelog, TruncateMeta, EncodeMeta, SignMeta, PruneDone, At, Busy
<1>9. CASE ReadReleases(p)
  <2>0. Busy(p) /\ UNCHANGED <<store, tidy>>
    BY <1>9 DEF ReadReleases, At, Busy
  <2> DEFINE r == [proc[p] EXCEPT !.list = Listing, !.step = "createIndex"]
  <2>1. proc' = [proc EXCEPT ![p] = r]
    BY <1>9 DEF ReadReleases
  <2>2. /\ r = [f \in Fields |-> r[f]] /\ r.alone = proc[p].alone /\ r.step = "createIndex"
        /\ r.list = Listing
    BY <1>f, <2>0 DEF Fields
  <2>3. Listing' = Listing
    BY <2>0 DEF Listing, Listed, Decodes, NewestFirst
  <2> HIDE DEF r
  <2> QED BY <2>0, <2>1, <2>2, <2>3, StepOfCommand
<1>10. CASE CreateIndex(p) \/ EncodeIndex(p)
  <2>0. Busy(p) /\ UNCHANGED <<store, tidy>>
    BY <1>10 DEF CreateIndex, EncodeIndex, At, Busy
  <2>1. PICK s \in {"encodeIndex", "signIndex"} :
            GoTo(p, s) /\ (s = "signIndex" => index' = proc[p].list)
    BY <1>10 DEF CreateIndex, EncodeIndex
  <2>2. proc[p].step \in {"createIndex", "encodeIndex"}
    BY <1>10 DEF CreateIndex, EncodeIndex, At
  <2> DEFINE r == [proc[p] EXCEPT !.step = s]
  <2>3. proc' = [proc EXCEPT ![p] = r]
    BY <2>1, <1>g DEF GoTo
  <2>4. /\ r = [f \in Fields |-> r[f]] /\ r.alone = proc[p].alone /\ r.step = s
        /\ r.list = proc[p].list
    BY <1>f, <2>0 DEF Fields
  <2>5. Listing' = Listing
    BY <2>0 DEF Listing, Listed, Decodes, NewestFirst
  <2>6. proc[p].alone => proc[p].list = Listing
    BY <2>0, <2>2 DEF PublisherInv, AloneKnows
  <2> HIDE DEF r
  <2> QED BY <2>0, <2>1, <2>3, <2>4, <2>5, <2>6, StepOfCommand
<1>11. CASE SignIndex(p)
  <2>1. /\ Busy(p) /\ proc[p].step = "signIndex" /\ UNCHANGED <<store, index>>
        /\ served' = index /\ tidy' = proc[p].alone /\ proc' = [proc EXCEPT ![p] = Idle]
    BY <1>11 DEF SignIndex, At, Busy
  <2>2. Listing' = Listing
    BY <2>1 DEF Listing, Listed, Decodes, NewestFirst
  <2>3. proc[p].alone => index = Listing
    BY <2>1 DEF PublisherInv, AloneKnows
  <2>4. tidy' \in BOOLEAN
    BY <1>f, <2>1
  <2> QED BY <2>1, <2>2, <2>3, <2>4, EndOfCommand
<1>12. CASE RemoveImage(p)
  <2>0. Busy(p) /\ tidy' = tidy /\ proc[p].step = "prune"
    BY <1>12 DEF RemoveImage, At, Busy
  <2> DEFINE r == [proc[p] EXCEPT !.doomed = Tail(proc[p].doomed)]
  <2>1. proc' = [proc EXCEPT ![p] = r]
    BY <1>12 DEF RemoveImage
  <2>2. r = [f \in Fields |-> r[f]] /\ r.alone = proc[p].alone /\ r.step = "prune"
    BY <1>f, <2>0 DEF Fields
  <2> HIDE DEF r
  <2> QED BY <2>0, <2>1, <2>2, StepOfCommand
<1>13. CASE Stop(p)
  <2>1. Busy(p) /\ tidy' = tidy /\ proc' = [proc EXCEPT ![p] = Idle]
    BY <1>13 DEF Stop, Busy
  <2>2. tidy' = FALSE
    BY <2>1 DEF PublisherInv, TidyRests
  <2> QED BY <2>1, <2>2, EndOfCommand
<1> QED
  BY <1>1, <1>2, <1>3, <1>4, <1>5, <1>7, <1>8, <1>9, <1>10, <1>11, <1>12, <1>13 DEF Run

\* Every step of the publisher keeps the invariant.
LEMMA PublisherStepInv == ASSUME PublisherInv, [PublisherNext]_publisherVars PROVE PublisherInv'
<1>l. UNCHANGED store => Listing' = Listing
  BY DEF Listing, Listed, Decodes, NewestFirst
<1>1. CASE Build \/ UNCHANGED publisherVars
  <2>1. UNCHANGED <<store, index, served, proc, tidy>>
    BY <1>1 DEF Build, publisherVars
  <2> QED
    BY <1>l, <2>1 DEF PublisherInv, Processes, AloneKnows, TidyRests, IndexHeals, Busy
<1> QED BY <1>1, RunInv DEF PublisherNext

\* Whatever failed or was killed before, a command that runs alone to its end leaves a signed
\* index of exactly the releases that have metadata (generateIndex).
THEOREM IndexIsHealed == PublisherSpec => []IndexHeals
<1>1. PublisherInv => IndexHeals
  BY DEF PublisherInv
<1> QED BY <1>1, PublisherInitInv, PublisherStepInv, PTL DEF PublisherSpec

\* A finite set of numbers has a greatest one.
LEMMA FiniteMax ==
    ASSUME NEW S \in SUBSET Nat, IsFiniteSet(S), S # {}
    PROVE  \E m \in S : \A w \in S : w <= m
<1> DEFINE HasMax(T) == \E m \in T : \A w \in T : w <= m
           Bad == {T \in SUBSET S : T # {} /\ ~HasMax(T)}
           Less == StrictSubsetOrdering(S)
<1>1. IsWellFoundedOn(Less, FiniteSubsetsOf(S)) /\ FiniteSubsetsOf(S) = SUBSET S
  BY FS_StrictSubsetOrderingWellFounded, FS_FiniteSubsetsOfFinite
<1>2. Bad # {} => \E T \in Bad : \A U \in Bad : ~(<<U, T>> \in Less)
  <2>1. Bad \subseteq FiniteSubsetsOf(S)
    BY <1>1
  <2> HIDE DEF Bad, Less
  <2> QED BY <1>1, <2>1, WFMin
<1>3. ASSUME NEW T \in Bad PROVE \E U \in Bad : <<U, T>> \in Less
  <2>1. PICK x \in T : TRUE
    OBVIOUS
  <2> DEFINE U == T \ {x}
  <2>2. U \in SUBSET S /\ <<U, T>> \in Less
    BY <2>1 DEF StrictSubsetOrdering
  <2>3. U # {}
    <3> SUFFICES ASSUME U = {} PROVE FALSE
      OBVIOUS
    <3>1. x \in Nat /\ \A w \in T : w = x
      BY <2>1
    <3> QED BY <2>1, <3>1
  <2>4. ~HasMax(U)
    <3> SUFFICES ASSUME NEW m \in U, \A w \in U : w <= m PROVE FALSE
      OBVIOUS
    <3>1. m \in Nat /\ x \in Nat /\ m \in T /\ \A w \in T : w \in Nat /\ (w = x \/ w <= m)
      BY <2>1
    <3>2. CASE x <= m
      <4>1. \A w \in T : w <= m
        BY <3>1, <3>2
      <4> QED BY <3>1, <4>1
    <3>3. CASE m <= x
      <4>1. \A w \in T : w <= x
        BY <3>1, <3>3
      <4> QED BY <2>1, <4>1
    <3> QED BY <3>1, <3>2, <3>3
  <2> QED BY <2>2, <2>3, <2>4
<1>4. S \notin Bad
  BY <1>2, <1>3
<1> QED BY <1>4

\* Below the greatest numbers of a set comes the next one.
LEMMA NextRank ==
    ASSUME NEW S \in SUBSET Nat, IsFiniteSet(S), NEW B \in SUBSET S, B # S, \A u \in S \ B, w \in B : u < w
    PROVE  \E v \in S : Cardinality({w \in S : w >= v}) = Cardinality(B) + 1
<1> DEFINE T == S \ B
<1>1. T \in SUBSET Nat /\ T \in SUBSET S /\ T # {} /\ IsFiniteSet(B) /\ IsFiniteSet(T)
  BY FS_Subset
<1> HIDE DEF T
<1>2. PICK m \in T : \A w \in T : w <= m
  BY <1>1, FiniteMax
<1> USE DEF T
<1>3. m \in S /\ m \notin B /\ m \in Nat
  OBVIOUS
<1>4. \A w \in S : w >= m <=> w \in B \cup {m}
  <2> SUFFICES ASSUME NEW w \in S PROVE w >= m <=> w \in B \cup {m}
    OBVIOUS
  <2>1. CASE w \in B
    BY <1>3, <2>1
  <2>2. CASE w \notin B
    <3>1. w <= m /\ w \in Nat
      BY <1>2, <2>2
    <3> QED BY <1>3, <2>2, <3>1
  <2> QED BY <2>1, <2>2
<1>5. {w \in S : w >= m} = B \cup {m}
  BY <1>3, <1>4
<1>6. Cardinality(B \cup {m}) = Cardinality(B) + 1
  BY <1>1, <1>3, FS_AddElement
<1> QED BY <1>3, <1>5, <1>6

\* Every rank up to the size of a finite set of numbers is that of one of them.
LEMMA Ranked ==
    ASSUME NEW S \in SUBSET Nat, IsFiniteSet(S), NEW i \in 1 .. Cardinality(S)
    PROVE  \E v \in S : Cardinality({w \in S : w >= v}) = i
<1> DEFINE Up(v) == {w \in S : w >= v}
           Bad == {j \in 1 .. Cardinality(S) : ~\E v \in S : Cardinality(Up(v)) = j}
           Less == OpToRel(<, Nat)
<1>1. Cardinality(S) \in Nat
  BY FS_CardinalityType
<1>2. Bad # {} => \E j \in Bad : \A k \in Bad : ~(<<k, j>> \in Less)
  <2>1. Bad \subseteq Nat
    BY <1>1
  <2> HIDE DEF Bad
  <2> QED BY <2>1, WFMin, NatLessThanWellFounded
<1>3. 1 \notin Bad
  <2> SUFFICES ASSUME 1 \in Bad PROVE FALSE
    OBVIOUS
  <2>1. S # {} /\ Cardinality({}) = 0
    BY <1>1, FS_EmptySet
  <2>2. {} \in SUBSET S
    OBVIOUS
  <2>3. \E v \in S : Cardinality(Up(v)) = 0 + 1
    BY <2>1, <2>2, NextRank
  <2> QED BY <2>3
<1>4. ASSUME NEW j \in Bad, j # 1 PROVE j - 1 \in Bad /\ <<j - 1, j>> \in Less
  <2>1. j \in Nat /\ j - 1 \in 1 .. Cardinality(S) /\ j - 1 < j /\ j - 1 \in Nat /\ j <= Cardinality(S)
    BY <1>1, <1>4
  <2>2. ASSUME NEW v \in S, Cardinality(Up(v)) = j - 1 PROVE FALSE
    <3>1. Up(v) # S
      <4>1. Up(v) = S => Cardinality(S) = j - 1
        BY <2>2
      <4> HIDE DEF Up
      <4> QED BY <1>1, <2>1, <4>1
    <3>2. Up(v) \in SUBSET S /\ \A u \in S \ Up(v), w \in Up(v) : u < w
      OBVIOUS
    <3>3. \E x \in S : Cardinality(Up(x)) = Cardinality(Up(v)) + 1
      <4> DEFINE B == Up(v)
      <4>1. B \in SUBSET S /\ B # S /\ \A u \in S \ B, w \in B : u < w
        BY <3>1, <3>2
      <4> HIDE DEF B
      <4>2. \E x \in S : Cardinality({w \in S : w >= x}) = Cardinality(B) + 1
        BY <4>1, NextRank
      <4> QED BY <4>2 DEF B
    <3>4. \E x \in S : Cardinality(Up(x)) = j
      BY <2>1, <2>2, <3>3
    <3> QED BY <3>4
  <2>3. j - 1 \in Bad
    BY <2>1, <2>2
  <2> HIDE DEF Bad
  <2> QED BY <2>1, <2>3 DEF OpToRel
<1>5. Bad = {}
  BY <1>2, <1>3, <1>4
<1> QED BY <1>5

\* The entries of an index with a channel, up to one of them.
Among(list, c, i) == {j \in 1 .. i : c \in list[j].meta.channels}

\* What the countdown has found after each entry.
Countdown(list, n, after) ==
    after = [i \in 0 .. Len(list) |->
                IF i = 0 THEN [kept |-> [c \in Channels |-> 0], doomed |-> <<>>] ELSE Retain(after[i - 1], list[i], n)]

\* An index in order: releases with their metadata, the newest first.
InOrder(l) == l \in Seq(Entry) /\ \A i, j \in DOMAIN l : i < j => l[i].version > l[j].version

\* The countdown is defined for every index: a definition that holds up to an entry extends to the next.
LEMMA CountdownDefined ==
    ASSUME NEW list, Len(list) \in Nat, NEW n
    PROVE  \E after : Countdown(list, n, after) /\ Unused(list, n) = after[Len(list)].doomed
<1> DEFINE Nothing == [kept |-> [c \in Channels |-> 0], doomed |-> <<>>]
           Next1(a, i) == Retain(a, list[i], n)
           Upto(m, f) == f = [i \in 0 .. m |-> IF i = 0 THEN Nothing ELSE Next1(f[i - 1], i)]
           Bad == {m \in Nat : ~\E f : Upto(m, f)}
           Less == OpToRel(<, Nat)
<1> HIDE DEF Nothing, Next1
<1>1. Bad # {} => \E m \in Bad : \A k \in Bad : ~(<<k, m>> \in Less)
  <2>1. Bad \subseteq Nat
    OBVIOUS
  <2> HIDE DEF Bad
  <2> QED BY <2>1, WFMin, NatLessThanWellFounded
<1>2. 0 \notin Bad
  <2> DEFINE f == [i \in 0 .. 0 |-> Nothing]
  <2>1. f = [i \in 0 .. 0 |-> IF i = 0 THEN Nothing ELSE Next1(f[i - 1], i)]
    OBVIOUS
  <2> QED BY <2>1
<1>3. ASSUME NEW m \in Nat \ {0}, NEW f, Upto(m - 1, f) PROVE \E g : Upto(m, g)
  <2> DEFINE g == [i \in 0 .. m |-> IF i = m THEN Next1(f[m - 1], m) ELSE f[i]]
  <2>1. \A i \in 0 .. m - 1 : f[i] = (IF i = 0 THEN Nothing ELSE Next1(f[i - 1], i)) /\ g[i] = f[i]
    BY <1>3
  <2>2. \A i \in 0 .. m : g[i] = IF i = 0 THEN Nothing ELSE Next1(g[i - 1], i)
    <3> SUFFICES ASSUME NEW i \in 0 .. m PROVE g[i] = IF i = 0 THEN Nothing ELSE Next1(g[i - 1], i)
      OBVIOUS
    <3>1. CASE i = m
      <4>1. g[m] = Next1(f[m - 1], m) /\ g[m - 1] = f[m - 1] /\ m # 0
        BY <2>1
      <4> QED BY <3>1, <4>1
    <3>2. CASE i # m /\ i # 0
      <4>1. i \in 0 .. m - 1 /\ i - 1 \in 0 .. m - 1
        BY <3>2
      <4> HIDE DEF g
      <4> QED BY <2>1, <3>2, <4>1
    <3>3. CASE i # m /\ i = 0
      <4>1. i \in 0 .. m - 1
        BY <3>3
      <4> HIDE DEF g
      <4> QED BY <2>1, <3>3, <4>1
    <3> QED BY <3>1, <3>2, <3>3
  <2>3. g = [i \in 0 .. m |-> g[i]]
    OBVIOUS
  <2> HIDE DEF g
  <2>4. Upto(m, g)
    BY <2>2, <2>3
  <2> QED BY <2>4
<1>4. ASSUME NEW m \in Bad, m # 0 PROVE m - 1 \in Bad /\ <<m - 1, m>> \in Less
  <2>1. m \in Nat \ {0} /\ m - 1 \in Nat /\ m - 1 < m
    BY <1>4
  <2>2. ~\E f : Upto(m - 1, f)
    <3> HIDE DEF Upto
    <3> QED BY <1>3, <2>1
  <2> HIDE DEF Upto
  <2> QED BY <2>1, <2>2 DEF OpToRel
<1>5. Bad = {}
  <2> HIDE DEF Bad
  <2> QED BY <1>1, <1>2, <1>4
<1>6. \E f : Upto(Len(list), f)
  <2> HIDE DEF Upto
  <2> QED BY <1>5
<1>7. Upto(Len(list), CHOOSE f : Upto(Len(list), f))
  BY <1>6
<1> DEFINE after == CHOOSE f : Upto(Len(list), f)
<1>8. Countdown(list, n, after)
  BY <1>7 DEF Countdown, Nothing, Next1
<1>9. Unused(list, n) = after[Len(list)].doomed
  BY DEF Unused, Nothing, Next1
<1> QED BY <1>8, <1>9

\* What has been counted: of the releases in a channel as many as there are or as the retention
\* asks for, and to be removed those that came after enough of them in each of their channels.
Counted(list, n, acc, i) ==
    /\ acc = [kept |-> acc.kept, doomed |-> acc.doomed]
    /\ acc.kept \in [Channels -> Nat]
    /\ \A c \in Channels :
        LET k == Cardinality(Among(list, c, i))
        IN  acc.kept[c] = IF k < n THEN k ELSE IF n > 0 THEN n ELSE 0
    /\ acc.doomed \in Seq(Releases)
    /\ \A v : v \in Range(acc.doomed) <=>
        \E j \in 1 .. i : v = list[j].version /\ \A c \in list[j].meta.channels : Cardinality(Among(list, c, j - 1)) >= n

\* The entries with a channel are finitely many, and the next entry adds one or none.
LEMMA AmongNext ==
    ASSUME NEW list, NEW c, NEW i \in Nat \ {0}
    PROVE  /\ Cardinality(Among(list, c, i - 1)) \in Nat /\ Cardinality(Among(list, c, 0)) = 0
           /\ Cardinality(Among(list, c, i)) =
                Cardinality(Among(list, c, i - 1)) + IF c \in list[i].meta.channels THEN 1 ELSE 0
<1>1. IsFiniteSet(Among(list, c, i - 1))
  <2>1. IsFiniteSet(1 .. i - 1)
    BY FS_Interval
  <2> QED BY <2>1, FS_Subset DEF Among
<1>2. Among(list, c, 0) = {}
  BY DEF Among
<1>3. Among(list, c, i) = IF c \in list[i].meta.channels THEN Among(list, c, i - 1) \cup {i} ELSE Among(list, c, i - 1)
  BY DEF Among
<1>4. i \notin Among(list, c, i - 1)
  BY DEF Among
<1>5. Cardinality(Among(list, c, i - 1) \cup {i}) = Cardinality(Among(list, c, i - 1)) + 1
  BY <1>1, <1>4, FS_AddElement
<1>6. Cardinality(Among(list, c, i - 1)) \in Nat
  BY <1>1, FS_CardinalityType
<1>7. Cardinality(Among(list, c, 0)) = 0
  BY <1>2, FS_EmptySet
<1>8. CASE c \in list[i].meta.channels
  BY <1>3, <1>5, <1>6, <1>7, <1>8
<1>9. CASE c \notin list[i].meta.channels
  BY <1>3, <1>6, <1>7, <1>9
<1> QED BY <1>8, <1>9

\* One more entry is counted.
LEMMA RetainCounts ==
    ASSUME NEW list \in Seq(Entry), NEW n \in Int, NEW i \in 1 .. Len(list), NEW acc, Counted(list, n, acc, i - 1)
    PROVE  Counted(list, n, Retain(acc, list[i], n), i)
<1> DEFINE e == list[i]
           room == {c \in e.meta.channels : acc.kept[c] < n}
           new == Retain(acc, e, n)
           K(c, j) == Cardinality(Among(list, c, j))
<1>1. e \in Entry /\ e.version \in Releases /\ e.meta.channels \subseteq Channels /\ i \in Nat \ {0}
  <2>1. e \in Entry /\ i \in Nat \ {0}
    OBVIOUS
  <2> HIDE DEF e
  <2> QED BY <2>1 DEF Entry, Meta
<1>2. /\ new = [kept |-> new.kept, doomed |-> new.doomed]
      /\ new.kept = [c \in Channels |-> IF c \in room THEN acc.kept[c] + 1 ELSE acc.kept[c]]
      /\ new.doomed = IF room = {} THEN Append(acc.doomed, e.version) ELSE acc.doomed
  BY DEF Retain
<1>3. \A c \in Channels : /\ K(c, i - 1) \in Nat
                          /\ K(c, i) = K(c, i - 1) + IF c \in e.meta.channels THEN 1 ELSE 0
                          /\ acc.kept[c] = IF K(c, i - 1) < n THEN K(c, i - 1) ELSE IF n > 0 THEN n ELSE 0
  BY <1>1, AmongNext DEF Counted
<1>4. acc.kept \in [Channels -> Nat] /\ acc.doomed \in Seq(Releases)
  BY DEF Counted
<1> HIDE DEF K
<1>5. \A c \in Channels : c \in room <=> c \in e.meta.channels /\ K(c, i - 1) < n
  BY <1>3
<1>6. ASSUME NEW c \in Channels
      PROVE  new.kept[c] = IF K(c, i) < n THEN K(c, i) ELSE IF n > 0 THEN n ELSE 0
  <2>1. new.kept[c] = IF c \in room THEN acc.kept[c] + 1 ELSE acc.kept[c]
    BY <1>2
  <2> HIDE DEF new, room
  <2> QED BY <1>3, <1>5, <2>1
<1>7. new.kept \in [Channels -> Nat]
  <2> HIDE DEF room, new
  <2> QED BY <1>2, <1>4
<1>8. room = {} <=> \A c \in e.meta.channels : K(c, i - 1) >= n
  <2>1. \A c \in e.meta.channels : K(c, i - 1) \in Nat
    BY <1>1, <1>3
  <2>2. \A c \in e.meta.channels : c \in room <=> K(c, i - 1) < n
    BY <1>1, <1>5
  <2>3. \A c : c \in room => c \in e.meta.channels
    OBVIOUS
  <2> HIDE DEF room, e
  <2> QED BY <2>1, <2>2, <2>3
<1>9. \A v : v \in Range(Append(acc.doomed, e.version)) <=> v \in Range(acc.doomed) \/ v = e.version
  <2> DEFINE s == acc.doomed  t == Append(s, e.version)
  <2>1. /\ s \in Seq(Releases) /\ Len(s) \in Nat /\ DOMAIN s = 1 .. Len(s)
        /\ DOMAIN t = 1 .. Len(s) + 1 /\ t[Len(s) + 1] = e.version
        /\ \A j \in 1 .. Len(s) : t[j] = s[j]
    BY <1>1, <1>4
  <2> HIDE DEF s, t
  <2>2. \A v : (\E j \in DOMAIN t : v = t[j]) <=> (\E j \in DOMAIN s : v = s[j]) \/ v = e.version
    BY <2>1
  <2> QED BY <2>2 DEF Range, s, t
<1>10. new.doomed \in Seq(Releases)
  BY <1>1, <1>2, <1>4
<1> DEFINE Enough(j) == \A c \in list[j].meta.channels : K(c, j - 1) >= n
<1>11. \A v : v \in Range(acc.doomed) <=> \E j \in 1 .. i - 1 : v = list[j].version /\ Enough(j)
  BY DEF Counted, K
<1>12. \A v : v \in Range(new.doomed) <=> v \in Range(acc.doomed) \/ (v = e.version /\ Enough(i))
  <2> HIDE DEF new, room, Enough
  <2>1. room = {} <=> Enough(i)
    BY <1>8 DEF Enough
  <2> QED BY <1>2, <1>9, <2>1
<1>13. \A v : v \in Range(new.doomed) <=> \E j \in 1 .. i : v = list[j].version /\ Enough(j)
  <2> HIDE DEF new, Enough
  <2>1. \A j : j \in 1 .. i <=> j \in 1 .. i - 1 \/ j = i
    BY <1>1
  <2> QED BY <1>11, <1>12, <2>1
<1> HIDE DEF new
<1> QED BY <1>2, <1>6, <1>7, <1>10, <1>13 DEF Counted, K, new

\* The countdown is right after every entry.
LEMMA CountdownRight ==
    ASSUME NEW list \in Seq(Entry), NEW n \in Int, NEW after, Countdown(list, n, after)
    PROVE  Counted(list, n, after[Len(list)], Len(list))
<1> DEFINE Good(i) == Counted(list, n, after[i], i)
           Bad == {i \in 0 .. Len(list) : ~Good(i)}
           Less == OpToRel(<, Nat)
<1>1. Len(list) \in Nat
  OBVIOUS
<1>2. Bad # {} => \E m \in Bad : \A k \in Bad : ~(<<k, m>> \in Less)
  <2>1. Bad \subseteq Nat
    BY <1>1
  <2> HIDE DEF Bad
  <2> QED BY <2>1, WFMin, NatLessThanWellFounded
<1>3. \A i \in 0 .. Len(list) : after[i] =
        IF i = 0 THEN [kept |-> [c \in Channels |-> 0], doomed |-> <<>>] ELSE Retain(after[i - 1], list[i], n)
  BY DEF Countdown
<1>4. Good(0)
  <2> DEFINE first == [kept |-> [c \in Channels |-> 0], doomed |-> <<>>]
  <2>1. after[0] = first
    BY <1>1, <1>3
  <2>2. \A c : Cardinality(Among(list, c, 0)) = 0
    <3>1. 1 \in Nat \ {0}
      OBVIOUS
    <3> QED BY <3>1, AmongNext
  <2>3. Range(<<>>) = {} /\ 1 .. 0 = {}
    BY DEF Range
  <2> QED BY <2>1, <2>2, <2>3 DEF Counted
<1>5. ASSUME NEW m \in Bad PROVE m - 1 \in Bad /\ <<m - 1, m>> \in Less
  <2>1. m # 0
    BY <1>4
  <2>2. m \in 1 .. Len(list) /\ m - 1 \in 0 .. Len(list) /\ m - 1 < m /\ m \in Nat /\ m - 1 \in Nat
    BY <1>1, <2>1
  <2>3. after[m] = Retain(after[m - 1], list[m], n)
    BY <1>3, <2>1
  <2>4. ~Good(m - 1)
    BY <2>2, <2>3, RetainCounts
  <2> HIDE DEF Good
  <2> QED BY <2>2, <2>4 DEF OpToRel
<1>6. Bad = {}
  <2> HIDE DEF Bad
  <2> QED BY <1>2, <1>5
<1>7. Len(list) \in 0 .. Len(list)
  BY <1>1
<1> HIDE DEF Good
<1>8. Good(Len(list))
  BY <1>6, <1>7
<1> QED BY <1>8 DEF Good

\* Down an index in order, those before an entry are those that are newer.
LEMMA UnusedRight ==
    ASSUME NEW list, InOrder(list), NEW n \in Int, NEW i \in DOMAIN list
    PROVE  list[i].version \in Range(Unused(list, n)) <=>
            \A c \in list[i].meta.channels :
                Cardinality({j \in DOMAIN list : list[j].version > list[i].version
                                                 /\ c \in list[j].meta.channels}) >= n
<1>1. list \in Seq(Entry) /\ Len(list) \in Nat /\ DOMAIN list = 1 .. Len(list)
  BY DEF InOrder
<1>2. PICK after : Countdown(list, n, after) /\ Unused(list, n) = after[Len(list)].doomed
  BY <1>1, CountdownDefined
<1>3. Counted(list, n, after[Len(list)], Len(list))
  BY <1>1, <1>2, CountdownRight
<1> DEFINE Enough(j) == \A c \in list[j].meta.channels : Cardinality(Among(list, c, j - 1)) >= n
<1>4. list[i].version \in Range(Unused(list, n)) <=>
        \E j \in 1 .. Len(list) : list[i].version = list[j].version /\ Enough(j)
  BY <1>2, <1>3 DEF Counted
<1>5. \A j \in DOMAIN list : list[j].version \in Nat
  <2> SUFFICES ASSUME NEW j \in DOMAIN list PROVE list[j].version \in Nat
    OBVIOUS
  <2>1. list[j] \in Entry
    BY <1>1
  <2>2. Releases \subseteq Nat
    BY PublisherAssumption DEF PublisherAssumption
  <2> QED BY <2>1, <2>2 DEF Entry
<1>6. \A j \in DOMAIN list : j # i => list[i].version # list[j].version
  BY <1>1, <1>5 DEF InOrder
<1>7. list[i].version \in Range(Unused(list, n)) <=> Enough(i)
  <2> HIDE DEF Enough
  <2> QED BY <1>1, <1>4, <1>6
<1>8. ASSUME NEW c
      PROVE  {j \in DOMAIN list : list[j].version > list[i].version /\ c \in list[j].meta.channels} = Among(list, c, i - 1)
  <2>1. \A j \in DOMAIN list : list[j].version > list[i].version <=> j < i
    BY <1>1, <1>5 DEF InOrder
  <2>2. \A j : j \in 1 .. i - 1 <=> j \in DOMAIN list /\ j < i
    BY <1>1
  <2> QED BY <2>1, <2>2 DEF Among
<1> QED BY <1>7, <1>8

\* The files of a release, and those that were taken away; and the same after a step.
There(v) == Made(v).files \cup {f \in Files : <<v, f>> \in hurt}
ThereNext(v) ==
    (IF store'[v] = Absent THEN NoDirectory ELSE store'[v]).files \cup {f \in Files : <<v, f>> \in hurt'}

\* What can be decoded lists all images and only what is there.
ReleasesThere ==
    \A v \in Releases : Decodes(v) => Archs \subseteq store[v].meta.files /\ store[v].meta.files \subseteq There(v)

\* A command writes metadata of files it found or made.
WritesThere(c) ==
    /\ c.version \in Releases /\ c.meta \in Meta /\ c.meta.files \subseteq There(c.version)
    /\ c.step # "download" => Archs \subseteq c.meta.files
    /\ c.step \in {"download", "changelog"} => c.cmd # "demote"
    /\ c.step \in {"download", "changelog", "remove"} \/ c.cmd = "demote" => c.channel \in Channels
    /\ c.cmd = "demote" => c.channel \notin c.meta.files

\* A list of releases in order, with their images.
Lists(l) == InOrder(l) /\ \A i \in DOMAIN l : Archs \subseteq There(l[i].version)

\* The steps of a command up to the one that writes the metadata.
ToEncode == {"download", "changelog", "remove", "truncate", "encode"}

\* What holds of a command where it is.
CommandFiles(c) ==
    /\ c.step \in ToEncode => WritesThere(c)
    /\ c.step \in {"createIndex", "encodeIndex"} => Lists(c.list)

FilesInv ==
    /\ store \in [Releases -> Directory \cup {Absent}]
    /\ ReleasesThere
    /\ \A q \in Publishers : Busy(q) => CommandFiles(proc[q])
    /\ index \in {Absent, Torn} \/ Lists(index)
    /\ served \in {Absent, Torn} \/ Lists(served)

\* Nothing is taken away without a note of it, or no image is.
NothingLost == \A w \in Releases : There(w) \subseteq ThereNext(w)
ImagesStay == \A w \in Releases : Archs \subseteq There(w) => Archs \subseteq ThereNext(w)

\* One process takes a step of its command, or ends it; what loses notes is done alone.
LEMMA FilesStep ==
    ASSUME PublisherInv, FilesInv, NEW p \in Publishers, NEW r, proc' = [proc EXCEPT ![p] = r],
           store' \in [Releases -> Directory \cup {Absent}], ReleasesThere',
           NothingLost \/ (ImagesStay /\ \A q \in Publishers \ {p} : ~Busy(q)),
           Busy(p)' => CommandFiles(proc[p])',
           index' \in {Absent, Torn, index} \/ Lists(index'), served' \in {Absent, Torn, served} \/ Lists(served')
    PROVE  FilesInv'
<1>1. ImagesStay
  BY DEF NothingLost, ImagesStay
<1>2. ASSUME NEW l, Lists(l) PROVE InOrder(l) /\ \A i \in DOMAIN l : Archs \subseteq ThereNext(l[i].version)
  <2>1. ASSUME NEW i \in DOMAIN l PROVE l[i].version \in Releases
    <3>1. l[i] \in Entry
      BY <1>2 DEF Lists, InOrder
    <3> QED BY <3>1 DEF Entry
  <2> QED BY <1>1, <1>2, <2>1 DEF Lists, ImagesStay
<1>3. \A q \in Publishers \ {p} : proc'[q] = proc[q]
  BY DEF PublisherInv, Processes
<1>4. ASSUME NEW q \in Publishers \ {p}, Busy(q)' PROVE CommandFiles(proc[q])'
  <2>1. Busy(q) /\ proc'[q] = proc[q] /\ CommandFiles(proc[q]) /\ NothingLost
    BY <1>3, <1>4 DEF Busy, FilesInv
  <2>2. ASSUME WritesThere(proc[q]) PROVE WritesThere(proc[q])'
    <3>1. There(proc[q].version) \subseteq ThereNext(proc[q].version)
      BY <2>1, <2>2 DEF NothingLost, WritesThere
    <3>2. proc[q].meta.files \subseteq ThereNext(proc[q].version)
      BY <2>2, <3>1 DEF WritesThere
    <3> QED BY <2>1, <2>2, <3>2 DEF WritesThere, There, Made, ThereNext
  <2>3. ASSUME Lists(proc[q].list) PROVE Lists(proc[q].list)'
    BY <1>2, <2>1, <2>3 DEF Lists, There, Made, ThereNext, InOrder
  <2> QED BY <2>1, <2>2, <2>3 DEF CommandFiles
<1>5. \A q \in Publishers : Busy(q)' => CommandFiles(proc[q])'
  BY <1>4
<1>6. index' \in {Absent, Torn} \/ Lists(index)'
  <2>1. index' \in {Absent, Torn} \/ Lists(index')
    BY DEF FilesInv
  <2> QED BY <1>2, <2>1 DEF Lists, There, Made, ThereNext, InOrder
<1>7. served' \in {Absent, Torn} \/ Lists(served)'
  <2>1. served' \in {Absent, Torn} \/ Lists(served')
    BY DEF FilesInv
  <2> QED BY <1>2, <2>1 DEF Lists, There, Made, ThereNext, InOrder
<1> QED BY <1>5, <1>6, <1>7 DEF FilesInv

\* A command begins: it has read the metadata of a release, or makes the directory of a new one.
LEMMA FilesBegin ==
    ASSUME PublisherInv, FilesInv, NEW p \in Publishers, NEW c, c = [f \in Fields |-> c[f]], Begin(p, c),
           UNCHANGED <<index, served, hurt>>,
           \/ UNCHANGED store
           \/ /\ c.version \in Releases /\ store[c.version] = Absent
              /\ store' = [store EXCEPT ![c.version] = NoDirectory],
           c.step \in ToEncode => WritesThere(c),
           c.step \notin {"createIndex", "encodeIndex"}
    PROVE  FilesInv'
<1> DEFINE first == [c EXCEPT !.alone = \A o \in Publishers : proc[o] = Idle]
           Other(q) == [proc[q] EXCEPT !.alone = FALSE]
<1>1. \A f \in Fields \ {"alone"} : first[f] = c[f]
  BY DEF Fields
<1>2. \A q \in Publishers : Busy(q) => \A f \in Fields \ {"alone"} : Other(q)[f] = proc[q][f]
  BY DEF PublisherInv, Processes, Fields, Busy
<1>3. proc' = [q \in Publishers |-> IF q = p THEN first
                                    ELSE IF proc[q] = Idle THEN Idle ELSE Other(q)]
  BY DEF Begin
<1> HIDE DEF first, Other
<1>4. proc'[p] = first /\ \A q \in Publishers \ {p} :
          proc'[q] = IF proc[q] = Idle THEN Idle ELSE Other(q)
  BY <1>3
<1>5. NoDirectory \in Directory /\ NoDirectory.files = {} /\ NoDirectory.meta = Absent
  BY DEF NoDirectory, Directory
<1>6. \A w \in Releases : /\ store[w] # Absent => store'[w] = store[w]
                          /\ store[w] = Absent => store'[w] \in {Absent, NoDirectory}
  BY DEF FilesInv
<1>7. store' \in [Releases -> Directory \cup {Absent}]
  BY <1>5 DEF FilesInv
<1>8. \A w \in Releases : There(w) = ThereNext(w)
  <2> SUFFICES ASSUME NEW w \in Releases PROVE There(w) = ThereNext(w)
    OBVIOUS
  <2>1. CASE store[w] # Absent
    BY <1>6, <2>1 DEF There, Made, ThereNext
  <2>2. CASE store[w] = Absent
    BY <1>6, <2>2 DEF There, Made, ThereNext
  <2> QED BY <2>1, <2>2
<1>9. ReleasesThere'
  <2> SUFFICES ASSUME NEW w \in Releases, Decodes(w)'
               PROVE  Archs \subseteq store'[w].meta.files /\ store'[w].meta.files \subseteq ThereNext(w)
    BY DEF ReleasesThere, There, Made, ThereNext
  <2>1. store[w] # Absent
    BY <1>5, <1>6 DEF Decodes
  <2> QED BY <1>6, <1>8, <2>1 DEF FilesInv, ReleasesThere, Decodes
<1>10. ASSUME NEW k, WritesThere(k), NEW k1, \A f \in Fields \ {"alone"} : k1[f] = k[f]
       PROVE  WritesThere(k1) /\ k1.meta.files \subseteq ThereNext(k1.version)
  BY <1>8, <1>10 DEF WritesThere, Fields
<1>11. ASSUME NEW q \in Publishers, Busy(q)' PROVE CommandFiles(proc[q])'
  <2>1. PICK k : /\ \A f \in Fields \ {"alone"} : proc'[q][f] = k[f]
                 /\ CommandFiles(k)
    <3>1. CASE q = p
      <4>1. CommandFiles(c)
        BY DEF CommandFiles
      <4> QED BY <1>1, <1>4, <3>1, <4>1
    <3>2. CASE q # p
      BY <1>2, <1>4, <1>11, <3>2 DEF Busy, FilesInv
    <3> QED BY <3>1, <3>2
  <2>2. proc'[q].step = k.step /\ proc'[q].list = k.list
    BY <2>1 DEF Fields
  <2>3. ASSUME k.step \in ToEncode PROVE WritesThere(proc[q])'
    <3>1. WritesThere(proc'[q]) /\ proc'[q].meta.files \subseteq ThereNext(proc'[q].version)
      BY <1>10, <2>1, <2>3 DEF CommandFiles
    <3> QED BY <3>1 DEF WritesThere, There, Made, ThereNext
  <2>4. ASSUME k.step \in {"createIndex", "encodeIndex"} PROVE Lists(proc[q].list)'
    <3>1. Lists(k.list)
      BY <2>1, <2>4 DEF CommandFiles
    <3>2. \A i \in DOMAIN k.list : k.list[i].version \in Releases
      <4> SUFFICES ASSUME NEW i \in DOMAIN k.list PROVE k.list[i].version \in Releases
        OBVIOUS
      <4>1. k.list[i] \in Entry
        BY <3>1 DEF Lists, InOrder
      <4> QED BY <4>1 DEF Entry
    <3>3. \A i \in DOMAIN k.list : Archs \subseteq ThereNext(k.list[i].version)
      BY <1>8, <3>1, <3>2 DEF Lists
    <3> QED BY <2>2, <3>1, <3>3 DEF Lists, There, Made, ThereNext, InOrder
  <2> QED BY <2>2, <2>3, <2>4 DEF CommandFiles
<1>12. ASSUME NEW l, Lists(l) PROVE InOrder(l) /\ \A i \in DOMAIN l : Archs \subseteq ThereNext(l[i].version)
  <2>1. ASSUME NEW i \in DOMAIN l PROVE l[i].version \in Releases
    <3>1. l[i] \in Entry
      BY <1>12 DEF Lists, InOrder
    <3> QED BY <3>1 DEF Entry
  <2> QED BY <1>8, <1>12, <2>1 DEF Lists
<1>13. index' \in {Absent, Torn} \/ Lists(index)'
  BY <1>12 DEF FilesInv, Lists, There, Made, ThereNext, InOrder
<1>14. served' \in {Absent, Torn} \/ Lists(served)'
  BY <1>12 DEF FilesInv, Lists, There, Made, ThereNext, InOrder
<1> QED BY <1>7, <1>9, <1>11, <1>13, <1>14 DEF FilesInv

\* The listing of the releases is in order, and lists what can be decoded, with its images.
LEMMA ListingLists ==
    ASSUME FilesInv PROVE Lists(Listing) /\ \A i \in DOMAIN Listing : Listing[i].version \in Listed
<1>0. Listed \subseteq Releases /\ Releases \subseteq Nat /\ IsFiniteSet(Releases)
  BY PublisherAssumption DEF Listed, PublisherAssumption
<1>1. Listed \in SUBSET Nat /\ Listed \subseteq Releases /\ IsFiniteSet(Listed)
  BY <1>0, FS_Subset
<1> DEFINE S == Listed
           Up(v) == {w \in S : w >= v}
           N == Cardinality(S)
           order == NewestFirst(S)
<1> HIDE DEF S
<1>2. N \in Nat /\ \A i \in 1 .. N : \E v \in S : Cardinality(Up(v)) = i
  BY <1>1, Ranked, FS_CardinalityType DEF S
<1>3. DOMAIN order = 1 .. N /\ \A i \in 1 .. N : order[i] \in S /\ Cardinality(Up(order[i])) = i
  BY <1>2 DEF NewestFirst
<1> HIDE DEF order
<1>4. ASSUME NEW i \in 1 .. N, NEW j \in 1 .. N, i < j PROVE order[i] > order[j]
  <2>1. order[i] \in S /\ order[j] \in S /\ order[i] \in Nat /\ order[j] \in Nat
    <3>1. \A v \in S : v \in Nat
      BY <1>1 DEF S
    <3> QED BY <1>3, <3>1
  <2> SUFFICES ASSUME order[i] <= order[j] PROVE FALSE
    BY <2>1
  <2>2. Up(order[j]) \subseteq Up(order[i])
    <3>1. \A v \in S : v \in Nat
      BY <1>1 DEF S
    <3>2. \A v \in S : v >= order[j] => v >= order[i]
      BY <2>1, <3>1
    <3> QED BY <3>2
  <2>3. IsFiniteSet(Up(order[i]))
    BY <1>1, FS_Subset DEF S
  <2>4. Cardinality(Up(order[j])) <= Cardinality(Up(order[i]))
    BY <2>2, <2>3, FS_Subset
  <2> HIDE DEF Up
  <2> QED BY <1>2, <1>3, <1>4, <2>4
<1>5. ASSUME NEW v \in S PROVE [version |-> v, meta |-> store[v].meta] \in Entry
  BY <1>0, <1>5 DEF S, Listed, Decodes, FilesInv, Directory, Entry
<1>6. Listing = [i \in 1 .. N |-> [version |-> order[i], meta |-> store[order[i]].meta]]
  <2>1. NewestFirst(Listed) = order
    BY DEF order, S
  <2> QED BY <1>3, <2>1 DEF Listing
<1>7. Listing \in Seq(Entry)
  <2> DEFINE entry(i) == [version |-> order[i], meta |-> store[order[i]].meta]
  <2>1. \A i \in 1 .. N : entry(i) \in Entry
    BY <1>3, <1>5
  <2>2. Listing = [i \in 1 .. N |-> entry(i)]
    BY <1>6
  <2> HIDE DEF entry
  <2>3. Listing \in [1 .. N -> Entry]
    BY <2>1, <2>2
  <2> QED BY <1>2, <2>3
<1>8. InOrder(Listing)
  BY <1>2, <1>4, <1>6, <1>7 DEF InOrder
<1>9. \A i \in DOMAIN Listing : Listing[i].version \in Listed
  BY <1>3, <1>6 DEF S
<1>10. \A v \in Listed : Archs \subseteq There(v)
  BY <1>0 DEF FilesInv, ReleasesThere, Listed
<1> QED BY <1>8, <1>9, <1>10 DEF Lists

\* Changes of a directory that leave the metadata as it is.
LEMMA MetaStays ==
    ASSUME FilesInv, NothingLost,
           NEW v, v \in Releases => ~Decodes(v)' \/ (Decodes(v) /\ store'[v].meta = store[v].meta),
           \A w \in Releases : w # v => store'[w] = store[w]
    PROVE  ReleasesThere'
<1> SUFFICES ASSUME NEW w \in Releases, Decodes(w)'
             PROVE  Archs \subseteq store'[w].meta.files /\ store'[w].meta.files \subseteq ThereNext(w)
  BY DEF ReleasesThere, There, Made, ThereNext
<1>1. Decodes(w) /\ store'[w].meta = store[w].meta /\ There(w) \subseteq ThereNext(w)
  BY DEF Decodes, NothingLost
<1> QED BY <1>1 DEF FilesInv, ReleasesThere

\* The releases stay as they are, and so does what is written of them.
LEMMA NothingChanged ==
    ASSUME FilesInv, UNCHANGED <<store, hurt>>
    PROVE  /\ store' \in [Releases -> Directory \cup {Absent}]
           /\ ReleasesThere' /\ NothingLost
BY DEF FilesInv, ReleasesThere, NothingLost, There, Made, ThereNext, Decodes

\* What a command writes is there after the step.
LEMMA WritesNext ==
    ASSUME NEW p \in Publishers, NEW r, proc'[p] = r, r.step \in ToEncode,
           r.version \in Releases, r.meta \in Meta, r.meta.files \subseteq ThereNext(r.version),
           r.step # "download" => Archs \subseteq r.meta.files,
           r.step \in {"download", "changelog"} => r.cmd # "demote",
           r.step \in {"download", "changelog", "remove"} \/ r.cmd = "demote" => r.channel \in Channels,
           r.cmd = "demote" => r.channel \notin r.meta.files
    PROVE  CommandFiles(proc[p])'
BY DEF CommandFiles, WritesThere, There, Made, ThereNext, ToEncode

\* A directory with other files or metadata.
LEMMA DirectoryChanged ==
    ASSUME FilesInv, NEW v \in Releases, NEW d \in Directory, store' = [store EXCEPT ![v] = d]
    PROVE  /\ store' \in [Releases -> Directory \cup {Absent}]
           /\ store'[v] = d /\ d # Absent /\ \A w \in Releases \ {v} : store'[w] = store[w]
           /\ ThereNext(v) = d.files \cup {f \in Files : <<v, f>> \in hurt'}
BY AbsentAssumption DEF FilesInv, ThereNext

\* A step before the metadata is written: where the command goes next.
LEMMA Goes ==
    ASSUME PublisherInv, NEW p \in Publishers, Busy(p), NEW s, GoTo(p, s)
    PROVE  \E r :
        /\ proc' = [proc EXCEPT ![p] = r] /\ proc'[p] = r /\ r.step = s
        /\ r.version = proc[p].version /\ r.meta = proc[p].meta /\ r.cmd = proc[p].cmd
        /\ r.channel = proc[p].channel /\ r.list = proc[p].list
<1> DEFINE r == [proc[p] EXCEPT !.step = s]
<1>1. proc[p] = [f \in Fields |-> proc[p][f]]
  BY DEF PublisherInv, Processes, Busy
<1>2. /\ r.step = s /\ r.version = proc[p].version /\ r.meta = proc[p].meta /\ r.cmd = proc[p].cmd
      /\ r.channel = proc[p].channel /\ r.list = proc[p].list
  BY <1>1 DEF Fields
<1>3. proc' = [proc EXCEPT ![p] = r] /\ proc'[p] = r
  BY DEF GoTo, PublisherInv, Processes
<1> HIDE DEF r
<1> QED BY <1>2, <1>3

\* One architecture is extracted, into a directory that is made again if it is gone, or all are there.
LEMMA DownloadFiles ==
    ASSUME PublisherInv, FilesInv, NEW p \in Publishers, DownloadImage(p) PROVE FilesInv'
<1>0. PICK v : v = proc[p].version
  OBVIOUS
<1>1. Busy(p) /\ proc[p].step = "download" /\ WritesThere(proc[p]) /\ UNCHANGED <<index, served>>
  BY DEF DownloadImage, At, Busy, FilesInv, CommandFiles, ToEncode
<1>2. CASE Archs \subseteq proc[p].meta.files /\ GoTo(p, "changelog") /\ UNCHANGED <<store, hurt>>
  <2>1. PICK r : /\ proc' = [proc EXCEPT ![p] = r] /\ proc'[p] = r /\ r.step = "changelog"
                 /\ r.version = proc[p].version /\ r.meta = proc[p].meta /\ r.cmd = proc[p].cmd
                 /\ r.channel = proc[p].channel /\ r.list = proc[p].list
    BY <1>1, <1>2, Goes
  <2>2. CommandFiles(proc[p])'
    BY <1>1, <1>2, <2>1 DEF CommandFiles, WritesThere, There, Made
  <2> QED BY <1>1, <1>2, <2>1, <2>2, NothingChanged, FilesStep
<1>3. ASSUME NEW a \in Archs, ExtractImage(p, proc[p].version, a) PROVE FilesInv'
  <2> DEFINE r == [proc[p] EXCEPT !.meta = [proc[p].meta EXCEPT !.files = @ \cup {a}]]
             d == [Made(v) EXCEPT !.files = @ \cup {a}]
  <2>1. proc[p] = [f \in Fields |-> proc[p][f]] /\ proc[p].meta \in Meta /\ v \in Releases /\ a \in Files
    BY <1>0, <1>1 DEF PublisherInv, Processes, Busy, WritesThere, Files
  <2>2. /\ r.step = proc[p].step /\ r.version = v /\ r.cmd = proc[p].cmd
        /\ r.channel = proc[p].channel /\ r.meta \in Meta /\ r.meta.files = proc[p].meta.files \cup {a}
    BY <1>0, <2>1 DEF Fields, Meta
  <2>3. proc' = [proc EXCEPT ![p] = r] /\ proc'[p] = r
    BY <1>3 DEF ExtractImage, PublisherInv, Processes
  <2>4. Made(v) \in Directory
    BY <2>1 DEF Made, NoDirectory, Directory, FilesInv
  <2>5. d \in Directory /\ d.files = Made(v).files \cup {a} /\ d.meta = Made(v).meta
    BY <2>1, <2>4 DEF Directory
  <2>6. store' = [store EXCEPT ![v] = d] /\ hurt' = hurt \ {<<v, a>>}
    BY <1>0, <1>3 DEF ExtractImage
  <2> HIDE DEF r, d
  <2>7. /\ store' \in [Releases -> Directory \cup {Absent}]
        /\ store'[v] = d /\ \A w \in Releases \ {v} : store'[w] = store[w]
        /\ ThereNext(v) = d.files \cup {f \in Files : <<v, f>> \in hurt'}
    BY <2>1, <2>5, <2>6, DirectoryChanged
  <2>8. There(v) \subseteq ThereNext(v) /\ a \in ThereNext(v)
    BY <2>5, <2>6, <2>7 DEF There
  <2>9. NothingLost
    BY <2>6, <2>7, <2>8 DEF NothingLost, There, Made, ThereNext
  <2>10. ReleasesThere'
    <3>1. ~Decodes(v)' \/ (Decodes(v) /\ store'[v].meta = store[v].meta)
      BY <2>5, <2>7 DEF Decodes, Made, NoDirectory
    <3> QED BY <2>7, <2>9, <3>1, MetaStays
  <2>11. proc[p].meta.files \subseteq There(v)
    BY <1>0, <1>1 DEF WritesThere
  <2>12. CommandFiles(proc[p])'
    <3>1. r.meta.files \subseteq ThereNext(r.version)
      BY <2>2, <2>8, <2>11
    <3>2. r.step \in ToEncode /\ r.step = "download" /\ r.cmd # "demote" /\ r.channel \in Channels
      BY <1>1, <2>2 DEF WritesThere, ToEncode
    <3> QED BY <2>1, <2>2, <2>3, <3>1, <3>2, WritesNext
  <2> QED BY <1>1, <2>3, <2>7, <2>9, <2>10, <2>12, FilesStep
<1> QED BY <1>2, <1>3 DEF DownloadImage

\* The changelog of the channel is added.
LEMMA ChangelogFiles ==
    ASSUME PublisherInv, FilesInv, NEW p \in Publishers, GenerateChangelog(p) PROVE FilesInv'
<1>0. PICK v, c : v = proc[p].version /\ c = proc[p].channel
  OBVIOUS
<1>1. /\ Busy(p) /\ proc[p].step = "changelog" /\ WritesThere(proc[p]) /\ store[v] # Absent
      /\ UNCHANGED <<index, served>> /\ store' = [store EXCEPT ![v].files = @ \cup {c}]
      /\ proc' = [proc EXCEPT ![p].meta.files = @ \cup {c}, ![p].step = "truncate"]
      /\ hurt' = hurt \ {<<v, c>>} /\ proc[p].meta.files \cap Archs \subseteq store[v].files
  BY <1>0 DEF GenerateChangelog, At, Busy, FilesInv, CommandFiles, ToEncode
<1> DEFINE r == [proc[p] EXCEPT !.meta = [proc[p].meta EXCEPT !.files = @ \cup {c}], !.step = "truncate"]
           d == [store[v] EXCEPT !.files = @ \cup {c}]
<1>2. /\ proc[p] = [f \in Fields |-> proc[p][f]] /\ proc[p].meta \in Meta /\ v \in Releases /\ c \in Files
      /\ proc[p].cmd # "demote" /\ Archs \subseteq proc[p].meta.files /\ store[v] \in Directory
  BY <1>0, <1>1 DEF PublisherInv, Processes, Busy, WritesThere, Files, FilesInv
<1>3. /\ r.step = "truncate" /\ r.version = v /\ r.cmd = proc[p].cmd
      /\ r.channel = c /\ r.meta \in Meta /\ r.meta.files = proc[p].meta.files \cup {c}
  BY <1>0, <1>2 DEF Fields, Meta
<1>4. proc' = [proc EXCEPT ![p] = r] /\ proc'[p] = r
  BY <1>1 DEF PublisherInv, Processes
<1>5. d \in Directory /\ d.files = store[v].files \cup {c} /\ d.meta = store[v].meta
  BY <1>2 DEF Directory
<1>6. store' = [store EXCEPT ![v] = d]
  BY <1>1, <1>2 DEF FilesInv
<1> HIDE DEF r, d
<1>7. /\ store' \in [Releases -> Directory \cup {Absent}]
      /\ store'[v] = d /\ \A w \in Releases \ {v} : store'[w] = store[w]
      /\ ThereNext(v) = d.files \cup {f \in Files : <<v, f>> \in hurt'}
  BY <1>2, <1>5, <1>6, DirectoryChanged
<1>8. There(v) \subseteq ThereNext(v) /\ c \in ThereNext(v)
  BY <1>1, <1>5, <1>7 DEF There, Made
<1>9. NothingLost
  BY <1>1, <1>7, <1>8 DEF NothingLost, There, Made, ThereNext
<1>10. ReleasesThere'
  <2>1. ~Decodes(v)' \/ (Decodes(v) /\ store'[v].meta = store[v].meta)
    BY <1>1, <1>5, <1>7 DEF Decodes
  <2> QED BY <1>7, <1>9, <2>1, MetaStays
<1>11. CommandFiles(proc[p])'
  <2>1. proc[p].meta.files \subseteq There(v)
    BY <1>0, <1>1 DEF WritesThere
  <2>2. r.meta.files \subseteq ThereNext(r.version) /\ Archs \subseteq r.meta.files
    BY <1>2, <1>3, <1>8, <2>1
  <2>3. r.step \in ToEncode /\ r.step = "truncate" /\ r.cmd # "demote"
    BY <1>2, <1>3 DEF ToEncode
  <2> QED BY <1>2, <1>3, <1>4, <2>2, <2>3, WritesNext
<1> QED BY <1>1, <1>4, <1>7, <1>9, <1>10, <1>11, FilesStep

\* The changelog of the channel is removed, and noted.
LEMMA RemoveFiles ==
    ASSUME PublisherInv, FilesInv, NEW p \in Publishers, RemoveChangelog(p) PROVE FilesInv'
<1>0. PICK v, c : v = proc[p].version /\ c = proc[p].channel
  OBVIOUS
<1>1. /\ Busy(p) /\ proc[p].step = "remove" /\ WritesThere(proc[p]) /\ store[v] # Absent
      /\ UNCHANGED <<index, served>> /\ store' = [store EXCEPT ![v].files = @ \ {c}]
      /\ GoTo(p, "truncate") /\ hurt' = hurt \cup {<<v, c>>}
  BY <1>0 DEF RemoveChangelog, At, Busy, FilesInv, CommandFiles, ToEncode
<1>2. PICK r : /\ proc' = [proc EXCEPT ![p] = r] /\ proc'[p] = r /\ r.step = "truncate"
               /\ r.version = proc[p].version /\ r.meta = proc[p].meta /\ r.cmd = proc[p].cmd
               /\ r.channel = proc[p].channel /\ r.list = proc[p].list
  BY <1>1, Goes
<1>3. v \in Releases /\ c \in Files /\ store[v] \in Directory
  BY <1>0, <1>1 DEF WritesThere, Files, FilesInv
<1> DEFINE d == [store[v] EXCEPT !.files = @ \ {c}]
<1>4. d \in Directory /\ d.files = store[v].files \ {c} /\ d.meta = store[v].meta
  BY <1>3 DEF Directory
<1>5. store' = [store EXCEPT ![v] = d]
  BY <1>1, <1>3 DEF FilesInv
<1> HIDE DEF d
<1>6. /\ store' \in [Releases -> Directory \cup {Absent}]
      /\ store'[v] = d /\ \A w \in Releases \ {v} : store'[w] = store[w]
      /\ ThereNext(v) = d.files \cup {f \in Files : <<v, f>> \in hurt'}
  BY <1>3, <1>4, <1>5, DirectoryChanged
<1>7. There(v) \subseteq ThereNext(v)
  BY <1>1, <1>3, <1>4, <1>6 DEF There, Made
<1>8. NothingLost
  BY <1>1, <1>6, <1>7 DEF NothingLost, There, Made, ThereNext
<1>9. ReleasesThere'
  <2>1. ~Decodes(v)' \/ (Decodes(v) /\ store'[v].meta = store[v].meta)
    BY <1>1, <1>4, <1>6 DEF Decodes
  <2> QED BY <1>6, <1>8, <2>1, MetaStays
<1>10. CommandFiles(proc[p])'
  <2>1. r.meta.files \subseteq ThereNext(r.version)
    BY <1>0, <1>1, <1>2, <1>7 DEF WritesThere
  <2>2. r.step \in ToEncode
    BY <1>2 DEF ToEncode
  <2> QED BY <1>1, <1>2, <2>1, <2>2, WritesNext DEF WritesThere
<1> QED BY <1>1, <1>2, <1>6, <1>8, <1>9, <1>10, FilesStep

\* The metadata is emptied, if the file that is open is still the one in the directory.
LEMMA TruncateFiles ==
    ASSUME PublisherInv, FilesInv, NEW p \in Publishers, TruncateMeta(p) PROVE FilesInv'
<1>0. PICK v : v = proc[p].version
  OBVIOUS
<1>1. /\ Busy(p) /\ proc[p].step = "truncate" /\ WritesThere(proc[p])
      /\ UNCHANGED <<index, served, hurt>> /\ GoTo(p, "encode")
      /\ store' = store \/ (store[v] # Absent /\ store' = [store EXCEPT ![v].meta = Torn])
  BY <1>0 DEF TruncateMeta, Reaches, At, Busy, FilesInv, CommandFiles, ToEncode
<1>2. PICK r : /\ proc' = [proc EXCEPT ![p] = r] /\ proc'[p] = r /\ r.step = "encode"
               /\ r.version = proc[p].version /\ r.meta = proc[p].meta /\ r.cmd = proc[p].cmd
               /\ r.channel = proc[p].channel /\ r.list = proc[p].list
  BY <1>1, Goes
<1>3. v \in Releases
  BY <1>0, <1>1 DEF WritesThere
<1>4. /\ store' \in [Releases -> Directory \cup {Absent}]
      /\ NothingLost /\ ReleasesThere'
  <2>1. CASE store' = store
    BY <1>1, <2>1, NothingChanged
  <2>2. CASE store[v] # Absent /\ store' = [store EXCEPT ![v].meta = Torn]
    <3> DEFINE d == [store[v] EXCEPT !.meta = Torn]
    <3>1. store[v] \in Directory
      BY <1>3, <2>2 DEF FilesInv
    <3>2. d \in Directory /\ d.files = store[v].files /\ d.meta = Torn
      BY <3>1 DEF Directory
    <3>3. store' = [store EXCEPT ![v] = d]
      BY <2>2, <3>1 DEF FilesInv
    <3> HIDE DEF d
    <3>4. /\ store' \in [Releases -> Directory \cup {Absent}]
          /\ store'[v] = d /\ \A w \in Releases \ {v} : store'[w] = store[w]
          /\ ThereNext(v) = d.files \cup {f \in Files : <<v, f>> \in hurt'}
      BY <1>3, <3>2, <3>3, DirectoryChanged
    <3>5. NothingLost
      BY <1>1, <2>2, <3>2, <3>4 DEF NothingLost, There, Made, ThereNext
    <3>6. ~Decodes(v)'
      BY <3>2, <3>4 DEF Decodes
    <3> QED BY <3>4, <3>5, <3>6, MetaStays
  <2> QED BY <1>1, <2>1, <2>2
<1>5. CommandFiles(proc[p])'
  <2>1. r.meta.files \subseteq ThereNext(r.version)
    BY <1>1, <1>2, <1>4 DEF WritesThere, NothingLost
  <2>2. r.step \in ToEncode
    BY <1>2 DEF ToEncode
  <2> QED BY <1>1, <1>2, <2>1, <2>2, WritesNext DEF WritesThere
<1> QED BY <1>1, <1>2, <1>4, <1>5, FilesStep

\* The metadata is written; a demotion that is alone has nothing missing any more.
LEMMA EncodeFiles ==
    ASSUME PublisherAssumption, PublisherInv, FilesInv, NEW p \in Publishers, EncodeMeta(p) PROVE FilesInv'
<1>0. PICK v, c : v = proc[p].version /\ c = proc[p].channel
  OBVIOUS
<1>1. /\ Busy(p) /\ proc[p].step = "encode" /\ WritesThere(proc[p])
      /\ UNCHANGED <<index, served>> /\ GoTo(p, "sign")
      /\ \/ UNCHANGED <<store, hurt>>
         \/ store[v] # Absent /\ store' = [store EXCEPT ![v].meta = proc[p].meta]
      /\ hurt' = hurt \/ (hurt' = hurt \ {<<v, c>>} /\ proc[p].cmd = "demote" /\ proc[p].alone)
  BY <1>0 DEF EncodeMeta, Reaches, At, Busy, FilesInv, CommandFiles, ToEncode
<1>2. PICK r : /\ proc' = [proc EXCEPT ![p] = r] /\ proc'[p] = r /\ r.step = "sign"
               /\ r.version = proc[p].version /\ r.meta = proc[p].meta /\ r.cmd = proc[p].cmd
               /\ r.channel = proc[p].channel /\ r.list = proc[p].list
  BY <1>1, Goes
<1>3. v \in Releases /\ proc[p].meta \in Meta /\ Archs \subseteq proc[p].meta.files
  BY <1>0, <1>1 DEF WritesThere
<1>4. CommandFiles(proc[p])'
  BY <1>2 DEF CommandFiles, ToEncode
<1>5. /\ store' \in [Releases -> Directory \cup {Absent}]
      /\ \A w \in Releases : There(w) \ {c} \subseteq ThereNext(w)
      /\ \A w \in Releases \ {v} : store'[w] = store[w]
      /\ (\A w \in Releases : There(w) \subseteq ThereNext(w)) \/ (proc[p].cmd = "demote" /\ proc[p].alone)
      /\ \A w \in Releases \ {v} : There(w) \subseteq ThereNext(w)
      /\ UNCHANGED <<store, hurt>> \/ store'[v].meta = proc[p].meta
  <2>1. CASE UNCHANGED <<store, hurt>>
    BY <1>1, <2>1 DEF There, Made, ThereNext, FilesInv
  <2>2. CASE store[v] # Absent /\ store' = [store EXCEPT ![v].meta = proc[p].meta]
    <3> DEFINE d == [store[v] EXCEPT !.meta = proc[p].meta]
    <3>1. store[v] \in Directory
      BY <1>3, <2>2 DEF FilesInv
    <3>2. d \in Directory /\ d.files = store[v].files /\ d.meta = proc[p].meta
      BY <1>3, <3>1 DEF Directory
    <3>3. store' = [store EXCEPT ![v] = d]
      BY <2>2, <3>1 DEF FilesInv
    <3> HIDE DEF d
    <3>4. /\ store' \in [Releases -> Directory \cup {Absent}]
          /\ store'[v] = d /\ d # Absent /\ \A w \in Releases \ {v} : store'[w] = store[w]
          /\ ThereNext(v) = d.files \cup {f \in Files : <<v, f>> \in hurt'}
      BY <1>3, <3>2, <3>3, DirectoryChanged
    <3>5. There(v) = store[v].files \cup {f \in Files : <<v, f>> \in hurt}
      BY <2>2 DEF There, Made
    <3>6. There(v) \ {c} \subseteq ThereNext(v) /\ (hurt' = hurt => There(v) \subseteq ThereNext(v))
      BY <1>1, <3>2, <3>4, <3>5
    <3>7. \A w \in Releases \ {v} : There(w) \subseteq ThereNext(w)
      BY <1>1, <3>4 DEF There, Made, ThereNext
    <3> QED BY <1>1, <1>3, <3>2, <3>4, <3>6, <3>7
  <2> QED BY <1>1, <2>1, <2>2
<1>6. proc[p].meta.files \subseteq ThereNext(v)
  BY <1>0, <1>1, <1>3, <1>5 DEF WritesThere
<1>7. ReleasesThere'
  <2> SUFFICES ASSUME NEW w \in Releases, Decodes(w)'
               PROVE  Archs \subseteq store'[w].meta.files /\ store'[w].meta.files \subseteq ThereNext(w)
    BY DEF ReleasesThere, There, Made, ThereNext
  <2>1. CASE w # v
    <3>1. Decodes(w) /\ store'[w] = store[w]
      BY <1>5, <2>1 DEF Decodes
    <3> QED BY <1>5, <2>1, <3>1 DEF FilesInv, ReleasesThere
  <2>2. CASE w = v /\ store'[v].meta = proc[p].meta
    BY <1>3, <1>6, <2>2
  <2>3. CASE w = v /\ UNCHANGED <<store, hurt>>
    <3>1. Decodes(v) /\ store'[v] = store[v]
      BY <2>3 DEF Decodes
    <3>2. Archs \subseteq store[v].meta.files /\ store[v].meta.files \subseteq There(v)
      BY <1>3, <3>1 DEF FilesInv, ReleasesThere
    <3> QED BY <2>3, <3>1, <3>2 DEF There, Made, ThereNext
  <2> QED BY <1>1, <1>5, <2>1, <2>2, <2>3
<1>8. ImagesStay
  <2>1. proc[p].cmd = "demote" => c \notin Archs
    BY <1>0, <1>1 DEF WritesThere, PublisherAssumption
  <2> QED BY <1>5, <2>1 DEF ImagesStay
<1>9. NothingLost \/ \A q \in Publishers \ {p} : ~Busy(q)
  BY <1>1, <1>5 DEF NothingLost, PublisherInv, AloneKnows
<1> QED BY <1>1, <1>2, <1>4, <1>5, <1>7, <1>8, <1>9, FilesStep

\* The metadata is signed, and the index read and written.
LEMMA IndexFiles ==
    ASSUME PublisherAssumption, PublisherInv, FilesInv, NEW p \in Publishers,
           SignMeta(p) \/ ReadReleases(p) \/ CreateIndex(p) \/ EncodeIndex(p) \/ PruneDone(p)
    PROVE  FilesInv'
<1>n. ASSUME UNCHANGED <<store, hurt, served>>, NEW r, proc' = [proc EXCEPT ![p] = r], r.step \notin ToEncode,
             r.step \in {"createIndex", "encodeIndex"} => Lists(r.list),
             index' \in {Absent, Torn, index} \/ Lists(index')
      PROVE  FilesInv'
  <2>1. proc'[p] = r
    BY <1>n DEF PublisherInv, Processes
  <2>2. CommandFiles(proc[p])'
    BY <1>n, <2>1 DEF CommandFiles, Lists, There, Made, InOrder
  <2> QED BY <1>n, <2>2, NothingChanged, FilesStep
<1>1. CASE SignMeta(p)
  <2>0. PICK v : v = proc[p].version
    OBVIOUS
  <2>1. /\ Busy(p) /\ store[v] # Absent /\ UNCHANGED <<index, served, hurt>> /\ GoTo(p, "index")
        /\ store' = [store EXCEPT ![v].signed = store[v].meta]
    BY <1>1, <2>0 DEF SignMeta, At, Busy
  <2>2. PICK r : proc' = [proc EXCEPT ![p] = r] /\ proc'[p] = r /\ r.step = "index"
    BY <2>1, Goes
  <2>3. CommandFiles(proc[p])'
    BY <2>2 DEF CommandFiles, ToEncode
  <2>4. CASE v \notin Releases
    BY <2>1, <2>2, <2>3, <2>4, NothingChanged, FilesStep DEF FilesInv
  <2>5. CASE v \in Releases
    <3> DEFINE d == [store[v] EXCEPT !.signed = store[v].meta]
    <3>1. store[v] \in Directory
      BY <2>1, <2>5 DEF FilesInv
    <3>2. d \in Directory /\ d.files = store[v].files /\ d.meta = store[v].meta
      BY <3>1 DEF Directory
    <3>3. store' = [store EXCEPT ![v] = d]
      BY <2>1, <3>1 DEF FilesInv
    <3> HIDE DEF d
    <3>4. /\ store' \in [Releases -> Directory \cup {Absent}]
          /\ store'[v] = d /\ \A w \in Releases \ {v} : store'[w] = store[w]
          /\ ThereNext(v) = d.files \cup {f \in Files : <<v, f>> \in hurt'}
      BY <2>5, <3>2, <3>3, DirectoryChanged
    <3>5. NothingLost
      BY <2>1, <3>2, <3>4 DEF NothingLost, There, Made, ThereNext
    <3>6. ~Decodes(v)' \/ (Decodes(v) /\ store'[v].meta = store[v].meta)
      BY <2>1, <3>2, <3>4 DEF Decodes
    <3>7. ReleasesThere'
      BY <3>4, <3>5, <3>6, MetaStays
    <3> QED BY <2>1, <2>2, <2>3, <3>4, <3>5, <3>7, FilesStep
  <2> QED BY <2>4, <2>5
<1>2. CASE ReadReleases(p)
  <2> DEFINE r == [proc[p] EXCEPT !.list = Listing, !.step = "createIndex"]
  <2>1. proc[p] = [f \in Fields |-> proc[p][f]] /\ Busy(p)
    BY <1>2 DEF ReadReleases, At, PublisherInv, Processes, Busy
  <2>2. r.step = "createIndex" /\ r.list = Listing
    BY <2>1 DEF Fields
  <2>3. proc' = [proc EXCEPT ![p] = r] /\ UNCHANGED <<store, hurt, index, served>>
    BY <1>2 DEF ReadReleases
  <2> HIDE DEF r
  <2> QED BY <1>n, <2>2, <2>3, ListingLists DEF ToEncode
<1>3. CASE CreateIndex(p) \/ EncodeIndex(p)
  <2>1. /\ Busy(p) /\ proc[p].step \in {"createIndex", "encodeIndex"} /\ Lists(proc[p].list)
        /\ UNCHANGED <<store, hurt, served>>
    BY <1>3 DEF CreateIndex, EncodeIndex, At, Busy, FilesInv, CommandFiles
  <2>2. PICK s \in {"encodeIndex", "signIndex"} : GoTo(p, s)
    BY <1>3 DEF CreateIndex, EncodeIndex
  <2>3. PICK r : proc' = [proc EXCEPT ![p] = r] /\ r.step = s /\ r.list = proc[p].list
    BY <2>1, <2>2, Goes
  <2>4. index' = Torn \/ index' = proc[p].list
    BY <1>3 DEF CreateIndex, EncodeIndex
  <2> QED BY <1>n, <2>1, <2>2, <2>3, <2>4 DEF ToEncode
<1>5. CASE PruneDone(p)
  <2>1. Busy(p) /\ GoTo(p, "index") /\ UNCHANGED <<store, hurt, index, served>>
    BY <1>5 DEF PruneDone, At, Busy
  <2>2. PICK r : proc' = [proc EXCEPT ![p] = r] /\ r.step = "index"
    BY <2>1, Goes
  <2> QED BY <1>n, <2>1, <2>2 DEF ToEncode
<1> QED BY <1>1, <1>2, <1>3, <1>5

\* The index is signed; when the command was alone, what is not listed is noted no more.
LEMMA SignedFiles ==
    ASSUME PublisherInv, FilesInv, NEW p \in Publishers, SignIndex(p) PROVE FilesInv'
<1>1. /\ Busy(p) /\ proc[p].step = "signIndex" /\ UNCHANGED <<store, index>> /\ served' = index
      /\ proc' = [proc EXCEPT ![p] = Idle]
      /\ hurt' = IF proc[p].alone THEN {h \in hurt : h[1] \in Listed} ELSE hurt
  BY DEF SignIndex, At, Busy
<1>2. ~Busy(p)'
  BY <1>1 DEF PublisherInv, Processes, Busy
<1>3. CASE ~proc[p].alone
  <2>1. hurt' = hurt
    BY <1>1, <1>3
  <2>2. served' \in {Absent, Torn, served} \/ Lists(served')
    BY <1>1 DEF FilesInv
  <2> QED BY <1>1, <1>2, <2>1, <2>2, NothingChanged, FilesStep
<1>4. CASE proc[p].alone
  <2>1. index = Listing /\ \A q \in Publishers : ~Busy(q)'
    BY <1>1, <1>2, <1>4 DEF PublisherInv, AloneKnows, Processes, Busy
  <2>2. \A v \in Listed : ThereNext(v) = There(v)
    BY <1>1, <1>4 DEF There, Made, ThereNext
  <2>3. ReleasesThere'
    <3> SUFFICES ASSUME NEW w \in Releases, Decodes(w)'
                 PROVE  Archs \subseteq store'[w].meta.files /\ store'[w].meta.files \subseteq ThereNext(w)
      BY DEF ReleasesThere, There, Made, ThereNext
    <3>1. Decodes(w) /\ w \in Listed /\ store'[w] = store[w]
      BY <1>1 DEF Decodes, Listed
    <3> QED BY <2>2, <3>1 DEF FilesInv, ReleasesThere
  <2>4. Lists(index)'
    <3>1. Lists(index) /\ \A i \in DOMAIN index : index[i].version \in Listed
      BY <2>1, ListingLists
    <3>2. \A i \in DOMAIN index : Archs \subseteq ThereNext(index[i].version)
      BY <2>2, <3>1 DEF Lists
    <3> QED BY <1>1, <3>1, <3>2 DEF Lists, There, Made, ThereNext, InOrder
  <2>5. Lists(served)'
    BY <1>1, <2>4 DEF Lists, There, Made, InOrder
  <2> QED BY <1>1, <2>1, <2>3, <2>4, <2>5 DEF FilesInv
<1> QED BY <1>3, <1>4

\* A removal, of all of a release or cut short, is noted.
LEMMA RemovalNoted ==
    ASSUME FilesInv, NEW v, NEW left, RemoveRelease(v, left),
           \/ left = Absent
           \/ /\ store[v] # Absent
              /\ left \in [files : SUBSET store[v].files, meta : {Absent, store[v].meta}, signed : {Absent}]
    PROVE  store' \in [Releases -> Directory \cup {Absent}] /\ ReleasesThere' /\ NothingLost
<1>1. /\ store' = [store EXCEPT ![v] = left]
      /\ hurt' = hurt \cup ({v} \X (Made(v).files \ (IF left = Absent THEN {} ELSE left.files)))
  BY DEF RemoveRelease
<1>2. CASE v \notin Releases
  <2>1. UNCHANGED store /\ hurt \subseteq hurt'
    BY <1>1, <1>2 DEF FilesInv
  <2>2. NothingLost
    BY <2>1 DEF NothingLost, There, Made, ThereNext
  <2> QED BY <1>2, <2>1, <2>2, MetaStays DEF FilesInv
<1>3. CASE v \in Releases
  <2>1. Made(v) \in Directory
    BY <1>3 DEF Made, NoDirectory, Directory, FilesInv
  <2>2. left \in Directory \cup {Absent}
    <3>1. CASE left # Absent
      <4>1. store[v] \in Directory
        BY <1>3, <3>1 DEF FilesInv
      <4> QED BY <3>1, <4>1 DEF Directory
    <3> QED BY <3>1
  <2>3. /\ store' \in [Releases -> Directory \cup {Absent}] /\ store'[v] = left
        /\ \A w \in Releases \ {v} : store'[w] = store[w]
    BY <1>1, <1>3, <2>2 DEF FilesInv
  <2>4. There(v) \subseteq ThereNext(v)
    <3> SUFFICES ASSUME NEW f \in Made(v).files PROVE f \in ThereNext(v)
      BY <1>1 DEF There, ThereNext
    <3>1. f \in Files
      BY <2>1 DEF Directory
    <3>2. CASE left = Absent
      BY <1>1, <3>1, <3>2 DEF ThereNext
    <3>3. CASE left # Absent
      BY <1>1, <2>3, <3>1, <3>3 DEF ThereNext
    <3> QED BY <3>2, <3>3
  <2>5. NothingLost
    BY <1>1, <2>3, <2>4 DEF NothingLost, There, Made, ThereNext
  <2>6. ~Decodes(v)' \/ (Decodes(v) /\ store'[v].meta = store[v].meta)
    BY <2>3 DEF Decodes
  <2> QED BY <2>3, <2>5, <2>6, MetaStays
<1> QED BY <1>2, <1>3

\* A prune removes a release.
LEMMA PruneFiles ==
    ASSUME PublisherInv, FilesInv, NEW p \in Publishers, RemoveImage(p) PROVE FilesInv'
<1>1. /\ Busy(p) /\ proc[p].step = "prune" /\ UNCHANGED <<index, served>>
      /\ proc' = [proc EXCEPT ![p].doomed = Tail(@)]
  BY DEF RemoveImage, At, Busy
<1> DEFINE r == [proc[p] EXCEPT !.doomed = Tail(proc[p].doomed)]
<1>2. r.step = "prune" /\ proc' = [proc EXCEPT ![p] = r] /\ proc'[p] = r
  <2>1. proc[p] = [f \in Fields |-> proc[p][f]]
    BY <1>1 DEF PublisherInv, Processes, Busy
  <2> QED BY <1>1, <2>1 DEF Fields, PublisherInv, Processes
<1> HIDE DEF r
<1>3. CommandFiles(proc[p])'
  BY <1>2 DEF CommandFiles, ToEncode
<1>4. store' \in [Releases -> Directory \cup {Absent}] /\ ReleasesThere' /\ NothingLost
  BY RemovalNoted DEF RemoveImage
<1> QED BY <1>1, <1>2, <1>3, <1>4, FilesStep

\* A command fails or is killed; a prune that is cut short leaves part of a release.
LEMMA StopFiles ==
    ASSUME PublisherInv, FilesInv, NEW p \in Publishers, Stop(p) PROVE FilesInv'
<1>1. proc' = [proc EXCEPT ![p] = Idle] /\ UNCHANGED <<index, served>> /\ ~Busy(p)'
  BY DEF Stop, PublisherInv, Processes, Busy
<1>2. CASE UNCHANGED <<store, hurt>>
  BY <1>1, <1>2, NothingChanged, FilesStep
<1>3. ASSUME NEW v, store[v] # Absent, NEW F \in SUBSET store[v].files, NEW m \in {Absent, store[v].meta},
             RemoveRelease(v, [files |-> F, meta |-> m, signed |-> Absent])
      PROVE  FilesInv'
  <2> DEFINE left == [files |-> F, meta |-> m, signed |-> Absent]
  <2>1. left \in [files : SUBSET store[v].files, meta : {Absent, store[v].meta}, signed : {Absent}]
    OBVIOUS
  <2>2. RemoveRelease(v, left)
    BY <1>3
  <2> HIDE DEF left
  <2>3. store' \in [Releases -> Directory \cup {Absent}] /\ ReleasesThere' /\ NothingLost
    BY <1>3, <2>1, <2>2, RemovalNoted
  <2> QED BY <1>1, <2>3, FilesStep
<1> QED BY <1>2, <1>3 DEF Stop

\* The commands that read the metadata of a release, the one that makes a release, and prune.
LEMMA CommandFilesInv ==
    ASSUME PublisherInv, FilesInv, NEW p \in Publishers,
           NEW v \in Releases, NEW n, NEW c, NEW m \in Meta,
           NEW s \in {"changelog", "remove", "truncate"},
           Begin(p, Command(n, v, c, m, s)), UNCHANGED <<store, index, served, hurt>>,
           m.files \subseteq There(v), Archs \subseteq m.files,
           s # "truncate" \/ n = "demote" => c \in Channels,
           n = "demote" => s # "changelog" /\ c \notin m.files
    PROVE  FilesInv'
<1> DEFINE k == Command(n, v, c, m, s)
<1>1. /\ k = [f \in Fields |-> k[f]] /\ k.step = s /\ k.version = v /\ k.meta = m /\ k.cmd = n
      /\ k.channel = c
  BY DEF Command, Fields
<1>2. Begin(p, k)
  OBVIOUS
<1> HIDE DEF k
<1>3. WritesThere(k)
  BY <1>1 DEF WritesThere
<1> QED BY <1>1, <1>2, <1>3, FilesBegin DEF ToEncode

\* Metadata that can be decoded, as the commands read it.
LEMMA ReadMeta ==
    ASSUME FilesInv, NEW v \in Releases, Decodes(v)
    PROVE  store[v].meta \in Meta /\ Archs \subseteq store[v].meta.files /\ store[v].meta.files \subseteq There(v)
BY DEF FilesInv, ReleasesThere, Decodes, Directory

\* Every step of every command keeps the files that are listed.
LEMMA RunFiles ==
    ASSUME PublisherAssumption, PublisherInv, FilesInv, NEW p \in Publishers, Run(p) PROVE FilesInv'
<1>1. ASSUME NEW v \in Releases, NEW remote \in BOOLEAN, Sync(p, v, remote) PROVE FilesInv'
  <2> DEFINE m == [channels |-> {"testing"}, severity |-> "none", files |-> {}]
             c == Command("sync", v, "testing", m, "download")
  <2>1. /\ c = [f \in Fields |-> c[f]] /\ c.step = "download" /\ c.version = v /\ c.meta = m
        /\ c.cmd = "sync" /\ c.channel = "testing" /\ m.files = {}
    BY DEF Command, Fields
  <2>2. m \in Meta
    BY DEF Meta, Severities, PublisherAssumption
  <2>3. /\ Begin(p, c) /\ store[v] = Absent /\ store' = [store EXCEPT ![v] = NoDirectory]
        /\ UNCHANGED <<index, served, hurt>>
    BY <1>1 DEF Sync
  <2> HIDE DEF m, c
  <2>4. WritesThere(c)
    BY <2>1, <2>2 DEF WritesThere, PublisherAssumption
  <2> QED BY <2>1, <2>3, <2>4, FilesBegin
<1>2. ASSUME NEW v \in Releases, NEW c \in Channels, Promote(p, v, c) PROVE FilesInv'
  <2> DEFINE m == [store[v].meta EXCEPT !.channels = @ \cup {c}]
  <2>1. Decodes(v) /\ UNCHANGED <<store, index, served, hurt>>
        /\ Begin(p, Command("promote", v, c, m, "changelog"))
    BY <1>2 DEF Promote
  <2>2. store[v].meta \in Meta /\ Archs \subseteq store[v].meta.files /\ store[v].meta.files \subseteq There(v)
    BY <2>1, ReadMeta
  <2>3. m \in Meta /\ m.files = store[v].meta.files
    BY <2>2 DEF Meta
  <2> HIDE DEF m
  <2> QED BY <2>1, <2>2, <2>3, CommandFilesInv
<1>3. ASSUME NEW v \in Releases, NEW c \in Channels, Demote(p, v, c) PROVE FilesInv'
  <2> DEFINE m == [store[v].meta EXCEPT !.channels = @ \ {c}, !.files = @ \ {c}]
             s == IF c \in store[v].meta.files THEN "remove" ELSE "truncate"
  <2>1. Decodes(v) /\ UNCHANGED <<store, index, served, hurt>>
        /\ Begin(p, Command("demote", v, c, m, s))
    BY <1>3 DEF Demote
  <2>2. store[v].meta \in Meta /\ Archs \subseteq store[v].meta.files /\ store[v].meta.files \subseteq There(v)
    BY <2>1, ReadMeta
  <2>3. m \in Meta /\ m.files = store[v].meta.files \ {c} /\ s \in {"remove", "truncate"}
    BY <2>2 DEF Meta
  <2>4. c \notin Archs
    BY DEF PublisherAssumption
  <2> HIDE DEF m, s
  <2> QED BY <2>1, <2>2, <2>3, <2>4, CommandFilesInv
<1>4. ASSUME NEW v \in Releases, NEW s \in Severities, Severity(p, v, s) PROVE FilesInv'
  <2> DEFINE m == [store[v].meta EXCEPT !.severity = s]
  <2>1. Decodes(v) /\ UNCHANGED <<store, index, served, hurt>>
        /\ Begin(p, Command("severity", v, "", m, "truncate"))
    BY <1>4 DEF Severity
  <2>2. store[v].meta \in Meta /\ Archs \subseteq store[v].meta.files /\ store[v].meta.files \subseteq There(v)
    BY <2>1, ReadMeta
  <2>3. m \in Meta /\ m.files = store[v].meta.files
    BY <2>2 DEF Meta
  <2> HIDE DEF m
  <2> QED BY <2>1, <2>2, <2>3, CommandFilesInv
<1>5. ASSUME NEW n \in Retentions, Prune(p, n) PROVE FilesInv'
  <2> DEFINE c == [Command("prune", 0, "", Absent, "prune") EXCEPT
                        !.list = index, !.doomed = Unused(index, n)]
  <2>1. Begin(p, c) /\ UNCHANGED <<store, index, served, hurt>>
    BY <1>5 DEF Prune
  <2>2. c = [f \in Fields |-> c[f]] /\ c.step = "prune"
    BY DEF Command, Fields
  <2> HIDE DEF c
  <2> QED BY <2>1, <2>2, FilesBegin DEF ToEncode
<1> QED
  BY <1>1, <1>2, <1>3, <1>4, <1>5, DownloadFiles, ChangelogFiles, RemoveFiles, TruncateFiles, EncodeFiles,
     IndexFiles, SignedFiles, PruneFiles, StopFiles DEF Run

\* Every step of the publisher does.
LEMMA FilesStepInv ==
    ASSUME PublisherAssumption, PublisherInv, FilesInv, [PublisherNext]_publisherVars PROVE FilesInv'
<1>1. CASE Build \/ UNCHANGED publisherVars
  <2>1. UNCHANGED <<store, hurt, index, served, proc>>
    BY <1>1 DEF Build, publisherVars
  <2>2. ASSUME NEW q \in Publishers, Busy(q)' PROVE CommandFiles(proc[q])'
    BY <2>1, <2>2 DEF Busy, FilesInv, CommandFiles, WritesThere, Lists, There, Made, InOrder
  <2>3. Lists(index)' = Lists(index) /\ Lists(served)' = Lists(served)
    BY <2>1 DEF Lists, There, Made, InOrder
  <2> QED BY <2>1, <2>2, <2>3, NothingChanged DEF FilesInv
<1> QED BY <1>1, RunFiles DEF PublisherNext

\* The tree is empty or holds a release that a sync has made.
LEMMA FilesInitInv == ASSUME PublisherAssumption, PublisherInit PROVE FilesInv
<1>1. Published \in Directory /\ Published.meta.files = Archs \cup {"testing"} /\ Published.files = Published.meta.files /\ Published # Absent
  BY AbsentAssumption DEF Published, Synced, Directory, Meta, Severities, Files, PublisherAssumption
<1>2. PICK first : /\ first \in {{}, {v \in Releases : \A w \in Releases : v <= w}}
                   /\ store = [v \in Releases |-> IF v \in first THEN Published ELSE Absent]
                   /\ index = IF first = {} THEN Absent ELSE <<[version |-> CHOOSE v \in first : TRUE, meta |-> Synced]>>
  BY DEF PublisherInit
<1>3. store \in [Releases -> Directory \cup {Absent}]
  BY <1>1, <1>2
<1>4. ReleasesThere
  BY <1>1, <1>2 DEF ReleasesThere, Decodes, There, Made
<1>5. index = Absent \/ Lists(index)
  <2>1. CASE first = {}
    BY <1>2, <2>1
  <2>2. CASE first # {}
    <3>1. (CHOOSE v \in first : TRUE) \in Releases /\ Synced \in Meta
      BY <1>2, <2>2 DEF Synced, Meta, Severities, Files, PublisherAssumption
    <3>2. [version |-> CHOOSE v \in first : TRUE, meta |-> Synced] \in Entry
      BY <3>1 DEF Entry
    <3>3. index \in Seq(Entry) /\ Len(index) = 1
      BY <1>2, <2>2, <3>2
    <3>4. \A i \in DOMAIN index : index[i].version \in first
      BY <1>2, <2>2, <3>3
    <3>5. \A v \in first : Archs \subseteq There(v)
      BY <1>1, <1>2 DEF There, Made
    <3> QED BY <3>3, <3>4, <3>5 DEF Lists, InOrder
  <2> QED BY <2>1, <2>2
<1> QED BY <1>3, <1>4, <1>5 DEF PublisherInit, FilesInv, Busy

\* Whatever fails or is killed between two writes of a command, and whatever runs beside it,
\* clients are sent to an image that is not there only where a prune has begun to remove it, and
\* when a command has run alone to its end, whatever a listed release lists is there, save what
\* a prune or a demotion took away that was cut short or did not run alone (main_prune.go, main_demote.go).
THEOREM ListedAreThere == PublisherSpec => []ListedFilesThere
<1>1. PublisherInv /\ FilesInv => ListedFilesThere
  <2> SUFFICES ASSUME PublisherInv, FilesInv, served \notin {Absent, Torn}, NEW i \in DOMAIN served
               PROVE  /\ Archs \subseteq There(served[i].version)
                      /\ tidy => Decodes(served[i].version)
                                 /\ served[i].meta.files \subseteq There(served[i].version)
    BY DEF ListedFilesThere, There
  <2>1. Archs \subseteq There(served[i].version)
    BY DEF FilesInv, Lists
  <2>2. ASSUME tidy PROVE Decodes(served[i].version) /\ served[i].meta.files \subseteq There(served[i].version)
    <3>1. served = Listing
      BY <2>2 DEF PublisherInv, IndexHeals
    <3>2. served[i].version \in Releases /\ Decodes(served[i].version)
      BY <3>1, ListingLists DEF Listed
    <3>3. served[i].meta = store[served[i].version].meta
      BY <3>1 DEF Listing
    <3> QED BY <3>2, <3>3, ReadMeta
  <2> QED BY <2>1, <2>2
<1> QED
  BY <1>1, PublisherAssumption, PublisherInitInv, PublisherStepInv, FilesInitInv, FilesStepInv, PTL DEF PublisherSpec

\* Whatever commands have run before and whichever releases they left in the index, a prune counts
\* down to exactly the releases that are in none of their channels among the newest (main_prune.go).
THEOREM PruneRemovesUnused == PublisherSpec => []PruneKeepsNewest
<1>1. FilesInv => PruneKeepsNewest
  <2> SUFFICES ASSUME FilesInv, index \notin {Absent, Torn}, NEW n \in Retentions, NEW i \in DOMAIN index
               PROVE  index[i].version \in Range(Unused(index, n)) <=>
                        \A c \in index[i].meta.channels :
                            Cardinality({j \in DOMAIN index : index[j].version > index[i].version
                                                              /\ c \in index[j].meta.channels}) >= n
    BY DEF PruneKeepsNewest
  <2>1. InOrder(index)
    BY DEF FilesInv, Lists
  <2>2. n \in Int
    BY PublisherAssumption DEF PublisherAssumption
  <2> QED BY <2>1, <2>2, UnusedRight
<1> QED
  BY <1>1, PublisherAssumption, PublisherInitInv, PublisherStepInv, FilesInitInv, FilesStepInv, PTL DEF PublisherSpec

-----------------------------------------------------------------------------
(* The installer.                                                          *)

InstallSteps == Writing \cup {"off", "start", "check", "refused", "done", "live", "running"}
Configs == InstallConfigs \cup {NoSeed}

\* What InstallTypeOK says, with the fields that have no property of their own.
InstallTypes ==
    /\ disk \in [Disks -> DiskType]
    /\ media \in [plugged : BOOLEAN, config : Configs, readonly : BOOLEAN, extra : SUBSET SourceExtra]
    /\ external \in [plugged : BOOLEAN, config : Configs, files : SUBSET SeedNames]
    /\ firmware \in [secureBoot : BOOLEAN, tpm : BOOLEAN, complete : BOOLEAN]
    /\ host \in [step : InstallSteps, from : Disks \cup {"media"}, source : Disks \cup {"media"},
                 swtpm : BOOLEAN, boot : BOOLEAN]
    /\ plan \in [target : Disks \cup {"none"}, force : BOOLEAN]
    /\ acts \in 0 .. Interventions

\* Only media may have been started with /usr of another disk.
SourceStarted == host.from \in Disks => host.source = host.from

\* A machine that works without a software TPM, or with Secure Boot, is nowhere said to lack it.
NeedsSwtpm == firmware.secureBoot /\ ~firmware.tpm
FlagsTrue ==
    \A d \in Disks : /\ "swtpm" \in disk[d].flags => NeedsSwtpm
                     /\ "sb-disabled" \in disk[d].flags => ~firmware.secureBoot

\* No system that unlocks is left when partitions are removed without a confirmation.
NoneToLose == host.step \in {"wipe", "unmount", "clean"} => ExistingInstalls = {}

\* The target is a disk, other than the source, while nothing is complete.
UnderWay ==
    host.step \in Writing =>
        ~firmware.complete /\ plan.target \in Disks /\ plan.target # host.source

\* A software TPM the machine needs waits in /tmp or is on the source.
TPMAtHand ==
    host.step \in Writing \ {"tpm", "loader", "mark"} =>
        /\ host.swtpm => NeedsSwtpm
        /\ NeedsSwtpm /\ ~host.swtpm =>
             host.source \in Disks /\ "swtpm" \in disk[host.source].flags

\* What has been written to the target when a step is reached.
Defined == {"esp", "copy", "seed", "boot", "tpm", "loader", "mark"}
Copied == Defined \ {"esp", "copy"}
Cleared == Copied \ {"seed"}
Flagged == Cleared \ {"boot"}
Written ==
    /\ host.step \in Defined => Target.table = "gpt"
    /\ host.step = "copy" => Target.copied \in {{1}, {1, 2}}
    /\ host.step \in Copied => Target.copied = Partitions
    /\ host.step \in Cleared => "install" \notin Target.seeds
    /\ host.step \in {"copy", "seed", "boot"} =>
         (NeedsSwtpm /\ ~host.swtpm => "swtpm" \in Target.flags)
    /\ host.step \in Flagged =>
         /\ ("swtpm" \in Target.flags) = NeedsSwtpm
         /\ ("sb-disabled" \in Target.flags) = ~firmware.secureBoot
    /\ host.step = "mark" => Target.loader

InstallInv ==
    /\ InstallTypes /\ SourceStarted /\ FlagsTrue /\ NoneToLose /\ UnderWay /\ TPMAtHand
    /\ Written /\ PartitionsKept
    /\ firmware.complete => plan.target \in Disks
    /\ CompleteIsBootable

\* The disks a machine may start with are well typed, and have no flags.
LEMMA FirstDisks ==
    \A r \in {Blank, Foreign, HalfWiped, InUse(MediaVersion, TRUE), InUse(MediaVersion, FALSE),
              InUse(MediaVersion + 1, TRUE)} : r \in DiskType /\ r.flags = {}
<1>1. Blank \in DiskType /\ Blank.flags = {}
  BY DEF Blank, DiskType
<1>2. Foreign \in DiskType /\ Foreign.flags = {}
  BY <1>1 DEF Foreign, DiskType
<1>3. HalfWiped \in DiskType /\ HalfWiped.flags = {}
  BY <1>2 DEF HalfWiped, DiskType
<1>4. ASSUME NEW v \in Nat, NEW b \in BOOLEAN
      PROVE  InUse(v, b) \in DiskType /\ InUse(v, b).flags = {}
  <2>1. Partitions \in SUBSET Partitions
    OBVIOUS
  <2> QED BY <1>1, <2>1 DEF InUse, DiskType
<1>5. MediaVersion \in Nat /\ MediaVersion + 1 \in Nat
  BY InstallAssumption
<1> QED BY <1>1, <1>2, <1>3, <1>4, <1>5

\* A machine that is off, with the media plugged in (or external seeds).
LEMMA InstallInitInv == ASSUME InstallInit PROVE InstallInv
<1>1. disk \in [Disks -> DiskType] /\ \A d \in Disks : disk[d].flags = {}
  <2>1. PICK d \in Disks, first \in {Blank, Foreign, HalfWiped, InUse(MediaVersion, TRUE),
                                     InUse(MediaVersion, FALSE), InUse(MediaVersion + 1, TRUE)},
             others \in {Blank, Foreign} :
             disk = [e \in Disks |-> IF e = d THEN first ELSE others]
    BY DEF InstallInit
  <2>2. first \in DiskType /\ first.flags = {} /\ others \in DiskType /\ others.flags = {}
    BY FirstDisks
  <2> QED BY <2>1, <2>2
<1>2. host = [step |-> "off", from |-> "media", source |-> "media", swtpm |-> FALSE, boot |-> TRUE]
  BY DEF InstallInit
<1>3. firmware \in [secureBoot : BOOLEAN, tpm : BOOLEAN, complete : BOOLEAN] /\ ~firmware.complete
  BY DEF InstallInit
<1>4. media \in [plugged : BOOLEAN, config : Configs, readonly : BOOLEAN, extra : SUBSET SourceExtra]
  BY DEF InstallInit, Configs
<1>5. external \in [plugged : BOOLEAN, config : Configs, files : SUBSET SeedNames]
  BY DEF InstallInit, Configs
<1>6. InstallTypes
  BY <1>1, <1>2, <1>3, <1>4, <1>5, InstallAssumption DEF InstallInit, InstallTypes, InstallSteps
<1>7. SourceStarted
  BY <1>2, InstallAssumption DEF SourceStarted
<1>8. host.step \notin Writing /\ wiped = {}
  BY <1>2 DEF Writing, InstallInit
<1> QED
  BY <1>1, <1>2, <1>3, <1>6, <1>7, <1>8 DEF InstallInv, FlagsTrue, NoneToLose, UnderWay,
     TPMAtHand, Written, PartitionsKept, CompleteIsBootable, Defined, Copied, Cleared, Flagged,
     Writing

\* The daemon goes on at another step.
LEMMA HostStep ==
    ASSUME InstallTypes, NEW s \in InstallSteps, host' = [host EXCEPT !.step = s]
    PROVE  /\ host' \in [step : InstallSteps, from : Disks \cup {"media"},
                         source : Disks \cup {"media"}, swtpm : BOOLEAN, boot : BOOLEAN]
           /\ host'.step = s /\ host'.from = host.from /\ host'.source = host.source
           /\ host'.swtpm = host.swtpm /\ host'.boot = host.boot
BY DEF InstallTypes

\* One disk is written.
LEMMA DiskWritten ==
    ASSUME InstallTypes, NEW d \in Disks, NEW r \in DiskType, disk' = [disk EXCEPT ![d] = r]
    PROVE  /\ disk' \in [Disks -> DiskType] /\ disk'[d] = r
           /\ \A e \in Disks \ {d} : disk'[e] = disk[e]
BY DEF InstallTypes

\* A step after which nothing is being written: what matters is what has been removed, the
\* flags, and that a complete installation stays as it is.
LEMMA AtRest ==
    ASSUME InstallInv, InstallTypes', host'.step \notin Writing, SourceStarted', FlagsTrue',
           PartitionsKept', firmware'.secureBoot = firmware.secureBoot,
           firmware'.tpm = firmware.tpm,
           firmware'.complete => /\ firmware.complete /\ plan' = plan
                                 /\ LET t == plan.target IN
                                    /\ disk'[t].table = disk[t].table /\ disk'[t].loader = disk[t].loader
                                    /\ disk'[t].copied = disk[t].copied /\ disk'[t].seeds = disk[t].seeds
                                    /\ disk[t].flags \subseteq disk'[t].flags
    PROVE  InstallInv'
<1>1. /\ NoneToLose' /\ UnderWay' /\ TPMAtHand' /\ Written'
  BY DEF NoneToLose, UnderWay, TPMAtHand, Written, Defined, Copied, Cleared, Flagged, Writing
<1>2. (firmware.complete => plan.target \in Disks)'
  BY DEF InstallInv
<1>3. CompleteIsBootable'
  <2> SUFFICES ASSUME firmware'.complete PROVE CompleteIsBootable'
    BY DEF CompleteIsBootable
  <2>1. /\ plan.target \in Disks /\ CompleteIsBootable /\ plan' = plan /\ firmware.complete
        /\ firmware.secureBoot \in BOOLEAN /\ firmware.tpm \in BOOLEAN
    BY DEF InstallInv, InstallTypes
  <2> DEFINE F == disk[plan.target].flags  G == disk'[plan.target].flags
  <2>2. ("swtpm" \in F) = (firmware.secureBoot /\ ~firmware.tpm)
        /\ ("sb-disabled" \in F) = ~firmware.secureBoot
    BY <2>1 DEF CompleteIsBootable
  <2>3. F \subseteq G
    OBVIOUS
  <2>4. /\ "swtpm" \in G => firmware.secureBoot /\ ~firmware.tpm
        /\ "sb-disabled" \in G => ~firmware.secureBoot
    BY <2>1 DEF FlagsTrue, NeedsSwtpm
  <2>5. ("swtpm" \in G) = (firmware.secureBoot /\ ~firmware.tpm)
        /\ ("sb-disabled" \in G) = ~firmware.secureBoot
    BY <2>2, <2>3, <2>4
  <2> HIDE DEF F
  <2> QED BY <2>1, <2>5 DEF CompleteIsBootable
<1> QED BY <1>1, <1>2, <1>3 DEF InstallInv

\* Nothing is written yet, or not any more.
LEMMA StepsApart ==
    /\ \A s \in {"off", "start", "check", "refused", "done", "live", "running"} :
         s \in InstallSteps /\ s \notin Writing
    /\ Writing \subseteq InstallSteps
BY DEF InstallSteps, Writing

\* Starting, checking the requirements and running keep the invariant.
LEMMA StartInv ==
    ASSUME InstallInv, Boot \/ StartDaemon \/ CheckLive
    PROVE  InstallInv'
<1>t. InstallTypes /\ PartitionsKept /\ FlagsTrue /\ SourceStarted
  BY DEF InstallInv
<1>1. CASE Boot
  <2>1. UNCHANGED <<disk, external, firmware, plan, acts, wiped>>
    BY <1>1 DEF Boot
  <2>2. PICK from \in Disks \cup {"media"}, source \in Disks \cup {"media"} :
            /\ host' = [step |-> "start", from |-> from, source |-> source, swtpm |-> FALSE, boot |-> TRUE]
            /\ from # "media" => source = from
    BY <1>1 DEF Boot
  <2>3. media' \in [plugged : BOOLEAN, config : Configs, readonly : BOOLEAN, extra : SUBSET SourceExtra]
    BY <1>1, <1>t DEF Boot, InstallTypes
  <2>4. InstallTypes'
    BY <1>t, <2>1, <2>2, <2>3, StepsApart DEF InstallTypes
  <2>5. SourceStarted' /\ host'.step \notin Writing
    BY <2>2, StepsApart, InstallAssumption DEF SourceStarted
  <2>6. PartitionsKept' /\ FlagsTrue'
    BY <1>t, <2>1 DEF PartitionsKept, FlagsTrue, NeedsSwtpm
  <2> QED BY <2>1, <2>4, <2>5, <2>6, AtRest
<1>2. CASE StartDaemon
  <2>1. UNCHANGED <<disk, media, external, plan, acts, wiped>>
    BY <1>2 DEF StartDaemon
  <2>2. /\ firmware' \in [secureBoot : BOOLEAN, tpm : BOOLEAN, complete : BOOLEAN]
        /\ firmware'.secureBoot = firmware.secureBoot /\ firmware'.tpm = firmware.tpm
        /\ firmware'.complete => firmware.complete
    BY <1>2, <1>t DEF StartDaemon, InstallTypes
  <2>3. /\ host' \in [step : InstallSteps, from : Disks \cup {"media"}, source : Disks \cup {"media"},
                      swtpm : BOOLEAN, boot : BOOLEAN]
        /\ host'.step = "check" /\ host'.from = host.from /\ host'.source = host.source
    BY <1>2, <1>t, HostStep, StepsApart DEF StartDaemon
  <2>4. InstallTypes'
    BY <1>t, <2>1, <2>2, <2>3 DEF InstallTypes
  <2>5. PartitionsKept' /\ FlagsTrue' /\ SourceStarted'
    BY <1>t, <2>1, <2>2, <2>3 DEF PartitionsKept, FlagsTrue, NeedsSwtpm, SourceStarted
  <2> QED BY <2>1, <2>2, <2>3, <2>4, <2>5, StepsApart, AtRest
<1>3. CASE CheckLive
  <2>1. UNCHANGED <<media, external, firmware, plan, acts, wiped>>
    BY <1>3 DEF CheckLive
  <2>2. PICK s \in {"refused", "off", "live", "running"} : host' = [host EXCEPT !.step = s]
    BY <1>3 DEF CheckLive, Refuse, ConfigureSWTPM
  <2>3. /\ host' \in [step : InstallSteps, from : Disks \cup {"media"}, source : Disks \cup {"media"},
                      swtpm : BOOLEAN, boot : BOOLEAN]
        /\ host'.step \notin Writing /\ host'.from = host.from /\ host'.source = host.source
    BY <1>t, <2>2, HostStep, StepsApart
  <2>4. PartitionsKept' /\ SourceStarted'
    BY <1>t, <2>1, <2>3 DEF PartitionsKept, SourceStarted
  <2> DEFINE d == host.from
  <2>5. CASE disk' = disk
    <3>1. InstallTypes' /\ FlagsTrue'
      BY <1>t, <2>1, <2>3, <2>5 DEF InstallTypes, FlagsTrue, NeedsSwtpm
    <3> QED BY <2>1, <2>3, <2>4, <2>5, <3>1, AtRest
  <2>6. CASE d \in Disks /\ firmware.secureBoot /\ ~WorkingTPM
             /\ disk' = [disk EXCEPT ![d].flags = @ \cup {"swtpm"}]
    <3> DEFINE r == [disk[d] EXCEPT !.flags = @ \cup {"swtpm"}]
    <3>1. disk' = [disk EXCEPT ![d] = r] /\ disk[d] \in DiskType
      BY <1>t, <2>6 DEF InstallTypes
    <3>2. /\ r \in DiskType /\ r.flags = disk[d].flags \cup {"swtpm"} /\ r.table = disk[d].table
          /\ r.loader = disk[d].loader /\ r.copied = disk[d].copied /\ r.seeds = disk[d].seeds
      BY <3>1 DEF DiskType
    <3> HIDE DEF r
    <3>3. /\ disk' \in [Disks -> DiskType] /\ disk'[d] = r
          /\ \A e \in Disks \ {d} : disk'[e] = disk[e]
      BY <1>t, <2>6, <3>1, <3>2, DiskWritten
    <3>4. InstallTypes'
      BY <1>t, <2>1, <2>3, <3>3 DEF InstallTypes
    <3>5. FlagsTrue'
      BY <1>t, <2>1, <2>6, <3>2, <3>3 DEF FlagsTrue, NeedsSwtpm, WorkingTPM, PhysicalTPM
    <3>6. firmware.complete => plan.target \in Disks
      BY DEF InstallInv
    <3> QED BY <2>1, <2>3, <2>4, <3>2, <3>3, <3>4, <3>5, <3>6, AtRest
  <2>7. CASE d \in Disks /\ disk' = [disk EXCEPT ![d].holds = "incusos", ![d].sealed = TRUE,
                        ![d].flags = IF firmware.secureBoot THEN @ ELSE @ \cup {"sb-disabled"}]
    <3> DEFINE r == [disk[d] EXCEPT !.holds = "incusos", !.sealed = TRUE,
                        !.flags = IF firmware.secureBoot THEN @ ELSE @ \cup {"sb-disabled"}]
    <3>1. disk' = [disk EXCEPT ![d] = r] /\ disk[d] \in DiskType
      BY <1>t, <2>7 DEF InstallTypes, DiskType
    <3>2. /\ r \in DiskType /\ r.table = disk[d].table
          /\ r.flags = IF firmware.secureBoot THEN disk[d].flags ELSE disk[d].flags \cup {"sb-disabled"}
          /\ r.loader = disk[d].loader /\ r.copied = disk[d].copied /\ r.seeds = disk[d].seeds
      BY <3>1 DEF DiskType
    <3> HIDE DEF r
    <3>3. /\ disk' \in [Disks -> DiskType] /\ disk'[d] = r
          /\ \A e \in Disks \ {d} : disk'[e] = disk[e]
      BY <1>t, <2>7, <3>1, <3>2, DiskWritten
    <3>4. InstallTypes'
      BY <1>t, <2>1, <2>3, <3>3 DEF InstallTypes
    <3>5. FlagsTrue'
      BY <1>t, <2>1, <2>7, <3>2, <3>3 DEF FlagsTrue, NeedsSwtpm
    <3>6. firmware.complete => plan.target \in Disks
      BY DEF InstallInv
    <3> QED BY <2>1, <2>3, <2>4, <3>2, <3>3, <3>4, <3>5, <3>6, AtRest
  <2> QED
    <3>1. host.from # "media" => host.from \in Disks
      BY <1>t DEF InstallTypes
    <3> QED BY <1>3, <2>5, <2>6, <2>7, <3>1 DEF CheckLive, ConfigureSWTPM
<1> QED BY <1>1, <1>2, <1>3

\* The target is a disk other than the source.
LEMMA TargetChosen ==
    ASSUME NEW seed, NEW d \in GetTargetDevice(seed)
    PROVE  d \in Disks /\ d # host.source
BY DEF GetTargetDevice, GetAllTargets, Matching

\* The decision to install keeps the invariant.
LEMMA CheckInstallInv == ASSUME InstallInv, CheckInstall PROVE InstallInv'
<1>t. InstallTypes /\ PartitionsKept /\ FlagsTrue /\ SourceStarted
  BY DEF InstallInv
<1>0. InstallSeed \in InstallConfigs /\ InstallSeed.force \in BOOLEAN /\ InstallSeed.confirm \in BOOLEAN
  <2>1. InstallSeed \in Configs
    BY <1>t DEF InstallTypes, InstallSeed, FromUserPartition, FromRawTar, Configs
  <2>2. InstallSeed \in InstallConfigs
    BY <2>1 DEF CheckInstall, ShouldPerformInstall, Configs
  <2> QED BY <2>2, InstallAssumption
<1>1. UNCHANGED <<media, external, acts>>
  BY DEF CheckInstall
<1>2. /\ firmware' \in [secureBoot : BOOLEAN, tpm : BOOLEAN, complete : BOOLEAN]
      /\ firmware'.secureBoot = firmware.secureBoot /\ firmware'.tpm = firmware.tpm
      /\ firmware'.complete => firmware.complete
  BY <1>t DEF CheckInstall, InstallTypes
<1>3. CASE Refuse /\ UNCHANGED <<disk, plan, wiped>>
  <2>1. /\ host' \in [step : InstallSteps, from : Disks \cup {"media"}, source : Disks \cup {"media"},
                      swtpm : BOOLEAN, boot : BOOLEAN]
        /\ host'.step = "refused" /\ host'.from = host.from /\ host'.source = host.source
    BY <1>3, <1>t, HostStep, StepsApart DEF Refuse
  <2>2. InstallTypes'
    BY <1>t, <1>1, <1>2, <1>3, <2>1 DEF InstallTypes
  <2>3. PartitionsKept' /\ FlagsTrue' /\ SourceStarted'
    BY <1>t, <1>2, <1>3, <2>1 DEF PartitionsKept, FlagsTrue, NeedsSwtpm, SourceStarted
  <2> QED BY <1>2, <1>3, <2>1, <2>2, <2>3, StepsApart, AtRest
<1>4. CASE /\ ~firmware'.complete /\ plan' = plan
           /\ \E d \in ExistingInstalls :
                /\ wiped' = wiped \cup {Removal(d, TRUE, TRUE)}
                /\ disk' = [disk EXCEPT ![d] = Blank]
           /\ host' = [host EXCEPT !.step = "off"]
  <2>1. PICK d \in ExistingInstalls : /\ wiped' = wiped \cup {Removal(d, TRUE, TRUE)}
                                      /\ disk' = [disk EXCEPT ![d] = Blank]
    BY <1>4
  <2>2. d \in Disks /\ Blank \in DiskType /\ Blank.flags = {}
    BY FirstDisks DEF ExistingInstalls
  <2>3. /\ disk' \in [Disks -> DiskType] /\ disk'[d] = Blank
        /\ \A e \in Disks \ {d} : disk'[e] = disk[e]
    BY <1>t, <2>1, <2>2, DiskWritten
  <2>4. /\ host' \in [step : InstallSteps, from : Disks \cup {"media"}, source : Disks \cup {"media"},
                      swtpm : BOOLEAN, boot : BOOLEAN]
        /\ host'.step = "off" /\ host'.from = host.from /\ host'.source = host.source
    BY <1>4, <1>t, HostStep, StepsApart
  <2>5. InstallTypes'
    BY <1>t, <1>1, <1>2, <1>4, <2>3, <2>4 DEF InstallTypes
  <2>6. FlagsTrue' /\ SourceStarted'
    BY <1>t, <1>2, <2>2, <2>3, <2>4 DEF FlagsTrue, NeedsSwtpm, SourceStarted
  <2>7. PartitionsKept'
    BY <1>t, <2>1 DEF PartitionsKept, Removal
  <2> QED BY <1>2, <1>4, <2>4, <2>5, <2>6, <2>7, StepsApart, AtRest
<1>5. CASE /\ ~firmware'.complete /\ ExistingInstalls = {} /\ UNCHANGED <<disk, wiped>>
           /\ \E d \in GetTargetDevice(InstallSeed) : DoInstall(InstallSeed, d)
  <2>1. PICK d \in GetTargetDevice(InstallSeed) : DoInstall(InstallSeed, d)
    BY <1>5
  <2>2. d \in Disks /\ d # host.source
    BY TargetChosen
  <2>3. /\ plan' = [target |-> d, force |-> InstallSeed.force]
        /\ host' = [host EXCEPT !.step = "wipe", !.swtpm = firmware.secureBoot /\ ~WorkingTPM]
    BY <2>1 DEF DoInstall
  <2>4. (firmware.secureBoot /\ ~WorkingTPM) \in BOOLEAN /\ "wipe" \in InstallSteps
    BY DEF InstallSteps, Writing
  <2>5. /\ host' \in [step : InstallSteps, from : Disks \cup {"media"}, source : Disks \cup {"media"},
                      swtpm : BOOLEAN, boot : BOOLEAN]
        /\ host'.step = "wipe" /\ host'.from = host.from /\ host'.source = host.source
        /\ host'.swtpm = (firmware.secureBoot /\ ~WorkingTPM)
    BY <1>t, <2>3, <2>4 DEF InstallTypes
  <2>6. plan' \in [target : Disks \cup {"none"}, force : BOOLEAN] /\ plan'.target = d
    BY <1>0, <2>2, <2>3
  <2>7. InstallTypes'
    BY <1>t, <1>1, <1>2, <1>5, <2>5, <2>6 DEF InstallTypes
  <2>8. FlagsTrue' /\ SourceStarted' /\ PartitionsKept'
    BY <1>t, <1>2, <1>5, <2>5 DEF FlagsTrue, NeedsSwtpm, SourceStarted, PartitionsKept
  <2>9. NoneToLose'
    <3>1. ExistingInstalls' = ExistingInstalls
      BY <1>5, <2>5 DEF ExistingInstalls
    <3> QED BY <1>5, <3>1 DEF NoneToLose
  <2>10. UnderWay'
    BY <1>5, <2>2, <2>5, <2>6 DEF UnderWay
  <2>11. TPMAtHand'
    BY <1>t, <1>2, <1>5, <2>5 DEF TPMAtHand, NeedsSwtpm, WorkingTPM, PhysicalTPM, SwtpmRuns,
       SourceStarted
  <2>12. Written'
    BY <2>5 DEF Written, Defined, Copied, Cleared, Flagged
  <2> QED
    BY <1>5, <2>6, <2>7, <2>8, <2>9, <2>10, <2>11, <2>12, <2>2 DEF InstallInv, CompleteIsBootable
<1> QED BY <1>0, <1>3, <1>4, <1>5 DEF CheckInstall

\* A writing step that leaves everything but the step of the daemon alone, or ends in a restart.
LEMMA WritingStops ==
    ASSUME InstallInv, host.step \in Writing, InstallTypes',
           host'.step \notin Writing, host'.from = host.from, host'.source = host.source,
           UNCHANGED <<firmware, plan>>, FlagsTrue', PartitionsKept'
    PROVE  InstallInv'
<1>1. ~firmware.complete /\ SourceStarted'
  BY DEF InstallInv, UnderWay, SourceStarted
<1> QED BY <1>1, AtRest

\* The steps of performInstall up to the copy keep the invariant.
LEMMA PrepareInv ==
    ASSUME InstallInv, WipeTarget \/ UnmountBoot \/ CleanMedia \/ DefinePartitions
    PROVE  InstallInv'
<1>t. InstallTypes /\ PartitionsKept /\ FlagsTrue /\ SourceStarted
  BY DEF InstallInv
<1>0. /\ host.step \in {"wipe", "unmount", "clean", "define"} /\ host.step \in Writing
      /\ UNCHANGED <<external, firmware, plan, acts>>
  BY DEF WipeTarget, UnmountBoot, CleanMedia, DefinePartitions, Writing
<1> DEFINE t == plan.target
<1>u. t \in Disks /\ t # host.source /\ ~firmware.complete /\ disk[t] \in DiskType
  BY <1>t, <1>0 DEF InstallInv, UnderWay, InstallTypes
<1>s. ASSUME NEW s \in {"start", "unmount", "clean", "define", "esp"}, host' = [host EXCEPT !.step = s]
      PROVE  /\ host' \in [step : InstallSteps, from : Disks \cup {"media"}, source : Disks \cup {"media"},
                           swtpm : BOOLEAN, boot : BOOLEAN]
             /\ host'.step = s /\ host'.from = host.from /\ host'.source = host.source
             /\ host'.swtpm = host.swtpm
  <2>1. s \in InstallSteps
    BY DEF InstallSteps, Writing
  <2> QED BY <1>t, <1>s, <2>1, HostStep
<1>k. ASSUME InstallTypes', host'.step \in {"unmount", "clean", "define"},
             host'.from = host.from, host'.source = host.source, host'.swtpm = host.swtpm,
             FlagsTrue', PartitionsKept', ExistingInstalls' \subseteq ExistingInstalls,
             host.step \in {"wipe", "unmount", "clean"},
             \A d \in Disks : d = host.source => disk'[d].flags = disk[d].flags
      PROVE  InstallInv'
  <2>1. ExistingInstalls' = {}
    BY <1>k DEF InstallInv, NoneToLose
  <2>2. UnderWay' /\ SourceStarted'
    BY <1>t, <1>k, <1>0, <1>u DEF UnderWay, SourceStarted
  <2>3. TPMAtHand'
    <3>1. host.step \in Writing \ {"tpm", "loader", "mark"}
      BY <1>k DEF Writing
    <3>2. NeedsSwtpm' = NeedsSwtpm
      BY <1>0 DEF NeedsSwtpm
    <3> QED BY <1>k, <3>1, <3>2 DEF InstallInv, TPMAtHand
  <2>4. Written'
    BY <1>k DEF Written, Defined, Copied, Cleared, Flagged
  <2> QED BY <1>k, <1>0, <1>u, <2>1, <2>2, <2>3, <2>4 DEF InstallInv, NoneToLose, CompleteIsBootable
<1>1. CASE WipeTarget
  <2>1. CASE Step("start") /\ UNCHANGED <<disk, wiped>>
    <3>1. InstallTypes' /\ host'.step = "start" /\ host'.from = host.from /\ host'.source = host.source
      BY <1>t, <1>0, <1>1, <1>s, <2>1 DEF WipeTarget, Step, InstallTypes
    <3>2. FlagsTrue' /\ PartitionsKept'
      BY <1>t, <1>0, <2>1 DEF FlagsTrue, NeedsSwtpm, PartitionsKept
    <3> QED BY <1>0, <3>1, <3>2, StepsApart, WritingStops
  <2>2. CASE /\ Target.table = "gpt" => plan.force
             /\ wiped' = wiped \cup {Removal(t, plan.force, FALSE)}
             /\ disk' = [disk EXCEPT ![t] = Blank]
             /\ Step("unmount")
    <3>1. Blank \in DiskType /\ Blank.flags = {} /\ Blank.holds = "nothing"
      BY FirstDisks DEF Blank
    <3>2. /\ disk' \in [Disks -> DiskType] /\ disk'[t] = Blank
          /\ \A e \in Disks \ {t} : disk'[e] = disk[e]
      BY <1>t, <1>u, <2>2, <3>1, DiskWritten
    <3>3. InstallTypes' /\ host'.step = "unmount" /\ host'.from = host.from
          /\ host'.source = host.source /\ host'.swtpm = host.swtpm
      BY <1>t, <1>0, <1>1, <1>s, <2>2, <3>2 DEF WipeTarget, Step, InstallTypes
    <3>4. FlagsTrue'
      BY <1>t, <1>0, <3>1, <3>2 DEF FlagsTrue, NeedsSwtpm
    <3>5. ExistingInstalls = {}
      BY <1>1 DEF WipeTarget, InstallInv, NoneToLose
    <3>6. PartitionsKept'
      <4> DEFINE w == Removal(t, plan.force, FALSE)
      <4>0. w.known <=> t \in ExistingInstalls
        BY DEF Removal
      <4>1. w.table = disk[t].table /\ w.force = plan.force /\ ~w.known
        BY <3>5, <4>0 DEF Removal
      <4>2. w.table = "gpt" => w.force
        BY <2>2, <4>1 DEF Target
      <4> HIDE DEF w
      <4> QED BY <1>t, <2>2, <4>1, <4>2 DEF PartitionsKept, w
    <3>7. ExistingInstalls' \subseteq ExistingInstalls
      BY <3>1, <3>2, <3>3 DEF ExistingInstalls
    <3>8. host.step = "wipe" /\ \A d \in Disks : d = host.source => disk'[d].flags = disk[d].flags
      BY <1>1, <1>u, <3>2 DEF WipeTarget
    <3> QED BY <1>k, <3>3, <3>4, <3>6, <3>7, <3>8
  <2> QED
    <3>1. plan.force \in BOOLEAN
      BY <1>t DEF InstallTypes
    <3> QED BY <1>1, <2>1, <2>2, <3>1 DEF WipeTarget
<1>2. CASE UnmountBoot
  <2> DEFINE s == IF host.boot \/ media.readonly THEN "clean" ELSE "start"
  <2>1. host' = [host EXCEPT !.step = s, !.boot = FALSE] /\ UNCHANGED <<disk, media, wiped>>
    BY <1>2 DEF UnmountBoot
  <2>2. s \in {"clean", "start"} /\ s \in InstallSteps
    BY DEF InstallSteps, Writing
  <2> HIDE DEF s
  <2>3. /\ host' \in [step : InstallSteps, from : Disks \cup {"media"}, source : Disks \cup {"media"},
                      swtpm : BOOLEAN, boot : BOOLEAN]
        /\ host'.step = s /\ host'.from = host.from /\ host'.source = host.source
        /\ host'.swtpm = host.swtpm
    BY <1>t, <2>1, <2>2 DEF InstallTypes
  <2>4. InstallTypes'
    BY <1>t, <1>0, <2>1, <2>3 DEF InstallTypes
  <2>5. FlagsTrue' /\ PartitionsKept' /\ ExistingInstalls' = ExistingInstalls
    BY <1>t, <1>0, <2>1, <2>3 DEF FlagsTrue, NeedsSwtpm, PartitionsKept, ExistingInstalls
  <2>6. CASE s = "clean"
    BY <1>2, <1>k, <2>1, <2>3, <2>4, <2>5, <2>6 DEF UnmountBoot
  <2>7. CASE s = "start"
    BY <1>0, <2>3, <2>4, <2>5, <2>7, StepsApart, WritingStops
  <2> QED BY <2>2, <2>6, <2>7
<1>3. CASE CleanMedia
  <2>m. host.step = "clean" /\ ExistingInstalls = {}
    BY <1>3 DEF CleanMedia, InstallInv, NoneToLose
  <2>1. CASE \E n \in SourceExtra :
                 /\ media' = [media EXCEPT !.extra = {m \in @ : m > n}]
                 /\ Step(IF n = 11 THEN "define" ELSE "start") /\ UNCHANGED <<disk, wiped>>
    <3>1. PICK s \in {"define", "start"} : host' = [host EXCEPT !.step = s]
      BY <2>1 DEF Step
    <3>2. media' \in [plugged : BOOLEAN, config : Configs, readonly : BOOLEAN, extra : SUBSET SourceExtra]
      BY <1>t, <2>1 DEF InstallTypes
    <3>3. InstallTypes' /\ host'.step = s /\ host'.from = host.from /\ host'.source = host.source
          /\ host'.swtpm = host.swtpm
      BY <1>t, <1>0, <1>s, <2>1, <3>1, <3>2 DEF InstallTypes
    <3>4. FlagsTrue' /\ PartitionsKept' /\ ExistingInstalls' = ExistingInstalls
      BY <1>t, <1>0, <2>1, <3>3 DEF FlagsTrue, NeedsSwtpm, PartitionsKept, ExistingInstalls
    <3>5. CASE s = "define"
      BY <1>k, <2>1, <2>m, <3>3, <3>4, <3>5
    <3>6. CASE s = "start"
      BY <1>0, <3>3, <3>4, <3>6, StepsApart, WritingStops
    <3> QED BY <3>5, <3>6
  <2>2. CASE /\ host.source \in Disks
             /\ wiped' = wiped \cup {Removal(host.source, plan.force, FALSE)}
             /\ disk' = [disk EXCEPT ![host.source].holds = "image"]
             /\ Step("define") /\ UNCHANGED media
    <3> DEFINE d == host.source  r == [disk[d] EXCEPT !.holds = "image"]
    <3>1. disk[d] \in DiskType /\ d \in Disks
      BY <1>t, <2>2 DEF InstallTypes
    <3>2. r \in DiskType /\ r.flags = disk[d].flags /\ r.holds = "image"
      BY <3>1 DEF DiskType
    <3> HIDE DEF r
    <3>3. /\ disk' \in [Disks -> DiskType] /\ disk'[d] = r
          /\ \A e \in Disks \ {d} : disk'[e] = disk[e]
      BY <1>t, <2>2, <3>1, <3>2, DiskWritten DEF r
    <3>4. InstallTypes' /\ host'.step = "define" /\ host'.from = host.from /\ host'.source = host.source
          /\ host'.swtpm = host.swtpm
      BY <1>t, <1>0, <1>s, <2>2, <3>3 DEF Step, InstallTypes
    <3>5. FlagsTrue'
      BY <1>t, <1>0, <3>2, <3>3 DEF FlagsTrue, NeedsSwtpm
    <3>6. PartitionsKept'
      <4> DEFINE w == Removal(d, plan.force, FALSE)
      <4>0. (w.known <=> d \in ExistingInstalls) /\ w.source
        BY DEF Removal
      <4>1. ~w.known /\ w.source
        BY <2>m, <4>0
      <4> HIDE DEF w
      <4> QED BY <1>t, <2>2, <4>1 DEF PartitionsKept, w
    <3>7. ExistingInstalls' \subseteq ExistingInstalls
      BY <3>2, <3>3, <3>4 DEF ExistingInstalls
    <3> QED BY <1>k, <2>m, <3>2, <3>3, <3>4, <3>5, <3>6, <3>7
  <2>3. CASE Step("define") /\ UNCHANGED <<disk, media, wiped>>
    <3>1. InstallTypes' /\ host'.step = "define" /\ host'.from = host.from /\ host'.source = host.source
          /\ host'.swtpm = host.swtpm
      BY <1>t, <1>0, <1>s, <2>3 DEF Step, InstallTypes
    <3>2. FlagsTrue' /\ PartitionsKept' /\ ExistingInstalls' = ExistingInstalls
      BY <1>t, <1>0, <2>3, <3>1 DEF FlagsTrue, NeedsSwtpm, PartitionsKept, ExistingInstalls
    <3> QED BY <1>k, <2>3, <2>m, <3>1, <3>2
  <2> QED BY <1>3, <2>1, <2>2, <2>3 DEF CleanMedia
<1>4. CASE DefinePartitions
  <2> DEFINE r == [disk[t] EXCEPT !.table = "gpt", !.holds = "image"]
  <2>1. disk' = [disk EXCEPT ![t] = r] /\ host.step = "define" /\ UNCHANGED <<media, wiped>>
        /\ host' = [host EXCEPT !.step = "esp"]
    BY <1>4 DEF DefinePartitions, CopyPartitionDefinition, Step
  <2>2. r \in DiskType /\ r.flags = disk[t].flags /\ r.table = "gpt"
    BY <1>u DEF DiskType
  <2> HIDE DEF r
  <2>3. /\ disk' \in [Disks -> DiskType] /\ disk'[t] = r
        /\ \A e \in Disks \ {t} : disk'[e] = disk[e]
    BY <1>t, <1>u, <2>1, <2>2, DiskWritten
  <2>4. InstallTypes' /\ host'.step = "esp" /\ host'.from = host.from /\ host'.source = host.source
        /\ host'.swtpm = host.swtpm
    BY <1>t, <1>0, <1>s, <2>1, <2>3 DEF InstallTypes
  <2>5. FlagsTrue' /\ PartitionsKept' /\ SourceStarted'
    BY <1>t, <1>0, <2>1, <2>2, <2>3, <2>4 DEF FlagsTrue, NeedsSwtpm, PartitionsKept, SourceStarted
  <2>6. NoneToLose' /\ UnderWay'
    BY <1>0, <1>u, <2>4 DEF NoneToLose, UnderWay
  <2>7. TPMAtHand'
    <3>1. host.step \in Writing \ {"tpm", "loader", "mark"} /\ NeedsSwtpm' = NeedsSwtpm
      BY <1>0, <2>1 DEF Writing, NeedsSwtpm
    <3> QED BY <1>u, <2>3, <2>4, <3>1 DEF InstallInv, TPMAtHand
  <2>8. Written'
    BY <1>0, <2>2, <2>3, <2>4 DEF Written, Target, Defined, Copied, Cleared, Flagged
  <2> QED BY <1>0, <1>u, <2>4, <2>5, <2>6, <2>7, <2>8 DEF InstallInv, CompleteIsBootable
<1> QED BY <1>1, <1>2, <1>3, <1>4

\* A step that writes the target after its table: the invariant follows from what the target
\* then holds.
LEMMA TargetWritten ==
    ASSUME InstallInv, host.step \in Defined, InstallTypes',
           NEW r \in DiskType, disk' = [disk EXCEPT ![plan.target] = r],
           UNCHANGED <<firmware, plan, wiped>>, host'.step \in Defined,
           host'.from = host.from, host'.source = host.source,
           /\ "swtpm" \in r.flags => NeedsSwtpm
           /\ "sb-disabled" \in r.flags => ~firmware.secureBoot,
           host'.step \notin Flagged => host.step \notin Flagged /\ host'.swtpm = host.swtpm,
           Written'
    PROVE  InstallInv'
<1>0. host.step \in Writing /\ host'.step \in Writing
  BY DEF Defined, Writing
<1>u. plan.target \in Disks /\ plan.target # host.source /\ ~firmware.complete
  BY <1>0 DEF InstallInv, UnderWay
<1>1. /\ disk'[plan.target] = r
      /\ \A e \in Disks \ {plan.target} : disk'[e] = disk[e]
  BY <1>u, DiskWritten DEF InstallInv
<1>2. NeedsSwtpm' = NeedsSwtpm
  BY DEF NeedsSwtpm
<1>3. FlagsTrue' /\ PartitionsKept' /\ SourceStarted'
  BY <1>1, <1>2 DEF InstallInv, FlagsTrue, PartitionsKept, SourceStarted
<1>4. NoneToLose' /\ UnderWay'
  BY <1>0, <1>u DEF NoneToLose, UnderWay, Defined
<1>5. TPMAtHand'
  <2>1. CASE host'.step \in Flagged
    BY <2>1 DEF TPMAtHand, Flagged, Cleared, Copied, Defined
  <2>2. CASE host'.step \notin Flagged
    <3>1. host.step \in Writing \ {"tpm", "loader", "mark"}
      BY <1>0, <2>2 DEF Flagged, Cleared, Copied, Defined
    <3> QED BY <1>1, <1>2, <1>u, <2>2, <3>1 DEF InstallInv, TPMAtHand
  <2> QED BY <2>1, <2>2
<1> QED BY <1>3, <1>4, <1>5, <1>u DEF InstallInv, CompleteIsBootable

\* The steps of performInstall that write the target keep the invariant.
LEMMA CopyInv ==
    ASSUME InstallInv,
           CopyESP \/ CopyPartition \/ CleanupPostInstall \/ WriteFlags \/ ClearTPM \/ InstallLoader
             \/ MarkComplete
    PROVE  InstallInv'
<1>t. InstallTypes /\ PartitionsKept /\ FlagsTrue /\ SourceStarted /\ Written
  BY DEF InstallInv
<1>0. /\ host.step \in Defined /\ host.step \in Writing
      /\ UNCHANGED <<media, external, plan, acts, wiped>>
  BY DEF CopyESP, CopyPartition, CleanupPostInstall, WriteFlags, ClearTPM, InstallLoader,
     MarkComplete, Defined, Writing
<1> DEFINE t == plan.target
<1>u. /\ t \in Disks /\ t # host.source /\ ~firmware.complete /\ disk[t] \in DiskType
      /\ Target = disk[t] /\ disk[t].table = "gpt"
  BY <1>t, <1>0 DEF InstallInv, UnderWay, InstallTypes, Written, Target
<1>s. ASSUME NEW s \in {"copy", "seed", "boot", "loader", "done"}, host' = [host EXCEPT !.step = s]
      PROVE  /\ host' \in [step : InstallSteps, from : Disks \cup {"media"}, source : Disks \cup {"media"},
                           swtpm : BOOLEAN, boot : BOOLEAN]
             /\ host'.step = s /\ host'.from = host.from /\ host'.source = host.source
             /\ host'.swtpm = host.swtpm
  <2>1. s \in InstallSteps
    BY DEF InstallSteps, Writing
  <2> QED BY <1>t, <1>s, <2>1, HostStep
<1>d. ASSUME NEW r \in DiskType, disk' = [disk EXCEPT ![t] = r], UNCHANGED firmware,
             host' \in [step : InstallSteps, from : Disks \cup {"media"}, source : Disks \cup {"media"},
                        swtpm : BOOLEAN, boot : BOOLEAN]
      PROVE  InstallTypes' /\ Target' = r
  BY <1>t, <1>0, <1>d, <1>u, DiskWritten DEF InstallTypes, Target
<1>f. /\ "swtpm" \in disk[t].flags => NeedsSwtpm
      /\ "sb-disabled" \in disk[t].flags => ~firmware.secureBoot
  BY <1>t, <1>u DEF FlagsTrue
<1>1. CASE CopyESP
  <2> DEFINE fl == IF host.source \in Disks THEN disk[host.source].flags ELSE {}
             r == [disk[t] EXCEPT !.copied = {1}, !.flags = fl]
  <2>1. disk' = [disk EXCEPT ![t].copied = {1}, ![t].flags = fl]
        /\ host' = [host EXCEPT !.step = "copy"] /\ host.step = "esp" /\ UNCHANGED firmware
    BY <1>1 DEF CopyESP, Step
  <2>2. fl \in SUBSET {"swtpm", "sb-disabled"}
        /\ ("swtpm" \in fl => NeedsSwtpm) /\ ("sb-disabled" \in fl => ~firmware.secureBoot)
    BY <1>t DEF InstallTypes, DiskType, FlagsTrue
  <2>3. NeedsSwtpm /\ ~host.swtpm => "swtpm" \in fl
    BY <2>1 DEF InstallInv, TPMAtHand, Writing
  <2> HIDE DEF fl
  <2>4. disk' = [disk EXCEPT ![t] = r]
    BY <1>t, <1>u, <2>1 DEF InstallTypes, DiskType
  <2>5. /\ r \in DiskType /\ r.flags = fl /\ r.copied = {1} /\ r.table = "gpt"
    <3>1. {1} \in SUBSET Partitions
      BY DEF Partitions
    <3> QED BY <1>u, <2>2, <3>1 DEF DiskType
  <2> HIDE DEF r
  <2>6. InstallTypes' /\ Target' = r /\ host'.step = "copy" /\ host'.from = host.from
        /\ host'.source = host.source /\ host'.swtpm = host.swtpm /\ NeedsSwtpm' = NeedsSwtpm
    BY <1>d, <1>s, <2>1, <2>4, <2>5 DEF NeedsSwtpm
  <2>7. Written'
    BY <2>3, <2>5, <2>6 DEF Written, Defined, Copied, Cleared, Flagged
  <2> QED
    BY <1>0, <2>1, <2>2, <2>4, <2>5, <2>6, <2>7, TargetWritten DEF Defined, Copied, Cleared, Flagged
<1>2. CASE CopyPartition
  <2> DEFINE n == 1 + Cardinality(disk[t].copied)
             cp == disk[t].copied \cup {n}
             se == IF n = 2 THEN SourceSeeds ELSE disk[t].seeds
             ve == IF host.source = "media" THEN MediaVersion ELSE disk[host.source].version
             st == IF n = 3 THEN "seed" ELSE "copy"
             r == [disk[t] EXCEPT !.copied = cp, !.seeds = se, !.version = ve]
  <2>1. host.step = "copy" /\ UNCHANGED firmware /\ host' = [host EXCEPT !.step = st]
    BY <1>2, <1>u DEF CopyPartition, Step
  <2>2. disk' = [disk EXCEPT ![t].copied = cp, ![t].seeds = se, ![t].version = ve]
    BY <1>2, <1>u, <1>t DEF CopyPartition, InstallTypes, DiskType
  <2>3. disk[t].copied = {1} \/ disk[t].copied = {1, 2}
    BY <1>t, <1>u, <2>1 DEF Written
  <2>4. (disk[t].copied = {1} => n = 2) /\ (disk[t].copied = {1, 2} => n = 3)
    <3>1. IsFiniteSet({1}) /\ Cardinality({1}) = 1
      BY FS_Singleton
    <3>2. Cardinality({1} \cup {2}) = 2
      BY <3>1, FS_AddElement
    <3>3. {1} \cup {2} = {1, 2}
      OBVIOUS
    <3> QED BY <3>1, <3>2, <3>3
  <2>5. \/ cp = {1, 2} /\ st = "copy"
        \/ cp = Partitions /\ st = "seed"
    BY <2>3, <2>4 DEF Partitions
  <2>6. se \in SUBSET (SeedNames \cup {"install"}) /\ ve \in Nat
    BY <1>t, <1>u, InstallAssumption DEF SourceSeeds, InstallTypes, DiskType
  <2> HIDE DEF n, cp, se, ve, st
  <2>7. disk' = [disk EXCEPT ![t] = r]
    BY <1>t, <1>u, <2>2 DEF InstallTypes, DiskType
  <2>8. /\ r \in DiskType /\ r.flags = disk[t].flags /\ r.copied = cp /\ r.table = "gpt"
    <3>1. cp \in SUBSET Partitions
      BY <2>5 DEF Partitions
    <3> QED BY <1>u, <2>6, <3>1 DEF DiskType
  <2> HIDE DEF r
  <2>9. InstallTypes' /\ Target' = r /\ host'.step = st /\ host'.from = host.from
        /\ host'.source = host.source /\ host'.swtpm = host.swtpm /\ NeedsSwtpm' = NeedsSwtpm
    BY <1>d, <1>s, <2>1, <2>5, <2>7, <2>8 DEF NeedsSwtpm
  <2>10. NeedsSwtpm /\ ~host.swtpm => "swtpm" \in r.flags
    BY <1>t, <1>u, <2>1, <2>8 DEF Written
  <2>11. Written'
    BY <2>5, <2>8, <2>9, <2>10 DEF Written, Defined, Copied, Cleared, Flagged
  <2>12. st \in {"copy", "seed"}
    BY <2>5
  <2> QED
    BY <1>0, <1>f, <2>1, <2>7, <2>8, <2>9, <2>11, <2>12, TargetWritten DEF Defined, Copied, Cleared, Flagged
<1>3. CASE CleanupPostInstall
  <2> DEFINE se == (disk[t].seeds \ {"install"}) \cup IF SeedPath = "external" THEN external.files ELSE {}
             r == [disk[t] EXCEPT !.seeds = se]
  <2>1. host.step = "seed" /\ UNCHANGED firmware /\ host' = [host EXCEPT !.step = "boot"]
        /\ disk' = [disk EXCEPT ![t] = r]
    BY <1>3 DEF CleanupPostInstall, Step
  <2>2. se \in SUBSET (SeedNames \cup {"install"}) /\ "install" \notin se
    BY <1>t, <1>u, InstallAssumption DEF InstallTypes, DiskType
  <2> HIDE DEF se
  <2>3. /\ r \in DiskType /\ r.flags = disk[t].flags /\ r.copied = disk[t].copied
        /\ r.table = "gpt" /\ r.seeds = se
    BY <1>u, <2>2 DEF DiskType
  <2> HIDE DEF r
  <2>4. InstallTypes' /\ Target' = r /\ host'.step = "boot" /\ host'.from = host.from
        /\ host'.source = host.source /\ host'.swtpm = host.swtpm /\ NeedsSwtpm' = NeedsSwtpm
    BY <1>d, <1>s, <2>1, <2>3 DEF NeedsSwtpm
  <2>5. (NeedsSwtpm /\ ~host.swtpm => "swtpm" \in r.flags) /\ r.copied = Partitions
    BY <1>t, <1>u, <2>1, <2>3 DEF Written, Copied, Defined
  <2>6. Written'
    BY <2>2, <2>3, <2>4, <2>5 DEF Written, Defined, Copied, Cleared, Flagged
  <2> QED
    BY <1>0, <1>f, <2>1, <2>3, <2>4, <2>6, TargetWritten DEF Defined, Copied, Cleared, Flagged
<1>4. CASE WriteFlags
  <2> DEFINE fl == disk[t].flags \cup (IF host.swtpm THEN {"swtpm"} ELSE {})
                     \cup IF firmware.secureBoot THEN {} ELSE {"sb-disabled"}
             r == [disk[t] EXCEPT !.flags = fl]
  <2>1. /\ host.step = "boot" /\ UNCHANGED firmware
        /\ host' = [host EXCEPT !.step = "tpm", !.swtpm = FALSE, !.boot = TRUE]
        /\ disk' = [disk EXCEPT ![t] = r]
    BY <1>4 DEF WriteFlags
  <2>2. fl \in SUBSET {"swtpm", "sb-disabled"} /\ host.swtpm \in BOOLEAN
        /\ firmware.secureBoot \in BOOLEAN
    BY <1>t, <1>u DEF InstallTypes, DiskType
  <2>3. host.swtpm => NeedsSwtpm
    BY <2>1 DEF InstallInv, TPMAtHand, Writing
  <2>4. NeedsSwtpm /\ ~host.swtpm => "swtpm" \in disk[t].flags
    BY <1>t, <1>u, <2>1 DEF Written
  <2>5. ("swtpm" \in fl <=> NeedsSwtpm) /\ ("sb-disabled" \in fl <=> ~firmware.secureBoot)
    BY <1>f, <2>2, <2>3, <2>4
  <2>6. disk[t].copied = Partitions /\ "install" \notin disk[t].seeds
    BY <1>t, <1>u, <2>1 DEF Written, Copied, Cleared, Defined
  <2> HIDE DEF fl
  <2>7. /\ r \in DiskType /\ r.flags = fl /\ r.copied = disk[t].copied
        /\ r.table = "gpt" /\ r.seeds = disk[t].seeds
    BY <1>u, <2>2 DEF DiskType
  <2> HIDE DEF r
  <2>8. /\ host' \in [step : InstallSteps, from : Disks \cup {"media"}, source : Disks \cup {"media"},
                      swtpm : BOOLEAN, boot : BOOLEAN]
        /\ host'.step = "tpm" /\ host'.from = host.from /\ host'.source = host.source
    <3>1. "tpm" \in InstallSteps
      BY DEF InstallSteps, Writing
    <3> QED BY <1>t, <2>1, <3>1 DEF InstallTypes
  <2>9. InstallTypes' /\ Target' = r /\ NeedsSwtpm' = NeedsSwtpm
    BY <1>d, <2>1, <2>7, <2>8 DEF NeedsSwtpm
  <2>10. NeedsSwtpm \in BOOLEAN
    BY <1>t DEF NeedsSwtpm, InstallTypes
  <2>11. ("swtpm" \in r.flags) = NeedsSwtpm /\ ("sb-disabled" \in r.flags) = ~firmware.secureBoot
    BY <2>2, <2>5, <2>7, <2>10
  <2>12. Written'
    BY <2>1, <2>6, <2>7, <2>8, <2>9, <2>11 DEF Written, Defined, Copied, Cleared, Flagged
  <2> QED
    BY <1>0, <2>1, <2>5, <2>7, <2>8, <2>9, <2>12, TargetWritten DEF Defined, Copied, Cleared, Flagged
<1>5. CASE ClearTPM
  <2>1. host.step = "tpm" /\ UNCHANGED firmware /\ host' = [host EXCEPT !.step = "loader"]
    BY <1>5 DEF ClearTPM, Step
  <2>2. disk' \in [Disks -> DiskType]
        /\ \A d \in Disks : /\ disk'[d].flags = disk[d].flags /\ disk'[d].table = disk[d].table
                            /\ disk'[d].copied = disk[d].copied /\ disk'[d].seeds = disk[d].seeds
    <3>1. CASE disk' = disk
      BY <1>t, <3>1 DEF InstallTypes
    <3>2. CASE disk' = [d \in Disks |-> [disk[d] EXCEPT !.sealed = FALSE]]
      <4>1. ASSUME NEW d \in Disks
            PROVE  /\ [disk[d] EXCEPT !.sealed = FALSE] \in DiskType
                   /\ disk'[d].flags = disk[d].flags /\ disk'[d].table = disk[d].table
                   /\ disk'[d].copied = disk[d].copied /\ disk'[d].seeds = disk[d].seeds
        <5>1. disk[d] \in DiskType /\ disk'[d] = [disk[d] EXCEPT !.sealed = FALSE]
          BY <1>t, <3>2, <4>1 DEF InstallTypes
        <5> QED BY <5>1 DEF DiskType
      <4> QED BY <3>2, <4>1
    <3> QED BY <1>5, <3>1, <3>2 DEF ClearTPM
  <2>3. InstallTypes' /\ host'.step = "loader" /\ host'.from = host.from /\ host'.source = host.source
    BY <1>t, <1>0, <1>s, <2>1, <2>2 DEF InstallTypes
  <2>4. FlagsTrue' /\ PartitionsKept' /\ SourceStarted' /\ NeedsSwtpm' = NeedsSwtpm
    BY <1>t, <1>0, <2>1, <2>2, <2>3 DEF FlagsTrue, NeedsSwtpm, PartitionsKept, SourceStarted
  <2>5. NoneToLose' /\ UnderWay' /\ TPMAtHand'
    BY <1>0, <1>u, <2>1, <2>3 DEF NoneToLose, UnderWay, TPMAtHand
  <2>6. Written'
    BY <1>t, <1>0, <1>u, <2>1, <2>2, <2>3, <2>4 DEF Written, Target, Defined, Copied, Cleared, Flagged
  <2> QED BY <1>0, <1>u, <2>1, <2>3, <2>4, <2>5, <2>6 DEF InstallInv, CompleteIsBootable
<1>6. CASE InstallLoader
  <2> DEFINE r == [disk[t] EXCEPT !.loader = TRUE]
  <2>1. /\ host.step = "loader" /\ UNCHANGED firmware
        /\ host' = [host EXCEPT !.step = "mark", !.boot = FALSE]
        /\ disk' = [disk EXCEPT ![t] = r]
    BY <1>6 DEF InstallLoader
  <2>2. /\ r \in DiskType /\ r.flags = disk[t].flags /\ r.copied = disk[t].copied
        /\ r.table = "gpt" /\ r.seeds = disk[t].seeds /\ r.loader
    BY <1>u DEF DiskType
  <2> HIDE DEF r
  <2>3. /\ host' \in [step : InstallSteps, from : Disks \cup {"media"}, source : Disks \cup {"media"},
                      swtpm : BOOLEAN, boot : BOOLEAN]
        /\ host'.step = "mark" /\ host'.from = host.from /\ host'.source = host.source
    <3>1. "mark" \in InstallSteps
      BY DEF InstallSteps, Writing
    <3> QED BY <1>t, <2>1, <3>1 DEF InstallTypes
  <2>4. InstallTypes' /\ Target' = r /\ NeedsSwtpm' = NeedsSwtpm
    BY <1>d, <2>1, <2>2, <2>3 DEF NeedsSwtpm
  <2>5. Written'
    BY <1>t, <1>u, <2>1, <2>2, <2>3, <2>4 DEF Written, Defined, Copied, Cleared, Flagged
  <2> QED
    BY <1>0, <1>f, <2>1, <2>2, <2>3, <2>4, <2>5, TargetWritten DEF Defined, Copied, Cleared, Flagged
<1>7. CASE MarkComplete
  <2>1. /\ host.step = "mark" /\ host' = [host EXCEPT !.step = "done"] /\ disk' = disk
        /\ firmware' = [firmware EXCEPT !.complete = TRUE]
    BY <1>7 DEF MarkComplete, Step
  <2>2. /\ firmware' \in [secureBoot : BOOLEAN, tpm : BOOLEAN, complete : BOOLEAN]
        /\ firmware'.secureBoot = firmware.secureBoot /\ firmware'.tpm = firmware.tpm
    BY <1>t, <2>1 DEF InstallTypes
  <2>3. InstallTypes' /\ host'.step = "done" /\ host'.from = host.from /\ host'.source = host.source
    BY <1>t, <1>0, <1>s, <2>1, <2>2 DEF InstallTypes
  <2>4. FlagsTrue' /\ PartitionsKept' /\ SourceStarted'
    BY <1>t, <1>0, <2>1, <2>2, <2>3 DEF FlagsTrue, NeedsSwtpm, PartitionsKept, SourceStarted
  <2>5. NoneToLose' /\ UnderWay' /\ TPMAtHand' /\ Written'
    BY <2>3, StepsApart DEF NoneToLose, UnderWay, TPMAtHand, Written, Defined, Copied, Cleared,
       Flagged
  <2>6. CompleteIsBootable'
    BY <1>t, <1>0, <1>u, <2>1, <2>2 DEF Written, CompleteIsBootable, NeedsSwtpm, Target, Defined,
       Copied, Cleared, Flagged
  <2> QED BY <1>0, <1>u, <2>3, <2>4, <2>5, <2>6 DEF InstallInv
<1> QED BY <1>1, <1>2, <1>3, <1>4, <1>5, <1>6, <1>7

\* Restarts, failures and the user keep the invariant.
LEMMA OutsideInv ==
    ASSUME InstallInv,
           RebootUponRemoval \/ InstallFails \/ PowerCycle \/ UserActs \/ UNCHANGED installVars
    PROVE  InstallInv'
<1>t. InstallTypes /\ PartitionsKept /\ FlagsTrue /\ SourceStarted
  BY DEF InstallInv
<1>1. CASE RebootUponRemoval \/ InstallFails \/ PowerCycle
  <2>1. UNCHANGED <<disk, media, external, firmware, plan, wiped>>
    BY <1>1 DEF RebootUponRemoval, InstallFails, PowerCycle
  <2>2. PICK s \in {"off", "start"} : host' = [host EXCEPT !.step = s]
    BY <1>1 DEF RebootUponRemoval, InstallFails, PowerCycle, Step
  <2>3. /\ host' \in [step : InstallSteps, from : Disks \cup {"media"}, source : Disks \cup {"media"},
                      swtpm : BOOLEAN, boot : BOOLEAN]
        /\ host'.step \notin Writing /\ host'.from = host.from /\ host'.source = host.source
    BY <1>t, <2>2, HostStep, StepsApart
  <2>4. acts' \in 0 .. Interventions
    BY <1>1, <1>t, InstallAssumption DEF RebootUponRemoval, InstallFails, PowerCycle, InstallTypes
  <2>5. InstallTypes'
    BY <1>t, <2>1, <2>3, <2>4 DEF InstallTypes
  <2>6. PartitionsKept' /\ FlagsTrue' /\ SourceStarted'
    BY <1>t, <2>1, <2>3 DEF PartitionsKept, FlagsTrue, NeedsSwtpm, SourceStarted
  <2> QED BY <2>1, <2>3, <2>5, <2>6, AtRest
<1>2. CASE UserActs \/ UNCHANGED installVars
  <2>1. UNCHANGED <<disk, firmware, host, plan, wiped>>
    BY <1>2 DEF UserActs, installVars
  <2>2. media' \in [plugged : BOOLEAN, config : Configs, readonly : BOOLEAN, extra : SUBSET SourceExtra]
    <3>1. \/ media' = media \/ media' = [media EXCEPT !.plugged = ~media.plugged]
          \/ \E c \in InstallConfigs : media' = [media EXCEPT !.config = c]
      BY <1>2 DEF UserActs, installVars
    <3>2. (~media.plugged) \in BOOLEAN
      OBVIOUS
    <3> QED BY <1>t, <3>1, <3>2 DEF InstallTypes, Configs
  <2>3. external' \in [plugged : BOOLEAN, config : Configs, files : SUBSET SeedNames]
    <3>1. \/ external' = external \/ external' = [external EXCEPT !.plugged = ~external.plugged]
          \/ \E c \in InstallConfigs : external' = [external EXCEPT !.config = c]
      BY <1>2 DEF UserActs, installVars
    <3>2. (~external.plugged) \in BOOLEAN
      OBVIOUS
    <3> QED BY <1>t, <3>1, <3>2 DEF InstallTypes, Configs
  <2>4. acts' \in 0 .. Interventions
    BY <1>2, <1>t, InstallAssumption DEF UserActs, installVars, InstallTypes
  <2>5. InstallTypes'
    BY <1>t, <2>1, <2>2, <2>3, <2>4 DEF InstallTypes
  <2>6. ExistingInstalls' = ExistingInstalls /\ NeedsSwtpm' = NeedsSwtpm /\ Target' = Target
    BY <2>1 DEF ExistingInstalls, NeedsSwtpm, Target
  <2> QED
    BY <2>1, <2>5, <2>6 DEF InstallInv, SourceStarted, FlagsTrue, NoneToLose, UnderWay,
       TPMAtHand, Written, PartitionsKept, CompleteIsBootable
<1> QED BY <1>1, <1>2

\* Every step keeps the invariant.
LEMMA InstallStepInv == ASSUME InstallInv, [InstallNext]_installVars PROVE InstallInv'
BY StartInv, CheckInstallInv, PrepareInv, CopyInv, OutsideInv DEF InstallNext

\* The partitions of a disk are removed only under a seed that forces the installation, those
\* of a system that unlocks only under one that confirms it, whatever is plugged in, edited
\* or interrupted (CheckSystemRequirements, performInstall).
THEOREM PartitionsStay == InstallSpec => []PartitionsKept
<1>1. InstallInv => PartitionsKept
  BY DEF InstallInv
<1> QED BY <1>1, InstallInitInv, InstallStepInv, PTL DEF InstallSpec

\* While IncusOSInstallComplete is set, the disk written last starts by itself, with the
\* security state the machine needs, and does not install again (performInstall).
THEOREM CompleteMeansBootable == InstallSpec => []CompleteIsBootable
<1>1. InstallInv => CompleteIsBootable
  BY DEF InstallInv
<1> QED BY <1>1, InstallInitInv, InstallStepInv, PTL DEF InstallSpec

-----------------------------------------------------------------------------
(* The network devices. Bonds have their own addresses in lower case:      *)
(* addresses are compared as they are written, so one in upper case may be *)
(* that of another device (AddressesUnique).                               *)

\* What a configuration describes, kind by kind.
LEMMA DescribedParts ==
    ASSUME NEW c
    PROVE  Described(c) =
             (UNION {BridgeAndVeth(i.name, i.hwaddr) : i \in Range(c.interfaces)})
             \cup (UNION {BridgeAndVeth(b.name, BondAddress(b)) : b \in Range(c.bonds)})
             \cup {Netdev(<<"b", b.name>>, "bond", b.settings, NoDevice) : b \in Range(c.bonds)}
             \cup {Netdev(<<"n", v.name>>, "vlan", v.id, <<"v", v.parent>>) : v \in Range(c.vlans)}
             \cup {Netdev(<<"n", w.name>>, "wireguard", w.key, NoDevice) : w \in Range(c.wireguard)}
<1> DEFINE veths == (UNION {BridgeAndVeth(i.name, i.hwaddr) : i \in Range(c.interfaces)})
                    \cup (UNION {BridgeAndVeth(b.name, BondAddress(b)) : b \in Range(c.bonds)})
           bonds == {Netdev(<<"b", b.name>>, "bond", b.settings, NoDevice) : b \in Range(c.bonds)}
           vlans == {Netdev(<<"n", v.name>>, "vlan", v.id, NoDevice) : v \in Range(c.vlans)}
           on == {Netdev(<<"n", v.name>>, "vlan", v.id, <<"v", v.parent>>) : v \in Range(c.vlans)}
           wireguards == {Netdev(<<"n", w.name>>, "wireguard", w.key, NoDevice) : w \in Range(c.wireguard)}
<1>1. \A n \in veths : n.kind # "vlan"
  <2>1. \A name, h : \A n \in BridgeAndVeth(name, h) : n.kind # "vlan"
    BY DEF BridgeAndVeth, Netdev
  <2> QED BY <2>1
<1>2. (\A n \in bonds \cup wireguards : n.kind # "vlan") /\ \A n \in vlans : n.kind = "vlan"
  BY DEF Netdev
<1>3. GenerateNetdevFileContents(c) = veths \cup bonds \cup vlans \cup wireguards
  BY DEF GenerateNetdevFileContents
<1>4. Described(c) = {n \in GenerateNetdevFileContents(c) : n.kind # "vlan"} \cup on
  BY DEF Described
<1>5. Described(c) = veths \cup bonds \cup on \cup wireguards
  <2> HIDE DEF veths, bonds, vlans, on, wireguards
  <2> QED BY <1>1, <1>2, <1>3, <1>4
<1> QED BY <1>5

\* The devices that are not of a configuration are those that could not be deleted, or that the
\* daemon forgot.
Matches(c) == Mismatched(c) \subseteq strays

\* What the validation of a configuration establishes.
Valid(c) ==
    /\ c \in NetConfig
    /\ IsInjective(AllNames(c)) /\ AddressesDiffer(c)
    /\ \A b \in Range(c.bonds) : b.members # <<>> /\ (b.hwaddr # NoHwaddr => b.hwaddr[2] = "lower")
    /\ \A v \in Range(c.vlans) : ValidateParent(v.parent, c)

\* Bonds have their own addresses in lower case; without it two devices may share one.
LowerCase(c) == \A b \in Range(c.bonds) : b.hwaddr[2] # "upper"

\* Every wireguard has its key.
Keyed(c) == \A w \in Range(c.wireguard) : w.key # NoKey

\* The steps after the configuration is in the state, and after its files are written.
SetSteps == {"generate", "rename", "restart", "wait", "online"}
FileSteps == {"rename", "restart", "wait", "online"}

\* From the moment a configuration is in the state no device is of the one before it but those
\* that could not be deleted: an application that fails later leaves only devices that the next
\* one knows of, or is to forget.
NetInv ==
    /\ Valid(applied) /\ Keyed(applied) /\ Valid(saved) /\ Keyed(saved)
    /\ incoming = [config |-> incoming.config, step |-> incoming.step]
    /\ Valid(incoming.config)
    /\ incoming.step \in {"idle", "cleanup", "set"} \cup SetSteps
    /\ Matches(applied)
    /\ AtStep("set") => Matches(CheckWireguardPrivateKeys(incoming.config))
    /\ incoming.step \in SetSteps => incoming.config = applied
    /\ incoming.step \in FileSteps =>
        /\ files.netdevs = GenerateNetdevFileContents(applied) /\ files.networks = GenerateNetworkFileContents(applied)
        /\ files.links = GenerateLinkFileContents(applied)
        /\ \A h \in LinkAddresses(applied) : h[2] = "lower"
    /\ incoming.step \in {"restart", "wait", "online"} => GenerateLinkFileContents(applied) \subseteq renamed
    /\ incoming.step \in {"wait", "online"} => Connected

-----------------------------------------------------------------------------
(* Sequences.                                                              *)

\* What is made of every element of a sequence is a sequence.
LEMMA MappedSeq ==
    ASSUME NEW S, NEW T, NEW s \in Seq(S), NEW f, f = [i \in DOMAIN s |-> f[i]], \A i \in DOMAIN s : f[i] \in T
    PROVE  f \in Seq(T) /\ Len(f) = Len(s) /\ DOMAIN f = DOMAIN s
<1>1. Len(s) \in Nat /\ DOMAIN s = 1 .. Len(s)
  BY LenProperties
<1>2. f \in [1 .. Len(s) -> T]
  BY <1>1
<1>3. f \in Seq(T)
  BY <1>1, <1>2, SeqDef
<1> QED BY <1>1, <1>3, LenProperties

\* Two sequences whose concatenation repeats nothing repeat nothing and have nothing in common.
LEMMA InjectiveParts ==
    ASSUME NEW S, NEW s \in Seq(S), NEW t \in Seq(S), IsInjective(s \o t)
    PROVE  IsInjective(s) /\ IsInjective(t) /\ \A i \in DOMAIN s, j \in DOMAIN t : s[i] # t[j]
<1>1. /\ Len(s) \in Nat /\ DOMAIN s = 1 .. Len(s) /\ Len(t) \in Nat /\ DOMAIN t = 1 .. Len(t)
      /\ DOMAIN (s \o t) = 1 .. Len(s) + Len(t)
  BY LenProperties, ConcatProperties
<1>2. /\ \A i \in DOMAIN s : i \in DOMAIN (s \o t) /\ (s \o t)[i] = s[i]
      /\ \A j \in DOMAIN t : Len(s) + j \in DOMAIN (s \o t) /\ (s \o t)[Len(s) + j] = t[j]
  BY <1>1, ConcatProperties
<1> DEFINE u == s \o t
<1> HIDE DEF u
<1>3. IsInjective(u)
  BY DEF u
<1>4. IsInjective(s)
  BY <1>2, <1>3 DEF IsInjective, u
<1>5. \A i, j \in DOMAIN t : t[i] = t[j] => Len(s) + i = Len(s) + j
  BY <1>2, <1>3 DEF IsInjective, u
<1>6. IsInjective(t)
  BY <1>1, <1>5 DEF IsInjective
<1>7. \A i \in DOMAIN s, j \in DOMAIN t : s[i] = t[j] => i = Len(s) + j
  BY <1>2, <1>3 DEF IsInjective, u
<1> QED BY <1>1, <1>4, <1>6, <1>7

-----------------------------------------------------------------------------
(* What a valid configuration describes.                                   *)

\* The parts of a configuration have their types.
LEMMA ConfigParts ==
    ASSUME NEW c \in NetConfig
    PROVE  /\ c.interfaces \in Seq(NetInterface) /\ \A k \in DOMAIN c.interfaces : c.interfaces[k] \in NetInterface
           /\ c.bonds \in Seq(NetBond) /\ \A k \in DOMAIN c.bonds : c.bonds[k] \in NetBond
           /\ c.vlans \in Seq(NetVLAN) /\ \A k \in DOMAIN c.vlans : c.vlans[k] \in NetVLAN
           /\ c.wireguard \in Seq(NetWireguard) /\ \A k \in DOMAIN c.wireguard : c.wireguard[k] \in NetWireguard
<1>1. /\ c.interfaces \in Seq(NetInterface) /\ c.bonds \in Seq(NetBond)
      /\ c.vlans \in Seq(NetVLAN) /\ c.wireguard \in Seq(NetWireguard)
  BY DEF NetConfig
<1> QED BY <1>1, LenProperties

\* The names of the devices of one kind, in their order.
LEMMA NamesSeq ==
    ASSUME NEW S, NEW s \in Seq(S), \A k \in DOMAIN s : s[k].name \in STRING
    PROVE  /\ NamesOf(s) \in Seq(STRING) /\ DOMAIN NamesOf(s) = DOMAIN s
           /\ \A k \in DOMAIN s : NamesOf(s)[k] = s[k].name
BY MappedSeq DEF NamesOf

Apart(S, T) == \A d \in S, e \in T : d.name # e.name
Single(S) == \A d, e \in S : d.name = e.name => d = e

\* No two devices of a valid configuration have the same name.
LEMMA NamesSingle ==
    ASSUME NEW c \in NetConfig, IsInjective(AllNames(c))
    PROVE  LET I == Range(c.interfaces) B == Range(c.bonds) V == Range(c.vlans) W == Range(c.wireguard)
           IN  /\ Single(I) /\ Single(B) /\ Single(V) /\ Single(W)
               /\ Apart(I, B) /\ Apart(I, V) /\ Apart(I, W) /\ Apart(B, V) /\ Apart(B, W) /\ Apart(V, W)
<1> DEFINE i == NamesOf(c.interfaces)
           b == NamesOf(c.bonds)
           v == NamesOf(c.vlans)
           w == NamesOf(c.wireguard)
<1>0. /\ c.interfaces \in Seq(NetInterface) /\ \A k \in DOMAIN c.interfaces : c.interfaces[k].name \in STRING
      /\ c.bonds \in Seq(NetBond) /\ \A k \in DOMAIN c.bonds : c.bonds[k].name \in STRING
      /\ c.vlans \in Seq(NetVLAN) /\ \A k \in DOMAIN c.vlans : c.vlans[k].name \in STRING
      /\ c.wireguard \in Seq(NetWireguard) /\ \A k \in DOMAIN c.wireguard : c.wireguard[k].name \in STRING
  BY ConfigParts DEF NetInterface, NetBond, NetVLAN, NetWireguard
<1>1. i \in Seq(STRING) /\ DOMAIN i = DOMAIN c.interfaces /\ \A k \in DOMAIN i : i[k] = c.interfaces[k].name
  BY <1>0, NamesSeq
<1>2. b \in Seq(STRING) /\ DOMAIN b = DOMAIN c.bonds /\ \A k \in DOMAIN b : b[k] = c.bonds[k].name
  BY <1>0, NamesSeq
<1>3. v \in Seq(STRING) /\ DOMAIN v = DOMAIN c.vlans /\ \A k \in DOMAIN v : v[k] = c.vlans[k].name
  BY <1>0, NamesSeq
<1>4. w \in Seq(STRING) /\ DOMAIN w = DOMAIN c.wireguard /\ \A k \in DOMAIN w : w[k] = c.wireguard[k].name
  BY <1>0, NamesSeq
<1>5. IsInjective(((i \o b) \o v) \o w)
  BY DEF AllNames
<1> HIDE DEF i, b, v, w
<1>6. i \o b \in Seq(STRING) /\ (i \o b) \o v \in Seq(STRING)
  BY <1>1, <1>2, <1>3, ConcatProperties
<1>7. IsInjective((i \o b) \o v) /\ IsInjective(w) /\ \A k \in DOMAIN ((i \o b) \o v), l \in DOMAIN w : ((i \o b) \o v)[k] # w[l]
  BY <1>4, <1>5, <1>6, InjectiveParts
<1>8. IsInjective(i \o b) /\ IsInjective(v) /\ \A k \in DOMAIN (i \o b), l \in DOMAIN v : (i \o b)[k] # v[l]
  BY <1>3, <1>6, <1>7, InjectiveParts
<1>9. IsInjective(i) /\ IsInjective(b) /\ \A k \in DOMAIN i, l \in DOMAIN b : i[k] # b[l]
  BY <1>1, <1>2, <1>8, InjectiveParts
<1>10. Range(i \o b) = Range(i) \cup Range(b) /\ Range((i \o b) \o v) = Range(i \o b) \cup Range(v)
  <2>1. Range(i \o b) = Range(i) \cup Range(b)
    BY <1>1, <1>2, RangeConcatenation
  <2>2. Range((i \o b) \o v) = Range(i \o b) \cup Range(v)
    <3> DEFINE ib == i \o b
    <3>1. ib \in Seq(STRING) /\ v \in Seq(STRING)
      BY <1>3, <1>6
    <3> HIDE DEF ib
    <3>2. Range(ib \o v) = Range(ib) \cup Range(v)
      BY <3>1, RangeConcatenation
    <3> QED BY <3>2 DEF ib
  <2> QED BY <2>1, <2>2
<1>11. Range(((i \o b) \o v)) \cap Range(w) = {} /\ Range(i \o b) \cap Range(v) = {} /\ Range(i) \cap Range(b) = {}
  BY <1>7, <1>8, <1>9 DEF Range
<1>12. /\ \A d \in Range(c.interfaces) : d.name \in Range(i)
       /\ \A d \in Range(c.bonds) : d.name \in Range(b)
       /\ \A d \in Range(c.vlans) : d.name \in Range(v)
       /\ \A d \in Range(c.wireguard) : d.name \in Range(w)
  BY <1>1, <1>2, <1>3, <1>4 DEF Range
<1>13. /\ Apart(Range(c.interfaces), Range(c.bonds)) /\ Apart(Range(c.interfaces), Range(c.vlans))
       /\ Apart(Range(c.interfaces), Range(c.wireguard)) /\ Apart(Range(c.bonds), Range(c.vlans))
       /\ Apart(Range(c.bonds), Range(c.wireguard)) /\ Apart(Range(c.vlans), Range(c.wireguard))
  BY <1>10, <1>11, <1>12 DEF Apart
<1>14. Single(Range(c.interfaces)) /\ Single(Range(c.bonds)) /\ Single(Range(c.vlans)) /\ Single(Range(c.wireguard))
  BY <1>1, <1>2, <1>3, <1>4, <1>7, <1>8, <1>9 DEF Single, Range, IsInjective
<1> QED BY <1>13, <1>14

\* A valid configuration describes one device of each name.
LEMMA DescribedSingle ==
    ASSUME NEW c, Valid(c), NEW n \in Described(c), NEW m \in Described(c), n.name = m.name
    PROVE  n = m
<1> DEFINE I == Range(c.interfaces)
           B == Range(c.bonds)
           V == Range(c.vlans)
           W == Range(c.wireguard)
<1>1. /\ Single(I) /\ Single(B) /\ Single(V) /\ Single(W)
      /\ Apart(I, B) /\ Apart(I, V) /\ Apart(I, W) /\ Apart(B, V) /\ Apart(B, W) /\ Apart(V, W)
  BY NamesSingle DEF Valid
<1> DEFINE Bridge(d) == Netdev(<<"n", d.name>>, "bridge", "none", NoDevice)
           Veth(d, h) == Netdev(<<"v", d.name>>, "veth", h, <<"i", Strip(h)>>)
           Bond(d) == Netdev(<<"b", d.name>>, "bond", d.settings, NoDevice)
           VLAN(d) == Netdev(<<"n", d.name>>, "vlan", d.id, <<"v", d.parent>>)
           Wireguard(d) == Netdev(<<"n", d.name>>, "wireguard", d.key, NoDevice)
           NamedBy(k, prefix, d) == k.name[1] = prefix /\ k.name[2] = d.name
           Kinds(k) ==
             \/ \E d \in I \cup B : k = Bridge(d) /\ NamedBy(k, "n", d)
             \/ \E d \in I : k = Veth(d, d.hwaddr) /\ NamedBy(k, "v", d)
             \/ \E d \in B : k = Veth(d, BondAddress(d)) /\ NamedBy(k, "v", d)
             \/ \E d \in B : k = Bond(d) /\ NamedBy(k, "b", d)
             \/ \E d \in V : k = VLAN(d) /\ NamedBy(k, "n", d)
             \/ \E d \in W : k = Wireguard(d) /\ NamedBy(k, "n", d)
<1>2. ASSUME NEW k \in Described(c)
      PROVE  Kinds(k)
  <2>1. \A d, h : NamedBy(Bridge(d), "n", d) /\ NamedBy(Veth(d, h), "v", d) /\ NamedBy(Bond(d), "b", d)
                  /\ NamedBy(VLAN(d), "n", d) /\ NamedBy(Wireguard(d), "n", d)
    BY DEF Netdev
  <2>2. \/ \E d \in I : k \in {Bridge(d), Veth(d, d.hwaddr)}
        \/ \E d \in B : k \in {Bridge(d), Veth(d, BondAddress(d))}
        \/ \E d \in B : k = Bond(d)
        \/ \E d \in V : k = VLAN(d)
        \/ \E d \in W : k = Wireguard(d)
    <3>1. \A d, h : BridgeAndVeth(d.name, h) = {Bridge(d), Veth(d, h)}
      BY DEF BridgeAndVeth
    <3>2. \/ \E d \in I : k \in BridgeAndVeth(d.name, d.hwaddr)
          \/ \E d \in B : k \in BridgeAndVeth(d.name, BondAddress(d))
          \/ \E d \in B : k = Bond(d)
          \/ \E d \in V : k = VLAN(d)
          \/ \E d \in W : k = Wireguard(d)
      <4>1. \/ k \in UNION {BridgeAndVeth(d.name, d.hwaddr) : d \in I}
            \/ k \in UNION {BridgeAndVeth(d.name, BondAddress(d)) : d \in B}
            \/ k \in {Bond(d) : d \in B} \/ k \in {VLAN(d) : d \in V} \/ k \in {Wireguard(d) : d \in W}
        BY <1>2, DescribedParts
      <4> HIDE DEF I, B, V, W, Bond, VLAN, Wireguard
      <4> QED BY <4>1
    <3> HIDE DEF I, B, V, W, Bridge, Veth, Bond, VLAN, Wireguard
    <3> QED BY <3>1, <3>2
  <2> HIDE DEF I, B, V, W, Bridge, Veth, Bond, VLAN, Wireguard, NamedBy
  <2> QED BY <2>1, <2>2
<1>3. Kinds(n) /\ Kinds(m)
  BY <1>2
<1>4. n.name[1] = m.name[1] /\ n.name[2] = m.name[2]
  OBVIOUS
<1> HIDE DEF I, B, V, W, Bridge, Veth, Bond, VLAN, Wireguard
<1>5. CASE n.name[1] = "n"
  <2>1. CASE \E d \in I \cup B : n = Bridge(d) /\ NamedBy(n, "n", d)
    <3>1. \E d \in I \cup B : m = Bridge(d) /\ NamedBy(m, "n", d)
      BY <1>1, <1>3, <1>4, <1>5, <2>1 DEF Apart
    <3> QED BY <1>1, <1>4, <2>1, <3>1 DEF Single, Apart
  <2>2. CASE \E d \in V : n = VLAN(d) /\ NamedBy(n, "n", d)
    <3>1. \E d \in V : m = VLAN(d) /\ NamedBy(m, "n", d)
      BY <1>1, <1>3, <1>4, <1>5, <2>2 DEF Apart
    <3> QED BY <1>1, <1>4, <2>2, <3>1 DEF Single
  <2>3. CASE \E d \in W : n = Wireguard(d) /\ NamedBy(n, "n", d)
    <3>1. \E d \in W : m = Wireguard(d) /\ NamedBy(m, "n", d)
      BY <1>1, <1>3, <1>4, <1>5, <2>3 DEF Apart
    <3> QED BY <1>1, <1>4, <2>3, <3>1 DEF Single
  <2> QED BY <1>3, <1>5, <2>1, <2>2, <2>3
<1>6. CASE n.name[1] = "v"
  BY <1>1, <1>3, <1>4, <1>6 DEF Single, Apart
<1>7. CASE n.name[1] = "b"
  BY <1>1, <1>3, <1>4, <1>7 DEF Single
<1> QED BY <1>3, <1>5, <1>6, <1>7

\* A configuration that got its files writes the addresses that name its devices in lower case.
Lower(c) == \A h \in LinkAddresses(c) : h[2] = "lower"

\* Addresses written alike are the same if what they name is.
LEMMA SameAddress ==
    ASSUME NEW h \in Hwaddr, NEW k \in Hwaddr, h[2] = k[2], Strip(h) = Strip(k)
    PROVE  h = k
BY DEF Hwaddr, Strip

\* The addresses of a bond are pairs in lower case.
LEMMA BondAddressesLower ==
    ASSUME NEW c, Valid(c), Lower(c), NEW b \in Range(c.bonds)
    PROVE  /\ BondAddress(b) \in BondAddresses(b)
           /\ \A h \in BondAddresses(b) : h \in Hwaddr /\ h[2] = "lower"
<1>1. b \in NetBond
  BY ConfigParts DEF Valid, Range
<1>2. b.members \in Seq(Hwaddr) /\ b.members # <<>> /\ b.hwaddr \in Hwaddr
  BY <1>1 DEF NetBond, Valid
<1>3. 1 \in DOMAIN b.members /\ \A j \in DOMAIN b.members : b.members[j] \in Hwaddr
  BY <1>2, LenProperties, EmptySeq
<1>4. \A j \in DOMAIN b.members : b.members[j][2] = "lower"
  BY DEF Lower, LinkAddresses, Range
<1>5. b.hwaddr # NoHwaddr => b.hwaddr[2] = "lower"
  BY DEF Valid
<1>6. BondAddress(b) \in BondAddresses(b)
  BY <1>3 DEF BondAddress, BondAddresses, Range
<1>7. \A h \in BondAddresses(b) : h \in Hwaddr /\ h[2] = "lower"
  BY <1>2, <1>3, <1>4, <1>5 DEF BondAddresses, Range
<1> QED BY <1>6, <1>7

\* Two bonds have no address in common.
LEMMA BondsApart ==
    ASSUME NEW c, Valid(c), NEW a \in Range(c.bonds), NEW b \in Range(c.bonds), NEW h \in BondAddresses(a), h \in BondAddresses(b)
    PROVE  a = b
<1>1. PICK i \in DOMAIN c.bonds : a = c.bonds[i]
  BY DEF Range
<1>2. PICK j \in DOMAIN c.bonds : b = c.bonds[j]
  BY DEF Range
<1>3. i \in Nat /\ j \in Nat /\ i >= 1 /\ j >= 1
  <2>1. c.bonds \in Seq(NetBond)
    BY ConfigParts DEF Valid
  <2>2. Len(c.bonds) \in Nat /\ DOMAIN c.bonds = 1 .. Len(c.bonds)
    BY <2>1, LenProperties
  <2> QED BY <2>2
<1>4. ~(j \in 1 .. i - 1) /\ ~(i \in 1 .. j - 1)
  BY <1>1, <1>2 DEF Valid, AddressesDiffer
<1>5. i = j
  BY <1>3, <1>4
<1> QED BY <1>1, <1>2, <1>5

\* The ends of the veths and the cards of a configuration with files are those of one device each.
LEMMA AddressesSingle ==
    ASSUME NEW c, Valid(c), Lower(c)
    PROVE  /\ \A i, j \in Range(c.interfaces) : Strip(i.hwaddr) = Strip(j.hwaddr) => i = j
           /\ \A i \in Range(c.interfaces), b \in Range(c.bonds) :
                \A h \in BondAddresses(b) : Strip(i.hwaddr) # Strip(h)
           /\ \A a, b \in Range(c.bonds) : \A h \in BondAddresses(a), k \in BondAddresses(b) : Strip(h) = Strip(k) => a = b
<1> DEFINE I == Range(c.interfaces)
           B == Range(c.bonds)
<1>1. \A i \in I : i.hwaddr \in Hwaddr /\ i.hwaddr[2] = "lower"
  <2> TAKE i \in I
  <2>1. i \in NetInterface
    BY ConfigParts DEF Valid, Range
  <2> QED BY <2>1 DEF NetInterface, Lower, LinkAddresses
<1>2. \A b \in B : \A h \in BondAddresses(b) : h \in Hwaddr /\ h[2] = "lower"
  BY BondAddressesLower
<1>3. ASSUME NEW i \in I, NEW j \in I, Strip(i.hwaddr) = Strip(j.hwaddr)
      PROVE  i = j
  <2>1. i.hwaddr = j.hwaddr
    BY <1>1, <1>3, SameAddress
  <2>2. PICK k \in DOMAIN c.interfaces, l \in DOMAIN c.interfaces : i = c.interfaces[k] /\ j = c.interfaces[l]
    BY DEF Range
  <2>3. k = l
    BY <2>1, <2>2 DEF Valid, AddressesDiffer, IsInjective
  <2> QED BY <2>2, <2>3
<1>4. ASSUME NEW i \in I, NEW b \in B, NEW h \in BondAddresses(b), Strip(i.hwaddr) = Strip(h)
      PROVE  FALSE
  <2>1. i.hwaddr = h
    BY <1>1, <1>2, <1>4, SameAddress
  <2>2. PICK k \in DOMAIN c.interfaces, l \in DOMAIN c.bonds : i = c.interfaces[k] /\ b = c.bonds[l]
    BY DEF Range
  <2> DEFINE own == [x \in DOMAIN c.interfaces |-> c.interfaces[x].hwaddr]
  <2>3. h \in Range(own)
    BY <2>1, <2>2 DEF Range
  <2>4. BondAddresses(b) \cap Range(own) = {}
    BY <2>2 DEF Valid, AddressesDiffer
  <2> QED BY <1>4, <2>3, <2>4
<1>5. ASSUME NEW a \in B, NEW b \in B, NEW h \in BondAddresses(a), NEW k \in BondAddresses(b), Strip(h) = Strip(k)
      PROVE  a = b
  <2>1. h = k
    BY <1>2, <1>5, SameAddress
  <2> QED BY <2>1, BondsApart
<1> QED BY <1>3, <1>4, <1>5

\* The files that put a port into a bridge or a bond.
InterfaceEnd(f, i) == f.match = <<"i", Strip(i.hwaddr)>> /\ f.master = <<"n", i.name>>
InterfaceCard(f, i) == f.match = <<"p", Strip(i.hwaddr)>> /\ f.master = <<"n", i.name>>
BondEnd(f, b) == f.match = <<"i", Strip(BondAddress(b))>> /\ f.master = <<"n", b.name>>
BondPort(f, b) == f.match = <<"b", b.name>> /\ f.master = <<"n", b.name>>
BondCard(f, b, h) == f.match = <<"p", Strip(h)>> /\ f.master = <<"b", b.name>>

\* The fields of a .network file.
LEMMA NetworkFields ==
    ASSUME NEW m, NEW into, NEW vlans, NEW tags
    PROVE  /\ Network(m, into, vlans, tags).match = m
           /\ Network(m, into, vlans, tags).master = into
           /\ Network(m, into, vlans, tags).vlans = vlans
BY DEF Network

\* Every .network file is about an interface, a bond, or a VLAN or wireguard.
LEMMA NetworkFilesOf ==
    ASSUME NEW c, NEW f
    PROVE  f \in GenerateNetworkFileContents(c) <=>
             \/ \E i \in Range(c.interfaces) :
                  \/ f \in VethNetworks(i.name, i.hwaddr, i.tags, c)
                  \/ f = Network(<<"p", Strip(i.hwaddr)>>, <<"n", i.name>>, {}, GenerateVLANContents(i.name, i.tags, c))
             \/ \E b \in Range(c.bonds) :
                  \/ f \in VethNetworks(b.name, BondAddress(b), b.tags, c)
                  \/ f = Network(<<"b", b.name>>, <<"n", b.name>>, {}, GenerateVLANContents(b.name, b.tags, c))
                  \/ \E h \in Range(b.members) : f = Network(<<"p", Strip(h)>>, <<"b", b.name>>, {}, {})
             \/ \E d \in Range(c.vlans) \cup Range(c.wireguard) : f = Network(<<"n", d.name>>, NoDevice, {}, {})
<1>1. f \in GenerateNetworkFileContents(c) <=>
        \/ \E i \in Range(c.interfaces) : f \in InterfaceNetworks(i, c)
        \/ \E b \in Range(c.bonds) : f \in BondNetworks(b, c)
        \/ \E d \in Range(c.vlans) \cup Range(c.wireguard) : f = Network(<<"n", d.name>>, NoDevice, {}, {})
  BY DEF GenerateNetworkFileContents
<1>2. ASSUME NEW i
      PROVE  f \in InterfaceNetworks(i, c) <=>
               \/ f \in VethNetworks(i.name, i.hwaddr, i.tags, c)
               \/ f = Network(<<"p", Strip(i.hwaddr)>>, <<"n", i.name>>, {}, GenerateVLANContents(i.name, i.tags, c))
  BY DEF InterfaceNetworks
<1>3. ASSUME NEW b
      PROVE  f \in BondNetworks(b, c) <=>
               \/ f \in VethNetworks(b.name, BondAddress(b), b.tags, c)
               \/ f = Network(<<"b", b.name>>, <<"n", b.name>>, {}, GenerateVLANContents(b.name, b.tags, c))
               \/ \E h \in Range(b.members) : f = Network(<<"p", Strip(h)>>, <<"b", b.name>>, {}, {})
  BY DEF BondNetworks
<1> QED BY <1>1, <1>2, <1>3, Zenon

\* What puts a port somewhere is the file of an end of a veth, of a card or of a bond.
LEMMA PortFiles ==
    ASSUME NEW c, NEW f \in GenerateNetworkFileContents(c), f.master # NoDevice
    PROVE  \/ \E i \in Range(c.interfaces) : InterfaceEnd(f, i) \/ InterfaceCard(f, i)
           \/ \E b \in Range(c.bonds) : BondEnd(f, b) \/ BondPort(f, b) \/ \E h \in Range(b.members) : BondCard(f, b, h)
<1> DEFINE I == Range(c.interfaces)
           B == Range(c.bonds)
<1>1. ASSUME NEW name, NEW h, NEW extra, f \in VethNetworks(name, h, extra, c)
      PROVE  f.match = <<"i", Strip(h)>> /\ f.master = <<"n", name>>
  BY <1>1, NetworkFields DEF VethNetworks
<1>2. ASSUME NEW i \in I, f \in VethNetworks(i.name, i.hwaddr, i.tags, c)
      PROVE  InterfaceEnd(f, i)
  BY <1>1, <1>2 DEF InterfaceEnd
<1>3. ASSUME NEW i \in I, f = Network(<<"p", Strip(i.hwaddr)>>, <<"n", i.name>>, {}, GenerateVLANContents(i.name, i.tags, c))
      PROVE  InterfaceCard(f, i)
  BY <1>3, NetworkFields DEF InterfaceCard
<1>4. ASSUME NEW b \in B, f \in VethNetworks(b.name, BondAddress(b), b.tags, c)
      PROVE  BondEnd(f, b)
  BY <1>1, <1>4 DEF BondEnd
<1>5. ASSUME NEW b \in B, f = Network(<<"b", b.name>>, <<"n", b.name>>, {}, GenerateVLANContents(b.name, b.tags, c))
      PROVE  BondPort(f, b)
  BY <1>5, NetworkFields DEF BondPort
<1>6. ASSUME NEW b \in B, NEW h, f = Network(<<"p", Strip(h)>>, <<"b", b.name>>, {}, {})
      PROVE  BondCard(f, b, h)
  BY <1>6, NetworkFields DEF BondCard
<1>7. ~ \E d \in Range(c.vlans) \cup Range(c.wireguard) : f = Network(<<"n", d.name>>, NoDevice, {}, {})
  BY DEF Network
<1> QED BY <1>2, <1>3, <1>4, <1>5, <1>6, <1>7, NetworkFilesOf, Zenon

\* No two of them are about the same port.
LEMMA PortsSingle ==
    ASSUME NEW c, Valid(c), Lower(c),
           NEW f \in GenerateNetworkFileContents(c), NEW g \in GenerateNetworkFileContents(c),
           f.master # NoDevice, g.master # NoDevice, f.match = g.match
    PROVE  f.master = g.master
<1> DEFINE I == Range(c.interfaces)
           B == Range(c.bonds)
           To(k, prefix, x, into) == k.match[1] = prefix /\ k.match[2] = x /\ k.master = into
           Kinds(k) ==
             \/ \E i \in I : To(k, "i", Strip(i.hwaddr), <<"n", i.name>>)
             \/ \E i \in I : To(k, "p", Strip(i.hwaddr), <<"n", i.name>>)
             \/ \E b \in B : To(k, "i", Strip(BondAddress(b)), <<"n", b.name>>)
             \/ \E b \in B : To(k, "b", b.name, <<"n", b.name>>)
             \/ \E b \in B : \E h \in Range(b.members) : To(k, "p", Strip(h), <<"b", b.name>>)
<1>1. ASSUME NEW k \in GenerateNetworkFileContents(c), k.master # NoDevice
      PROVE  Kinds(k)
  <2>1. /\ \A i : InterfaceEnd(k, i) => To(k, "i", Strip(i.hwaddr), <<"n", i.name>>)
        /\ \A i : InterfaceCard(k, i) => To(k, "p", Strip(i.hwaddr), <<"n", i.name>>)
        /\ \A b : BondEnd(k, b) => To(k, "i", Strip(BondAddress(b)), <<"n", b.name>>)
        /\ \A b : BondPort(k, b) => To(k, "b", b.name, <<"n", b.name>>)
        /\ \A b, h : BondCard(k, b, h) => To(k, "p", Strip(h), <<"b", b.name>>)
    BY DEF InterfaceEnd, InterfaceCard, BondEnd, BondPort, BondCard
  <2>2. \/ \E i \in I : InterfaceEnd(k, i) \/ InterfaceCard(k, i)
        \/ \E b \in B : BondEnd(k, b) \/ BondPort(k, b) \/ \E h \in Range(b.members) : BondCard(k, b, h)
    BY <1>1, PortFiles
  <2> HIDE DEF I, B, To
  <2> QED BY <2>1, <2>2
<1>2. Single(B)
  BY NamesSingle DEF Valid
<1>3. /\ \A i, j \in I : Strip(i.hwaddr) = Strip(j.hwaddr) => i = j
      /\ \A i \in I, b \in B : \A h \in BondAddresses(b) : Strip(i.hwaddr) # Strip(h)
      /\ \A a, b \in B : \A h \in BondAddresses(a), k \in BondAddresses(b) : Strip(h) = Strip(k) => a = b
  BY AddressesSingle
<1>4. \A b \in B : BondAddress(b) \in BondAddresses(b) /\ Range(b.members) \subseteq BondAddresses(b)
  BY BondAddressesLower DEF BondAddresses
<1>5. f.match[1] = g.match[1] /\ f.match[2] = g.match[2] /\ Kinds(f) /\ Kinds(g)
  BY <1>1
<1> HIDE DEF I, B
<1>6. CASE f.match[1] = "i"
  BY <1>3, <1>4, <1>5, <1>6
<1>7. CASE f.match[1] = "p"
  BY <1>3, <1>4, <1>5, <1>7
<1>8. CASE f.match[1] = "b"
  BY <1>2, <1>5, <1>8 DEF Single
<1> QED BY <1>5, <1>6, <1>7, <1>8

\* Those files are there.
LEMMA PortsThere ==
    ASSUME NEW c
    PROVE  /\ \A i \in Range(c.interfaces) :
                \E f, g \in GenerateNetworkFileContents(c) : InterfaceEnd(f, i) /\ InterfaceCard(g, i)
           /\ \A b \in Range(c.bonds) :
                /\ \E f, g \in GenerateNetworkFileContents(c) : BondEnd(f, b) /\ BondPort(g, b)
                /\ \A h \in Range(b.members) : \E f \in GenerateNetworkFileContents(c) : BondCard(f, b, h)
<1> DEFINE N == GenerateNetworkFileContents(c)
           end(name, h, extra) == Network(<<"i", Strip(h)>>, <<"n", name>>, {}, GenerateVLANContents(name, extra, c))
<1>1. \A name, h, extra : end(name, h, extra) \in VethNetworks(name, h, extra, c)
  BY DEF VethNetworks
<1>2. ASSUME NEW i \in Range(c.interfaces)
      PROVE  \E f, g \in N : InterfaceEnd(f, i) /\ InterfaceCard(g, i)
  <2> DEFINE f == end(i.name, i.hwaddr, i.tags)
             g == Network(<<"p", Strip(i.hwaddr)>>, <<"n", i.name>>, {}, GenerateVLANContents(i.name, i.tags, c))
  <2>1. InterfaceEnd(f, i) /\ InterfaceCard(g, i)
    BY NetworkFields DEF InterfaceEnd, InterfaceCard
  <2>2. f \in VethNetworks(i.name, i.hwaddr, i.tags, c)
    BY <1>1
  <2> HIDE DEF f
  <2>3. f \in N /\ g \in N
    BY <2>2, NetworkFilesOf
  <2> QED BY <2>1, <2>3
<1>3. ASSUME NEW b \in Range(c.bonds)
      PROVE  \E f, g \in N : BondEnd(f, b) /\ BondPort(g, b)
  <2> DEFINE f == end(b.name, BondAddress(b), b.tags)
             g == Network(<<"b", b.name>>, <<"n", b.name>>, {}, GenerateVLANContents(b.name, b.tags, c))
  <2>1. BondEnd(f, b) /\ BondPort(g, b)
    BY NetworkFields DEF BondEnd, BondPort
  <2>2. f \in VethNetworks(b.name, BondAddress(b), b.tags, c)
    BY <1>1
  <2> HIDE DEF f
  <2>3. f \in N /\ g \in N
    BY <2>2, NetworkFilesOf
  <2> QED BY <2>1, <2>3
<1>4. ASSUME NEW b \in Range(c.bonds), NEW h \in Range(b.members)
      PROVE  \E f \in N : BondCard(f, b, h)
  <2> DEFINE f == Network(<<"p", Strip(h)>>, <<"b", b.name>>, {}, {})
  <2>1. f \in N
    BY NetworkFilesOf
  <2>2. BondCard(f, b, h)
    BY NetworkFields DEF BondCard
  <2> QED BY <2>1, <2>2
<1> QED BY <1>2, <1>3, <1>4

\* The file of one device, that of its parent, lists a VLAN.
LEMMA VLANListed ==
    ASSUME NEW c, Valid(c), NEW v \in Range(c.vlans)
    PROVE  /\ \A f \in GenerateNetworkFileContents(c) : <<"n", v.name>> \in f.vlans => f.match = <<"v", v.parent>>
           /\ \E f \in GenerateNetworkFileContents(c) : <<"n", v.name>> \in f.vlans /\ f.match = <<"v", v.parent>>
<1> DEFINE I == Range(c.interfaces)
           B == Range(c.bonds)
           N == GenerateNetworkFileContents(c)
           hostEnd(name) == Network(<<"v", name>>, NoDevice, GenerateNetworkSection(name, c), {})
<1>1. Single(Range(c.vlans))
  BY NamesSingle DEF Valid
<1>2. \A name : <<"n", v.name>> \in GenerateNetworkSection(name, c) <=> name = v.parent
  BY <1>1 DEF GenerateNetworkSection, Single
<1>3. \A name : hostEnd(name).vlans = GenerateNetworkSection(name, c) /\ hostEnd(name).match = <<"v", name>>
  BY NetworkFields
<1>4. ASSUME NEW f \in N, f.vlans # {}
      PROVE  \E name : f = hostEnd(name)
  <2>1. ASSUME NEW name, NEW h, NEW extra, f \in VethNetworks(name, h, extra, c)
        PROVE  f = hostEnd(name)
    BY <1>4, <2>1, NetworkFields DEF VethNetworks
  <2>2. \/ \E i \in I : f \in VethNetworks(i.name, i.hwaddr, i.tags, c)
        \/ \E b \in B : f \in VethNetworks(b.name, BondAddress(b), b.tags, c)
    BY <1>4, NetworkFilesOf DEF Network
  <2> HIDE DEF hostEnd, I, B
  <2> QED BY <2>1, <2>2
<1>5. \E d \in I \cup B : d.name = v.parent
  BY DEF Valid, ValidateParent
<1>6. ASSUME NEW d \in I \cup B
      PROVE  hostEnd(d.name) \in N
  <2>1. \A h, extra : hostEnd(d.name) \in VethNetworks(d.name, h, extra, c)
    BY DEF VethNetworks
  <2> HIDE DEF hostEnd
  <2> QED BY <2>1, NetworkFilesOf
<1> HIDE DEF I, B, N, hostEnd
<1>7. \A f \in N : <<"n", v.name>> \in f.vlans => f.match = <<"v", v.parent>>
  BY <1>2, <1>3, <1>4
<1>8. \E f \in N : <<"n", v.name>> \in f.vlans /\ f.match = <<"v", v.parent>>
  BY <1>2, <1>3, <1>5, <1>6
<1> QED BY <1>7, <1>8 DEF N

\* The fields of a .netdev file.
LEMMA NetdevFields ==
    ASSUME NEW name, NEW kind, NEW arg, NEW peer
    PROVE  /\ Netdev(name, kind, arg, peer).name = name /\ Netdev(name, kind, arg, peer).kind = kind
           /\ Netdev(name, kind, arg, peer).arg = arg /\ Netdev(name, kind, arg, peer).peer = peer
BY DEF Netdev

\* The files have the same devices, the VLANs without what they are on.
LEMMA FilesDescribe ==
    ASSUME NEW c
    PROVE  /\ \A n \in GenerateNetdevFileContents(c) :
                \/ n.kind # "vlan" /\ n \in Described(c) /\ n = Netdev(n.name, n.kind, n.arg, n.peer)
                \/ \E v \in Range(c.vlans) : n = Netdev(<<"n", v.name>>, "vlan", v.id, NoDevice)
           /\ \A n \in Described(c) :
                \/ n.kind # "vlan" /\ n \in GenerateNetdevFileContents(c)
                \/ \E v \in Range(c.vlans) : n = Netdev(<<"n", v.name>>, "vlan", v.id, <<"v", v.parent>>)
           /\ \A v \in Range(c.vlans) :
                /\ Netdev(<<"n", v.name>>, "vlan", v.id, NoDevice) \in GenerateNetdevFileContents(c)
                /\ Netdev(<<"n", v.name>>, "vlan", v.id, <<"v", v.parent>>) \in Described(c)
<1> DEFINE Rest == (UNION {BridgeAndVeth(i.name, i.hwaddr) : i \in Range(c.interfaces)})
                   \cup (UNION {BridgeAndVeth(b.name, BondAddress(b)) : b \in Range(c.bonds)})
                   \cup {Netdev(<<"b", b.name>>, "bond", b.settings, NoDevice) : b \in Range(c.bonds)}
                   \cup {Netdev(<<"n", w.name>>, "wireguard", w.key, NoDevice) : w \in Range(c.wireguard)}
<1>1. GenerateNetdevFileContents(c) = Rest \cup {Netdev(<<"n", v.name>>, "vlan", v.id, NoDevice) : v \in Range(c.vlans)}
  BY DEF GenerateNetdevFileContents
<1>2. Described(c) = Rest \cup {Netdev(<<"n", v.name>>, "vlan", v.id, <<"v", v.parent>>) : v \in Range(c.vlans)}
  BY DescribedParts
<1>3. ASSUME NEW n \in Rest
      PROVE  n.kind # "vlan" /\ n = Netdev(n.name, n.kind, n.arg, n.peer)
  <2>1. \A name, h : \A k \in BridgeAndVeth(name, h) : k.kind # "vlan" /\ k = Netdev(k.name, k.kind, k.arg, k.peer)
    BY DEF BridgeAndVeth, Netdev
  <2>2. \A name, arg : LET k == Netdev(name, "bond", arg, NoDevice)
                       IN  k.kind # "vlan" /\ k = Netdev(k.name, k.kind, k.arg, k.peer)
    BY DEF Netdev
  <2>3. \A name, arg : LET k == Netdev(name, "wireguard", arg, NoDevice)
                       IN  k.kind # "vlan" /\ k = Netdev(k.name, k.kind, k.arg, k.peer)
    BY DEF Netdev
  <2>4. \/ \E name, h : n \in BridgeAndVeth(name, h)
        \/ \E name, arg : n = Netdev(name, "bond", arg, NoDevice)
        \/ \E name, arg : n = Netdev(name, "wireguard", arg, NoDevice)
    BY <1>3
  <2> HIDE DEF Rest
  <2> QED BY <2>1, <2>2, <2>3, <2>4
<1> HIDE DEF Rest
<1> QED BY <1>1, <1>2, <1>3

\* The same by the kind of the device.
LEMMA FilesKinds ==
    ASSUME NEW c
    PROVE  /\ \A n \in GenerateNetdevFileContents(c) :
                IF n.kind = "vlan" THEN \E v \in Range(c.vlans) : n = Netdev(<<"n", v.name>>, "vlan", v.id, NoDevice)
                ELSE n \in Described(c) /\ n = Netdev(n.name, n.kind, n.arg, n.peer)
           /\ \A n \in Described(c) : n.kind # "vlan" => n \in GenerateNetdevFileContents(c)
           /\ \A v : /\ Netdev(<<"n", v.name>>, "vlan", v.id, NoDevice).kind = "vlan"
                     /\ Netdev(<<"n", v.name>>, "vlan", v.id, NoDevice).name = <<"n", v.name>>
<1>1. \A v, p : /\ Netdev(<<"n", v.name>>, "vlan", v.id, p).kind = "vlan"
                /\ Netdev(<<"n", v.name>>, "vlan", v.id, p).name = <<"n", v.name>>
  BY NetdevFields
<1>2. ASSUME NEW n \in GenerateNetdevFileContents(c), n.kind = "vlan"
      PROVE  \E v \in Range(c.vlans) : n = Netdev(<<"n", v.name>>, "vlan", v.id, NoDevice)
  BY <1>2, FilesDescribe
<1>3. ASSUME NEW n \in GenerateNetdevFileContents(c), n.kind # "vlan"
      PROVE  n \in Described(c) /\ n = Netdev(n.name, n.kind, n.arg, n.peer)
  <2>1. ~ \E v \in Range(c.vlans) : n = Netdev(<<"n", v.name>>, "vlan", v.id, NoDevice)
    BY <1>1, <1>3
  <2> QED BY <2>1, FilesDescribe
<1>4. ASSUME NEW n \in Described(c), n.kind # "vlan"
      PROVE  n \in GenerateNetdevFileContents(c)
  <2>1. ~ \E v \in Range(c.vlans) : n = Netdev(<<"n", v.name>>, "vlan", v.id, <<"v", v.parent>>)
    BY <1>1, <1>4
  <2> QED BY <2>1, FilesDescribe
<1> QED BY <1>1, <1>2, <1>3, <1>4

\* No two veths of a configuration with files have the same end in a bridge.
LEMMA VethsSingle ==
    ASSUME NEW c, Valid(c), Lower(c), NEW n \in Described(c), NEW m \in Described(c),
           n.kind = "veth", m.kind = "veth", n.peer = m.peer
    PROVE  n.name = m.name
<1> DEFINE I == Range(c.interfaces)
           B == Range(c.bonds)
           End(k, name, x) == k.name = <<"v", name>> /\ k.peer[2] = x
<1>1. ASSUME NEW k \in Described(c), k.kind = "veth"
      PROVE  (\E i \in I : End(k, i.name, Strip(i.hwaddr))) \/ (\E b \in B : End(k, b.name, Strip(BondAddress(b))))
  <2>1. ASSUME NEW name, NEW h, k \in BridgeAndVeth(name, h)
        PROVE  End(k, name, Strip(h))
    BY <1>1, <2>1, NetdevFields DEF BridgeAndVeth
  <2>2. (\E i \in I : k \in BridgeAndVeth(i.name, i.hwaddr)) \/ (\E b \in B : k \in BridgeAndVeth(b.name, BondAddress(b)))
    <3>1. \A name, arg, peer : /\ Netdev(name, "bond", arg, peer).kind # "veth"
                               /\ Netdev(name, "vlan", arg, peer).kind # "veth"
                               /\ Netdev(name, "wireguard", arg, peer).kind # "veth"
      BY NetdevFields
    <3>2. \/ \E i \in I : k \in BridgeAndVeth(i.name, i.hwaddr)
          \/ \E b \in B : k \in BridgeAndVeth(b.name, BondAddress(b))
          \/ \E b \in B : k = Netdev(<<"b", b.name>>, "bond", b.settings, NoDevice)
          \/ \E v \in Range(c.vlans) : k = Netdev(<<"n", v.name>>, "vlan", v.id, <<"v", v.parent>>)
          \/ \E w \in Range(c.wireguard) : k = Netdev(<<"n", w.name>>, "wireguard", w.key, NoDevice)
      BY DescribedParts
    <3> QED BY <1>1, <3>1, <3>2
  <2> HIDE DEF End
  <2> QED BY <2>1, <2>2
<1>2. /\ \A i, j \in I : Strip(i.hwaddr) = Strip(j.hwaddr) => i = j
      /\ \A i \in I, b \in B : Strip(i.hwaddr) # Strip(BondAddress(b))
      /\ \A a, b \in B : Strip(BondAddress(a)) = Strip(BondAddress(b)) => a = b
  BY AddressesSingle, BondAddressesLower
<1>3. \A x, y, a, b : End(n, a, x) /\ End(m, b, y) => x = y /\ (a = b => n.name = m.name)
  OBVIOUS
<1> HIDE DEF End
<1> QED BY <1>1, <1>2, <1>3

\* Once networkd has read the files, the devices it made are those of the configuration, and every
\* one of the configuration is there that nothing was in the way of.
LEMMA AllCreated ==
    ASSUME NEW c, Valid(c),
           files.netdevs = GenerateNetdevFileContents(c), files.networks = GenerateNetworkFileContents(c)
    PROVE  /\ \A d \in DOMAIN devices : d \in DOMAIN Created /\ Created[d] = devices[d]
           /\ \A d \in DOMAIN Created \ DOMAIN devices :
                Netdev(d, Created[d].kind, Created[d].arg, Created[d].peer) \in Described(c)
           /\ \A n \in Described(c) :
                n.kind # "vlan" /\ (n.kind = "veth" => n.peer \notin Peers(devices)) => n.name \in DOMAIN Created
           /\ \A v \in Range(c.vlans) : <<"v", v.parent>> \in DOMAIN Created => <<"n", v.name>> \in DOMAIN Created
<1> DEFINE D == DOMAIN devices
           Dev == GenerateNetdevFileContents(c)
           Net == GenerateNetworkFileContents(c)
           made == {n \in Dev : Makeable(n)}
           after == D \cup {n.name : n \in made}
           lower(v) == {f.match : f \in {g \in Net : v \in g.vlans /\ g.match \in after}}
           vlans == {n \in Dev : n.kind = "vlan" /\ n.name \notin D /\ lower(n.name) # {}}
           dom == after \cup {n.name : n \in vlans}
           new(d) == CHOOSE x \in made \cup vlans : x.name = d
           peer(d) == IF new(d).kind = "vlan" THEN CHOOSE l \in lower(d) : TRUE ELSE new(d).peer
<1>1. Created = [d \in dom |-> IF d \in D THEN devices[d]
                               ELSE [kind |-> new(d).kind, arg |-> new(d).arg, peer |-> peer(d)]]
  BY DEF Created
<1> HIDE DEF new, peer
<1>2. DOMAIN Created = dom
  BY <1>1
<1>3. \A n \in made : n \in Dev /\ n.kind # "vlan" /\ n.name \notin D
  BY DEF Makeable
<1>4. ASSUME NEW n \in Described(c), n.kind # "vlan", n.kind = "veth" => n.peer \notin Peers(devices)
      PROVE  n.name \in dom
  <2>1. n \in Dev
    <3> HIDE DEF made
    <3> QED BY <1>4, FilesKinds
  <2>2. n.name \in D \/ n \in made
    BY <1>4, <2>1 DEF Makeable
  <2> HIDE DEF made
  <2> QED BY <2>2
<1>5. ASSUME NEW v \in Range(c.vlans)
      PROVE  /\ lower(<<"n", v.name>>) \subseteq {<<"v", v.parent>>}
             /\ <<"v", v.parent>> \in after => <<"v", v.parent>> \in lower(<<"n", v.name>>)
  <2> HIDE DEF after
  <2> QED BY VLANListed
<1>6. \A n \in vlans : n \in Dev /\ n.kind = "vlan" /\ n.name \notin D /\ lower(n.name) # {}
  OBVIOUS
<1>7. \A n \in vlans : \E v \in Range(c.vlans) : n.name = <<"n", v.name>>
  <2> TAKE n \in vlans
  <2>1. n \in Dev /\ n.kind = "vlan"
    BY <1>6
  <2> HIDE DEF vlans
  <2>2. PICK v \in Range(c.vlans) : n = Netdev(<<"n", v.name>>, "vlan", v.id, NoDevice)
    BY <2>1, FilesKinds
  <2> QED BY <2>2, FilesKinds
<1>8. ASSUME NEW v \in Range(c.vlans), <<"v", v.parent>> \in dom
      PROVE  <<"n", v.name>> \in dom
  <2> DEFINE n == Netdev(<<"n", v.name>>, "vlan", v.id, NoDevice)
  <2>1. n \in Dev /\ n.kind = "vlan" /\ n.name = <<"n", v.name>>
    <3>1. n \in Dev
      BY FilesDescribe
    <3> QED BY <3>1, NetdevFields
  <2>2. <<"v", v.parent>> \in after
    <3>1. <<"v", v.parent>> \notin {k.name : k \in vlans}
      <4> HIDE DEF vlans
      <4> QED BY <1>7
    <3> HIDE DEF vlans, after
    <3> QED BY <1>8, <3>1
  <2>3. lower(<<"n", v.name>>) # {}
    <3> HIDE DEF after, lower
    <3> QED BY <1>5, <2>2
  <2> HIDE DEF n, lower, made
  <2>4. n.name \in D \/ n \in vlans
    BY <2>1, <2>3
  <2> HIDE DEF vlans
  <2> QED BY <2>1, <2>4
<1>9. ASSUME NEW d \in dom, d \notin D
      PROVE  Netdev(d, Created[d].kind, Created[d].arg, Created[d].peer) \in Described(c)
  <2>1. new(d) \in made \cup vlans /\ new(d).name = d
    BY <1>9 DEF new
  <2>2. Created[d].kind = new(d).kind /\ Created[d].arg = new(d).arg /\ Created[d].peer = peer(d)
    BY <1>1, <1>9
  <2> HIDE DEF made, vlans
  <2>3. CASE new(d).kind # "vlan"
    <3>1. new(d) \in Dev
      BY <1>3, <1>6, <2>1
    <3>2. new(d) \in Described(c) /\ new(d) = Netdev(new(d).name, new(d).kind, new(d).arg, new(d).peer)
      BY <2>3, <3>1, FilesKinds
    <3> QED BY <2>1, <2>2, <2>3, <3>2 DEF peer
  <2>4. CASE new(d).kind = "vlan"
    <3>1. new(d) \in vlans /\ new(d) \in Dev
      BY <1>3, <1>6, <2>1, <2>4
    <3> HIDE DEF Dev, lower
    <3>2. PICK v \in Range(c.vlans) : new(d) = Netdev(<<"n", v.name>>, "vlan", v.id, NoDevice)
      BY <2>4, <3>1, FilesKinds DEF Dev
    <3>3. d = <<"n", v.name>> /\ new(d).arg = v.id
      BY <2>1, <3>2, NetdevFields
    <3>4. lower(d) = {<<"v", v.parent>>}
      <4>1. lower(d) # {}
        BY <1>6, <2>1, <3>1
      <4>2. lower(d) \subseteq {<<"v", v.parent>>}
        BY <1>5, <3>3
      <4> QED BY <4>1, <4>2
    <3>5. peer(d) = <<"v", v.parent>>
      BY <2>4, <3>4 DEF peer
    <3> QED BY <2>2, <2>4, <3>3, <3>5, FilesDescribe
  <2> QED BY <2>3, <2>4
<1>10. \A d \in D : d \in dom /\ Created[d] = devices[d]
  BY <1>1
<1> HIDE DEF dom, Dev
<1> QED BY <1>2, <1>4, <1>8, <1>9, <1>10

\* Restarted, networkd makes the devices of the configuration and puts every port where its file says.
LEMMA RestartConnects ==
    ASSUME NetInv, RestartNetworkd
    PROVE  Matches(applied)' /\ Connected'
<1> DEFINE c == applied
           I == Range(c.interfaces)
           B == Range(c.bonds)
           ports == Ports(Created)
           masters == {d \in DOMAIN devices' : devices'[d].kind \in {"bridge", "bond"}}
           alien == Mismatched(applied)'
<1>1. /\ Valid(c) /\ Matches(c) /\ Lower(c) /\ applied' = applied /\ strays' = strays
      /\ files.netdevs = GenerateNetdevFileContents(c) /\ files.networks = GenerateNetworkFileContents(c)
      /\ GenerateLinkFileContents(c) \subseteq renamed
  BY DEF NetInv, RestartNetworkd, AtStep, FileSteps, Lower
<1>2. devices' = Created
  BY DEF RestartNetworkd
<1>3. /\ \A d \in DOMAIN devices : d \in DOMAIN devices' /\ devices'[d] = devices[d]
      /\ \A d \in DOMAIN devices' \ DOMAIN devices :
           Netdev(d, devices'[d].kind, devices'[d].arg, devices'[d].peer) \in Described(c)
      /\ \A n \in Described(c) :
           n.kind # "vlan" /\ (n.kind = "veth" => n.peer \notin Peers(devices)) => n.name \in DOMAIN devices'
      /\ \A v \in Range(c.vlans) : <<"v", v.parent>> \in DOMAIN devices' => <<"n", v.name>> \in DOMAIN devices'
  BY <1>1, <1>2, AllCreated
<1> DEFINE dev(d) == Netdev(d, devices'[d].kind, devices'[d].arg, devices'[d].peer)
<1>16. \A d : d \in alien <=> d \in DOMAIN devices' /\ dev(d) \notin Described(c)
  BY <1>1 DEF Mismatched
<1> HIDE DEF alien
<1>4. ASSUME NEW name, NEW kind, NEW arg, NEW peer, Netdev(name, kind, arg, peer) \in Described(c),
             name \in DOMAIN devices', name \notin alien
      PROVE  devices'[name].kind = kind /\ devices'[name].arg = arg /\ devices'[name].peer = peer
  <2> DEFINE n == Netdev(name, kind, arg, peer)
             m == dev(name)
  <2>1. n.name = name /\ m.name = name
    BY NetdevFields
  <2>2. m \in Described(c)
    BY <1>4, <1>16
  <2>3. n = m
    BY <1>1, <1>4, <2>1, <2>2, DescribedSingle
  <2> QED BY <2>2, <2>3, NetdevFields
<1>5. ASSUME NEW f \in GenerateNetworkFileContents(c), f.master # NoDevice,
             f.match \in Present(Created), f.master \in masters
      PROVE  In(f.match, f.master)'
  <2>1. f \in ports /\ \A g \in ports : g \in GenerateNetworkFileContents(c) /\ g.master # NoDevice
    BY <1>1, <1>2, <1>5 DEF Ports
  <2>2. FileOf(f.match, ports) \in ports /\ FileOf(f.match, ports).match = f.match
    BY <2>1 DEF FileOf
  <2>3. FileOf(f.match, ports).master = f.master
    BY <1>1, <1>5, <2>1, <2>2, PortsSingle
  <2>4. f.match \in DOMAIN master' /\ master'[f.match] = FileOf(f.match, ports).master
    BY <2>1 DEF RestartNetworkd
  <2> QED BY <2>3, <2>4 DEF In
<1> DEFINE pair(name, h) ==
             /\ <<"n", name>> \in DOMAIN devices' /\ devices'[<<"n", name>>].kind = "bridge" /\ devices'[<<"n", name>>].arg = "none"
             /\ <<"v", name>> \in DOMAIN devices' /\ devices'[<<"v", name>>].kind = "veth" /\ devices'[<<"v", name>>].arg = h
             /\ devices'[<<"v", name>>].peer = <<"i", Strip(h)>>
           clear(name, h) == \A d \in alien : d[2] # name /\ devices'[d].peer # <<"i", Strip(h)>>
<1>17. \A name, h : ~Blocked(name, h)' => clear(name, h)
  BY DEF Blocked, alien
<1>6. ASSUME NEW name, NEW h, BridgeAndVeth(name, h) \subseteq Described(c), clear(name, h)
      PROVE  pair(name, h) /\ <<"i", Strip(h)>> \in Present(Created)
  <2> DEFINE bridge == Netdev(<<"n", name>>, "bridge", "none", NoDevice)
             veth == Netdev(<<"v", name>>, "veth", h, <<"i", Strip(h)>>)
  <2>1. /\ bridge \in Described(c) /\ bridge.name = <<"n", name>> /\ bridge.kind = "bridge"
        /\ veth \in Described(c) /\ veth.name = <<"v", name>> /\ veth.kind = "veth" /\ veth.peer = <<"i", Strip(h)>>
    BY <1>6, NetdevFields DEF BridgeAndVeth
  <2>2. <<"n", name>> \notin alien /\ <<"v", name>> \notin alien
    BY <1>6
  <2>3. <<"n", name>> \in DOMAIN devices'
    <3> HIDE DEF bridge, veth
    <3> QED BY <1>3, <2>1
  <2>4. <<"v", name>> \in DOMAIN devices'
    <3>1. CASE <<"i", Strip(h)>> \notin Peers(devices)
      <4> HIDE DEF bridge, veth
      <4> QED BY <1>3, <2>1, <3>1
    <3>2. CASE <<"i", Strip(h)>> \in Peers(devices)
      <4>1. PICK d \in DOMAIN devices : devices[d].kind = "veth" /\ devices[d].peer = <<"i", Strip(h)>>
        BY <3>2 DEF Peers
      <4>2. d \in DOMAIN devices' /\ devices'[d] = devices[d] /\ d \notin alien
        BY <1>3, <1>6, <4>1
      <4>3. dev(d) \in Described(c) /\ dev(d).name = d /\ dev(d).kind = "veth" /\ dev(d).peer = <<"i", Strip(h)>>
        BY <1>16, <4>1, <4>2, NetdevFields
      <4> HIDE DEF bridge, veth, dev
      <4>4. d = <<"v", name>>
        BY <1>1, <2>1, <4>3, VethsSingle
      <4> QED BY <4>2, <4>4
    <3> QED BY <3>1, <3>2
  <2>5. pair(name, h)
    BY <1>4, <2>1, <2>2, <2>3, <2>4
  <2>6. <<"i", Strip(h)>> \in Present(Created)
    BY <1>2, <2>5 DEF Present, Peers
  <2> QED BY <2>5, <2>6
<1>7. /\ \A i \in I : BridgeAndVeth(i.name, i.hwaddr) \subseteq Described(c)
      /\ \A b \in B : /\ BridgeAndVeth(b.name, BondAddress(b)) \subseteq Described(c)
                      /\ Netdev(<<"b", b.name>>, "bond", b.settings, NoDevice) \in Described(c)
      /\ \A v \in Range(c.vlans) : Netdev(<<"n", v.name>>, "vlan", v.id, <<"v", v.parent>>) \in Described(c)
      /\ \A w \in Range(c.wireguard) : Netdev(<<"n", w.name>>, "wireguard", w.key, NoDevice) \in Described(c)
  BY DescribedParts
<1>8. /\ \A h \in LinkAddresses(c) : <<"p", Strip(h)>> \in Present(Created)
      /\ \A d \in DOMAIN devices' : d \in Present(Created)
  BY <1>1, <1>2 DEF Present, GenerateLinkFileContents
<1>9. \A name : <<"n", name>> # NoDevice /\ <<"b", name>> # NoDevice
  BY DEF NoDevice
<1>10. ASSUME NEW i \in I, ~Blocked(i.name, i.hwaddr)'
       PROVE  VethReaches(i.name, i.hwaddr)' /\ In(<<"p", Strip(i.hwaddr)>>, <<"n", i.name>>)'
  <2>0. pair(i.name, i.hwaddr) /\ <<"i", Strip(i.hwaddr)>> \in Present(Created)
    BY <1>6, <1>7, <1>10, <1>17
  <2>1. PICK f \in GenerateNetworkFileContents(c), g \in GenerateNetworkFileContents(c) : InterfaceEnd(f, i) /\ InterfaceCard(g, i)
    BY PortsThere
  <2>2. i.hwaddr \in LinkAddresses(c)
    BY DEF LinkAddresses
  <2>3. In(<<"i", Strip(i.hwaddr)>>, <<"n", i.name>>)'
    <3>1. f.master # NoDevice /\ f.match \in Present(Created) /\ f.master \in masters
      BY <1>8, <1>9, <2>0, <2>1 DEF InterfaceEnd
    <3>2. In(f.match, f.master)'
      BY <1>5, <3>1
    <3> QED BY <2>1, <3>2 DEF InterfaceEnd
  <2>4. In(<<"p", Strip(i.hwaddr)>>, <<"n", i.name>>)'
    <3>1. g.master # NoDevice /\ g.match \in Present(Created) /\ g.master \in masters
      BY <1>8, <1>9, <2>0, <2>1, <2>2 DEF InterfaceCard
    <3>2. In(g.match, g.master)'
      BY <1>5, <3>1
    <3> QED BY <2>1, <3>2 DEF InterfaceCard
  <2> QED BY <2>0, <2>3, <2>4 DEF VethReaches, Is
<1>11. ASSUME NEW b \in B, ~Blocked(b.name, BondAddress(b))'
       PROVE  /\ VethReaches(b.name, BondAddress(b))'
              /\ Is(<<"b", b.name>>, "bond", b.settings)' /\ In(<<"b", b.name>>, <<"n", b.name>>)'
              /\ \A m \in Range(b.members) : In(<<"p", Strip(m)>>, <<"b", b.name>>)'
  <2>0. pair(b.name, BondAddress(b)) /\ <<"i", Strip(BondAddress(b))>> \in Present(Created)
    <3>1. clear(b.name, BondAddress(b)) /\ BridgeAndVeth(b.name, BondAddress(b)) \subseteq Described(c)
      BY <1>7, <1>11, <1>17
    <3> HIDE DEF pair, clear
    <3> QED BY <1>6, <3>1
  <2>1. PICK f \in GenerateNetworkFileContents(c), g \in GenerateNetworkFileContents(c) : BondEnd(f, b) /\ BondPort(g, b)
    BY PortsThere
  <2>2. Is(<<"b", b.name>>, "bond", b.settings)'
    <3> DEFINE n == Netdev(<<"b", b.name>>, "bond", b.settings, NoDevice)
    <3>1. n \in Described(c) /\ n.name = <<"b", b.name>> /\ n.kind = "bond" /\ <<"b", b.name>> \notin alien
      BY <1>7, <1>11, <1>17, NetdevFields
    <3>2. <<"b", b.name>> \in DOMAIN devices'
      <4> HIDE DEF n
      <4> QED BY <1>3, <3>1
    <3> QED BY <1>4, <3>1, <3>2 DEF Is
  <2>3. In(<<"i", Strip(BondAddress(b))>>, <<"n", b.name>>)'
    <3>1. f.master # NoDevice /\ f.match \in Present(Created) /\ f.master \in masters
      BY <1>8, <1>9, <2>0, <2>1 DEF BondEnd
    <3>2. In(f.match, f.master)'
      BY <1>5, <3>1
    <3> QED BY <2>1, <3>2 DEF BondEnd
  <2>4. In(<<"b", b.name>>, <<"n", b.name>>)'
    <3>1. g.master # NoDevice /\ g.match \in Present(Created) /\ g.master \in masters
      BY <1>8, <1>9, <2>0, <2>1, <2>2 DEF BondPort, Is
    <3>2. In(g.match, g.master)'
      BY <1>5, <3>1
    <3> QED BY <2>1, <3>2 DEF BondPort
  <2>5. ASSUME NEW m \in Range(b.members)
        PROVE  In(<<"p", Strip(m)>>, <<"b", b.name>>)'
    <3>1. PICK k \in GenerateNetworkFileContents(c) : BondCard(k, b, m)
      BY PortsThere
    <3>2. m \in LinkAddresses(c)
      BY DEF LinkAddresses
    <3> QED BY <1>5, <1>8, <1>9, <2>2, <3>1, <3>2 DEF BondCard, Is
  <2> QED BY <2>0, <2>2, <2>3, <2>4, <2>5 DEF VethReaches, Is
<1>12. ASSUME NEW v \in Range(c.vlans), <<"n", v.name>> \notin alien, <<"v", v.parent>> \in DOMAIN devices'
       PROVE  Is(<<"n", v.name>>, "vlan", v.id)' /\ devices'[<<"n", v.name>>].peer = <<"v", v.parent>>
  BY <1>3, <1>4, <1>7, <1>12 DEF Is
<1>13. ASSUME NEW w \in Range(c.wireguard), <<"n", w.name>> \notin alien
       PROVE  Is(<<"n", w.name>>, "wireguard", w.key)'
  <2> DEFINE n == Netdev(<<"n", w.name>>, "wireguard", w.key, NoDevice)
  <2>1. n \in Described(c) /\ n.name = <<"n", w.name>> /\ n.kind = "wireguard"
    BY <1>7, NetdevFields
  <2>2. <<"n", w.name>> \in DOMAIN devices'
    <3> HIDE DEF n
    <3> QED BY <1>3, <2>1
  <2> QED BY <1>4, <1>13, <2>1, <2>2 DEF Is
<1>14. Matches(applied)'
  <2>1. \A d \in alien : d \in DOMAIN devices /\ d \in Mismatched(applied)
    BY <1>3, <1>16 DEF Mismatched
  <2> QED BY <1>1, <2>1 DEF Matches, alien
<1>15. Connected'
  BY <1>1, <1>10, <1>11, <1>12, <1>13 DEF Connected, alien
<1> QED BY <1>14, <1>15

-----------------------------------------------------------------------------
(* The steps before the files.                                             *)

\* Giving every wireguard a key changes nothing else.
LEMMA KeysGiven ==
    ASSUME NEW c, Valid(c)
    PROVE  LET k == CheckWireguardPrivateKeys(c)
           IN  /\ Valid(k) /\ Keyed(k)
               /\ k.interfaces = c.interfaces /\ k.bonds = c.bonds /\ k.vlans = c.vlans
               /\ \A w \in Range(c.wireguard) : w.key # NoKey => w \in Range(k.wireguard)
<1> DEFINE k == CheckWireguardPrivateKeys(c)
           with(w) == IF w.key = NoKey THEN [w EXCEPT !.key = GeneratedKey] ELSE w
<1>1. c \in NetConfig /\ c.wireguard \in Seq(NetWireguard) /\ \A i \in DOMAIN c.wireguard : c.wireguard[i] \in NetWireguard
  BY ConfigParts DEF Valid
<1>2. GeneratedKey # NoKey
  BY DEF GeneratedKey, NoKey
<1>3. /\ k.wireguard = [i \in DOMAIN c.wireguard |-> with(c.wireguard[i])]
      /\ k.interfaces = c.interfaces /\ k.bonds = c.bonds /\ k.vlans = c.vlans
      /\ k = [interfaces |-> k.interfaces, bonds |-> k.bonds, vlans |-> k.vlans, wireguard |-> k.wireguard]
  <2> DEFINE f == [i \in DOMAIN c.wireguard |-> with(c.wireguard[i])]
  <2>1. k = [c EXCEPT !.wireguard = f]
    BY DEF CheckWireguardPrivateKeys
  <2> HIDE DEF f, k
  <2>2. c = [interfaces |-> c.interfaces, bonds |-> c.bonds, vlans |-> c.vlans, wireguard |-> c.wireguard]
    BY <1>1 DEF NetConfig
  <2>3. k = [interfaces |-> c.interfaces, bonds |-> c.bonds, vlans |-> c.vlans, wireguard |-> f]
    BY <2>1, <2>2
  <2> QED BY <2>3 DEF f
<1>4. \A w \in NetWireguard : with(w) \in NetWireguard /\ with(w).name = w.name /\ with(w).key # NoKey
  <2> TAKE w \in NetWireguard
  <2>1. w = [name |-> w.name, key |-> w.key, settings |-> w.settings] /\ w.name \in STRING /\ w.settings \in STRING
    BY DEF NetWireguard
  <2>2. [w EXCEPT !.key = GeneratedKey] = [name |-> w.name, key |-> GeneratedKey, settings |-> w.settings]
    BY <2>1
  <2>3. [w EXCEPT !.key = GeneratedKey] \in NetWireguard
    BY <2>1, <2>2 DEF NetWireguard
  <2> QED BY <1>2, <2>2, <2>3
<1> HIDE DEF k, with
<1>5. DOMAIN k.wireguard = DOMAIN c.wireguard /\ \A i \in DOMAIN c.wireguard : k.wireguard[i] = with(c.wireguard[i])
  BY <1>3
<1>6. k.wireguard \in Seq(NetWireguard)
  BY <1>1, <1>3, <1>4, MappedSeq
<1>7. k \in NetConfig
  BY <1>1, <1>3, <1>6 DEF NetConfig
<1>8. NamesOf(k.wireguard) = NamesOf(c.wireguard)
  BY <1>1, <1>4, <1>5 DEF NamesOf
<1>9. AllNames(k) = AllNames(c)
  BY <1>3, <1>8 DEF AllNames
<1>10. AddressesDiffer(k)
  BY <1>3 DEF AddressesDiffer, Valid
<1>11. Valid(k)
  BY <1>3, <1>7, <1>9, <1>10 DEF Valid, ValidateParent
<1>12. Keyed(k)
  BY <1>1, <1>4, <1>5 DEF Keyed, Range
<1>13. \A w \in Range(c.wireguard) : w.key # NoKey => w \in Range(k.wireguard)
  BY <1>5 DEF Range, with
<1> QED BY <1>3, <1>11, <1>12, <1>13 DEF k

\* A device that is not stale is one of the new configuration.
LEMMA NotStale ==
    ASSUME NEW old, NEW new, Keyed(old), Valid(new), NEW n \in Described(old), n.name \notin StaleDevices(old, new)
    PROVE  n \in Described(CheckWireguardPrivateKeys(new))
<1> DEFINE k == CheckWireguardPrivateKeys(new)
           S == StaleDevices(old, new)
<1>1. /\ k.interfaces = new.interfaces /\ k.bonds = new.bonds /\ k.vlans = new.vlans
      /\ \A w \in Range(new.wireguard) : w.key # NoKey => w \in Range(k.wireguard)
  BY KeysGiven
<1>2. \A seq, d : d \notin Range(seq) => Gone(d, seq) \/ Changed(d, seq)
  BY DEF Changed
<1>3. /\ \A i \in Range(old.interfaces) : Gone(i, new.interfaces) \/ Changed(i, new.interfaces) => <<"v", i.name>> \in S
      /\ \A b \in Range(old.bonds) : Gone(b, new.bonds) \/ Changed(b, new.bonds) => <<"v", b.name>> \in S /\ <<"b", b.name>> \in S
      /\ \A i \in Range(old.interfaces) : Gone(i, new.interfaces) => <<"n", i.name>> \in S
      /\ \A b \in Range(old.bonds) : Gone(b, new.bonds) => <<"n", b.name>> \in S
      /\ \A v \in Range(old.vlans) : Gone(v, new.vlans) \/ Changed(v, new.vlans) => <<"n", v.name>> \in S
      /\ \A w \in Range(old.wireguard) : Gone(w, new.wireguard) \/ Changed(w, new.wireguard) => <<"n", w.name>> \in S
  BY DEF StaleDevices
<1>4. /\ \A i \in Range(new.interfaces) : BridgeAndVeth(i.name, i.hwaddr) \subseteq Described(k)
      /\ \A b \in Range(new.bonds) : /\ BridgeAndVeth(b.name, BondAddress(b)) \subseteq Described(k)
                                     /\ Netdev(<<"b", b.name>>, "bond", b.settings, NoDevice) \in Described(k)
      /\ \A v \in Range(new.vlans) : Netdev(<<"n", v.name>>, "vlan", v.id, <<"v", v.parent>>) \in Described(k)
      /\ \A w \in Range(k.wireguard) : Netdev(<<"n", w.name>>, "wireguard", w.key, NoDevice) \in Described(k)
  BY <1>1, DescribedParts
<1>5. \A name, h : BridgeAndVeth(name, h) =
          {Netdev(<<"n", name>>, "bridge", "none", NoDevice), Netdev(<<"v", name>>, "veth", h, <<"i", Strip(h)>>)}
  BY DEF BridgeAndVeth
<1>6. n.name \notin S
  OBVIOUS
<1> HIDE DEF k, S
<1>7. ASSUME NEW i \in Range(old.interfaces), n \in BridgeAndVeth(i.name, i.hwaddr)
      PROVE  n \in Described(k)
  <2>1. CASE i \in Range(new.interfaces)
    BY <1>4, <1>7, <2>1
  <2>2. CASE i \notin Range(new.interfaces)
    <3>1. <<"v", i.name>> \in S
      BY <1>2, <1>3, <2>2
    <3>2. n = Netdev(<<"n", i.name>>, "bridge", "none", NoDevice) /\ n.name = <<"n", i.name>>
      <4>1. n \in {Netdev(<<"n", i.name>>, "bridge", "none", NoDevice), Netdev(<<"v", i.name>>, "veth", i.hwaddr, <<"i", Strip(i.hwaddr)>>)}
        BY <1>5, <1>7
      <4>2. n # Netdev(<<"v", i.name>>, "veth", i.hwaddr, <<"i", Strip(i.hwaddr)>>)
        BY <1>6, <3>1, NetdevFields
      <4> QED BY <4>1, <4>2, NetdevFields
    <3>3. PICK j \in Range(new.interfaces) : j.name = i.name
      BY <1>3, <1>6, <3>2 DEF Gone, Named
    <3>4. n \in BridgeAndVeth(j.name, j.hwaddr)
      BY <1>5, <3>2, <3>3
    <3> QED BY <1>4, <3>4
  <2> QED BY <2>1, <2>2
<1>8. ASSUME NEW b \in Range(old.bonds), n \in BridgeAndVeth(b.name, BondAddress(b))
      PROVE  n \in Described(k)
  <2>1. CASE b \in Range(new.bonds)
    BY <1>4, <1>8, <2>1
  <2>2. CASE b \notin Range(new.bonds)
    <3>1. <<"v", b.name>> \in S
      BY <1>2, <1>3, <2>2
    <3>2. n = Netdev(<<"n", b.name>>, "bridge", "none", NoDevice) /\ n.name = <<"n", b.name>>
      <4>1. n \in {Netdev(<<"n", b.name>>, "bridge", "none", NoDevice), Netdev(<<"v", b.name>>, "veth", BondAddress(b), <<"i", Strip(BondAddress(b))>>)}
        BY <1>5, <1>8
      <4>2. n # Netdev(<<"v", b.name>>, "veth", BondAddress(b), <<"i", Strip(BondAddress(b))>>)
        BY <1>6, <3>1, NetdevFields
      <4> QED BY <4>1, <4>2, NetdevFields
    <3>3. PICK j \in Range(new.bonds) : j.name = b.name
      BY <1>3, <1>6, <3>2 DEF Gone, Named
    <3>4. n \in BridgeAndVeth(j.name, BondAddress(j))
      BY <1>5, <3>2, <3>3
    <3> QED BY <1>4, <3>4
  <2> QED BY <2>1, <2>2
<1>9. ASSUME NEW b \in Range(old.bonds), n = Netdev(<<"b", b.name>>, "bond", b.settings, NoDevice)
      PROVE  n \in Described(k)
  <2>1. n.name = <<"b", b.name>>
    BY <1>9, NetdevFields
  <2>2. b \in Range(new.bonds)
    BY <1>2, <1>3, <1>6, <2>1
  <2> QED BY <1>4, <1>9, <2>2
<1>10. ASSUME NEW v \in Range(old.vlans), n = Netdev(<<"n", v.name>>, "vlan", v.id, <<"v", v.parent>>)
       PROVE  n \in Described(k)
  <2>1. n.name = <<"n", v.name>>
    BY <1>10, NetdevFields
  <2>2. v \in Range(new.vlans)
    BY <1>2, <1>3, <1>6, <2>1
  <2> QED BY <1>4, <1>10, <2>2
<1>11. ASSUME NEW w \in Range(old.wireguard), n = Netdev(<<"n", w.name>>, "wireguard", w.key, NoDevice)
       PROVE  n \in Described(k)
  <2>1. n.name = <<"n", w.name>>
    BY <1>11, NetdevFields
  <2>2. w \in Range(new.wireguard)
    BY <1>2, <1>3, <1>6, <2>1
  <2>3. w \in Range(k.wireguard)
    BY <1>1, <2>2 DEF Keyed
  <2> QED BY <1>4, <1>11, <2>3
<1>12. \/ \E i \in Range(old.interfaces) : n \in BridgeAndVeth(i.name, i.hwaddr)
       \/ \E b \in Range(old.bonds) : n \in BridgeAndVeth(b.name, BondAddress(b))
       \/ \E b \in Range(old.bonds) : n = Netdev(<<"b", b.name>>, "bond", b.settings, NoDevice)
       \/ \E v \in Range(old.vlans) : n = Netdev(<<"n", v.name>>, "vlan", v.id, <<"v", v.parent>>)
       \/ \E w \in Range(old.wireguard) : n = Netdev(<<"n", w.name>>, "wireguard", w.key, NoDevice)
  BY DescribedParts
<1> QED BY <1>7, <1>8, <1>9, <1>10, <1>11, <1>12 DEF k

\* What cleanupStaleDevices leaves is of the configuration before and of the new one.
LEMMA CleanupMatches ==
    ASSUME NetInv, CleanupStaleDevices
    PROVE  Matches(applied)' /\ Matches(CheckWireguardPrivateKeys(incoming.config))'
<1> DEFINE S == StaleDevices(applied, incoming.config)
<1>1. /\ Matches(applied) /\ Keyed(applied) /\ Valid(incoming.config)
      /\ applied' = applied /\ incoming' = [incoming EXCEPT !.step = "set"]
      /\ incoming = [config |-> incoming.config, step |-> incoming.step]
  BY DEF NetInv, CleanupStaleDevices, Then
<1>2. incoming'.config = incoming.config
  BY <1>1
<1>3. \A d \in DOMAIN devices' \ strays' : d \in DOMAIN devices /\ d \notin strays /\ d \notin S /\ devices'[d] = devices[d]
  BY DEF CleanupStaleDevices, DeleteNetworkDevice, Keep
<1> HIDE DEF S
<1>4. ASSUME NEW d \in DOMAIN devices' \ strays'
      PROVE  LET n == Netdev(d, devices'[d].kind, devices'[d].arg, devices'[d].peer)
             IN  n \in Described(applied) /\ n \in Described(CheckWireguardPrivateKeys(incoming.config))
  <2> DEFINE n == Netdev(d, devices[d].kind, devices[d].arg, devices[d].peer)
  <2>1. n \in Described(applied) /\ n.name = d /\ n.name \notin S
    BY <1>1, <1>3, NetdevFields DEF Matches, Mismatched
  <2> HIDE DEF n
  <2>2. n \in Described(CheckWireguardPrivateKeys(incoming.config))
    BY <1>1, <2>1, NotStale DEF S
  <2> QED BY <1>3, <2>1, <2>2 DEF n
<1> QED BY <1>1, <1>2, <1>4 DEF Matches, Mismatched

\* An address that can be resolved stays one, and is not turned into upper case.
LEMMA ResolvedAddress ==
    ASSUME NEW h \in Hwaddr, Resolvable(h)
    PROVE  Resolved(h) \in Hwaddr /\ (h[2] # "upper" => Resolved(h)[2] # "upper")
<1>1. CASE IsMAC(h) \/ h = NoHwaddr
  BY <1>1 DEF Resolved
<1>2. CASE ~(IsMAC(h) \/ h = NoHwaddr)
  <2>1. Resolved(h) \in GetMacForInterface(h[1])
    BY <1>2 DEF Resolvable, Resolved
  <2>2. \A x \in GetMacForInterface(h[1]) : x \in Hwaddr /\ x[2] = "lower"
    <3>1. h[1] \in STRING
      BY DEF Hwaddr
    <3>2. \A x \in STRING : <<x, "lower">> \in Hwaddr /\ <<x, "lower">>[2] = "lower"
      BY DEF Hwaddr
    <3> QED BY <3>1, <3>2, NetworkFilesAssumption DEF GetMacForInterface
  <2> QED BY <2>1, <2>2
<1> QED BY <1>1, <1>2

\* Cutting the names of USB cards keeps the type; what is left is not cut again.
LEMMA MangledConfig ==
    ASSUME NEW c \in NetConfig
    PROVE  LET m == MangleUSBNICs(c)
           IN  /\ m \in NetConfig /\ m.bonds = c.bonds /\ m.vlans = c.vlans /\ m.wireguard = c.wireguard
               /\ DOMAIN m.interfaces = DOMAIN c.interfaces
               /\ \A i \in DOMAIN c.interfaces :
                    /\ m.interfaces[i].name \notin DOMAIN UsbName
                    /\ c.interfaces[i].name \notin DOMAIN UsbName => m.interfaces[i] = c.interfaces[i]
<1> DEFINE m == MangleUSBNICs(c)
           f == [i \in DOMAIN c.interfaces |-> MangleUSBNIC(c.interfaces[i])]
<1>1. m = [c EXCEPT !.interfaces = f]
  BY DEF MangleUSBNICs
<1>2. \A d \in NetInterface : MangleUSBNIC(d) \in NetInterface /\ MangleUSBNIC(d).name \notin DOMAIN UsbName
                              /\ (d.name \notin DOMAIN UsbName => MangleUSBNIC(d) = d)
  <2> TAKE d \in NetInterface
  <2>1. CASE d.name \notin DOMAIN UsbName
    BY <2>1 DEF MangleUSBNIC
  <2>2. CASE d.name \in DOMAIN UsbName
    <3>1. UsbName[d.name] \in STRING /\ UsbName[d.name] \notin DOMAIN UsbName
      BY <2>2, NetworkFilesAssumption
    <3>2. MangleUSBNIC(d) = [d EXCEPT !.name = UsbName[d.name]]
      BY <2>2 DEF MangleUSBNIC
    <3> QED BY <2>2, <3>1, <3>2 DEF NetInterface
  <2> QED BY <2>1, <2>2
<1> HIDE DEF m
<1>3. c = [interfaces |-> c.interfaces, bonds |-> c.bonds, vlans |-> c.vlans, wireguard |-> c.wireguard]
  BY DEF NetConfig
<1>4. \A i \in DOMAIN c.interfaces : c.interfaces[i] \in NetInterface /\ f[i] = MangleUSBNIC(c.interfaces[i])
  BY ConfigParts
<1>5. f \in Seq(NetInterface) /\ DOMAIN f = DOMAIN c.interfaces
  <2>1. \A i \in DOMAIN c.interfaces : f[i] \in NetInterface
    BY <1>2, <1>4
  <2>2. f = [i \in DOMAIN c.interfaces |-> f[i]]
    OBVIOUS
  <2> HIDE DEF f
  <2> QED BY <2>1, <2>2, ConfigParts, MappedSeq
<1> HIDE DEF f
<1>6. m = [interfaces |-> f, bonds |-> c.bonds, vlans |-> c.vlans, wireguard |-> c.wireguard]
  BY <1>1, <1>3
<1>7. m \in NetConfig
  BY <1>5, <1>6, ConfigParts DEF NetConfig
<1> QED BY <1>2, <1>4, <1>5, <1>6, <1>7 DEF m

\* So does resolving the addresses.
LEMMA ResolvedConfig ==
    ASSUME NEW m \in NetConfig, \A h \in LinkAddresses(m) \cup {b.hwaddr : b \in Range(m.bonds)} : Resolvable(h)
    PROVE  LET r == ResolveMACs(m)
           IN  /\ r \in NetConfig /\ r.vlans = m.vlans /\ DOMAIN r.interfaces = DOMAIN m.interfaces
               /\ \A i \in DOMAIN m.interfaces : r.interfaces[i].name = m.interfaces[i].name
               /\ LowerCase(m) => LowerCase(r)
<1> DEFINE r == ResolveMACs(m)
           f == [i \in DOMAIN m.interfaces |-> ResolvedInterface(m.interfaces[i])]
           g == [i \in DOMAIN m.bonds |-> ResolvedBond(m.bonds[i])]
<1>1. r = [m EXCEPT !.interfaces = f, !.bonds = g]
  BY DEF ResolveMACs
<1>2. ASSUME NEW i \in DOMAIN m.interfaces
      PROVE  f[i] \in NetInterface /\ f[i].name = m.interfaces[i].name
  <2> DEFINE d == m.interfaces[i]
  <2>1. d \in NetInterface
    BY ConfigParts
  <2>2. d.hwaddr \in Hwaddr /\ Resolvable(d.hwaddr)
    BY <2>1 DEF NetInterface, LinkAddresses, Range
  <2>3. Resolved(d.hwaddr) \in Hwaddr
    BY <2>2, ResolvedAddress
  <2>4. f[i] = [d EXCEPT !.hwaddr = Resolved(d.hwaddr)]
    BY DEF ResolvedInterface
  <2> HIDE DEF d, f
  <2> QED BY <2>1, <2>3, <2>4 DEF NetInterface, d
<1>3. ASSUME NEW i \in DOMAIN m.bonds
      PROVE  g[i] \in NetBond /\ (m.bonds[i].hwaddr[2] # "upper" => g[i].hwaddr[2] # "upper")
  <2> DEFINE b == m.bonds[i]
             ends == [j \in DOMAIN b.members |-> Resolved(b.members[j])]
  <2>1. b \in NetBond
    BY ConfigParts
  <2>2. b.hwaddr \in Hwaddr /\ Resolvable(b.hwaddr) /\ b.members \in Seq(Hwaddr)
    BY <2>1 DEF NetBond, Range
  <2>3. Resolved(b.hwaddr) \in Hwaddr /\ (b.hwaddr[2] # "upper" => Resolved(b.hwaddr)[2] # "upper")
    BY <2>2, ResolvedAddress
  <2>4. \A j \in DOMAIN b.members : Resolved(b.members[j]) \in Hwaddr
    <3>1. \A j \in DOMAIN b.members : b.members[j] \in Hwaddr
      BY <2>2, LenProperties
    <3>2. \A j \in DOMAIN b.members : Resolvable(b.members[j])
      BY DEF LinkAddresses, Range
    <3> QED BY <3>1, <3>2, ResolvedAddress
  <2>5. ends \in Seq(Hwaddr)
    BY <2>2, <2>4, MappedSeq
  <2>6. g[i] = [b EXCEPT !.hwaddr = Resolved(b.hwaddr), !.members = ends]
    BY DEF ResolvedBond
  <2> HIDE DEF b, g, ends
  <2> QED BY <2>1, <2>3, <2>5, <2>6 DEF NetBond, b
<1>4. f = [i \in DOMAIN m.interfaces |-> f[i]] /\ g = [i \in DOMAIN m.bonds |-> g[i]]
  OBVIOUS
<1> HIDE DEF r, f, g
<1>5. f \in Seq(NetInterface) /\ DOMAIN f = DOMAIN m.interfaces
  BY <1>2, <1>4, ConfigParts, MappedSeq
<1>6. g \in Seq(NetBond) /\ DOMAIN g = DOMAIN m.bonds
  BY <1>3, <1>4, ConfigParts, MappedSeq
<1>7. m = [interfaces |-> m.interfaces, bonds |-> m.bonds, vlans |-> m.vlans, wireguard |-> m.wireguard]
  BY DEF NetConfig
<1>8. r = [interfaces |-> f, bonds |-> g, vlans |-> m.vlans, wireguard |-> m.wireguard]
  BY <1>1, <1>7
<1>9. r \in NetConfig
  BY <1>5, <1>6, <1>8, ConfigParts DEF NetConfig
<1>10. LowerCase(m) => LowerCase(r)
  BY <1>3, <1>6, <1>8 DEF LowerCase, Range
<1> QED BY <1>2, <1>5, <1>8, <1>9, <1>10 DEF r

\* A configuration that was accepted is valid.
LEMMA AcceptValid ==
    ASSUME NEW c \in NetConfig, LowerCase(c), Accept(c)
    PROVE  Valid(incoming'.config) /\ incoming' = [config |-> incoming'.config, step |-> "cleanup"]
<1> DEFINE m == MangleUSBNICs(c)
           r == ResolveMACs(m)
           q == MangleUSBNICs(r)
<1>1. /\ \A h \in LinkAddresses(m) \cup {b.hwaddr : b \in Range(m.bonds)} : Resolvable(h)
      /\ ValidateNetworkConfiguration(r, TRUE) /\ incoming' = [config |-> r, step |-> "cleanup"]
  BY DEF Accept
<1>2. /\ m \in NetConfig /\ m.bonds = c.bonds
      /\ \A i \in DOMAIN m.interfaces : m.interfaces[i].name \notin DOMAIN UsbName
  BY MangledConfig
<1>3. LowerCase(m)
  BY <1>2 DEF LowerCase
<1> HIDE DEF m
<1>4. r \in NetConfig /\ LowerCase(r) /\ \A i \in DOMAIN r.interfaces : r.interfaces[i].name \notin DOMAIN UsbName
  BY <1>1, <1>2, <1>3, ResolvedConfig
<1> HIDE DEF r
<1>5. /\ q.bonds = r.bonds /\ q.vlans = r.vlans /\ DOMAIN q.interfaces = DOMAIN r.interfaces
      /\ \A i \in DOMAIN r.interfaces : q.interfaces[i] = r.interfaces[i]
  BY <1>4, MangledConfig
<1>6. IsInjective(AllNames(r)) /\ AddressesDiffer(r) /\ ValidateBonds(q, TRUE) /\ ValidateVLANs(q)
  BY <1>1 DEF ValidateNetworkConfiguration
<1> HIDE DEF q
<1>7. Range(q.interfaces) = Range(r.interfaces)
  BY <1>5 DEF Range
<1>8. \A v \in Range(r.vlans) : ValidateParent(v.parent, r)
  BY <1>5, <1>6, <1>7 DEF ValidateVLANs, ValidateParent
<1>9. \A b \in Range(r.bonds) : b.members # <<>> /\ (b.hwaddr # NoHwaddr => b.hwaddr[2] = "lower")
  BY <1>4, <1>5, <1>6 DEF ValidateBonds, ValidHwaddr, IsMAC, LowerCase
<1>10. Valid(r)
  BY <1>4, <1>6, <1>8, <1>9 DEF Valid
<1> QED BY <1>1, <1>10

-----------------------------------------------------------------------------
(* The invariant.                                                          *)

\* Nothing is configured at first.
LEMMA NoConfigValid == Valid(NoConfig) /\ Keyed(NoConfig)
<1>1. /\ NoConfig.interfaces = <<>> /\ NoConfig.bonds = <<>> /\ NoConfig.vlans = <<>> /\ NoConfig.wireguard = <<>>
      /\ Range(<<>>) = {} /\ NoConfig \in NetConfig
  <2>1. \A S : <<>> \in Seq(S)
    BY EmptySeq
  <2>2. Range(<<>>) = {}
    BY DEF Range
  <2> QED BY <2>1, <2>2 DEF NoConfig, NetConfig
<1>2. NamesOf(<<>>) = <<>>
  BY DEF NamesOf
<1>3. AllNames(NoConfig) = <<>>
  BY <1>1, <1>2 DEF AllNames
<1>4. IsInjective(AllNames(NoConfig))
  BY <1>3 DEF IsInjective
<1>5. AddressesDiffer(NoConfig)
  BY <1>1 DEF AddressesDiffer, IsInjective
<1> QED BY <1>1, <1>4, <1>5 DEF Valid, Keyed

\* A valid configuration may be applied again.
LEMMA ValidLower == ASSUME NEW c, Valid(c) PROVE c \in NetConfig /\ LowerCase(c)
<1>1. NoHwaddr[2] = "none"
  BY Zenon DEF NoHwaddr
<1> QED BY <1>1 DEF Valid, LowerCase

\* The invariant holds at first.
LEMMA NetInitInv == ASSUME NetworkFilesInit PROVE NetInv
<1>1. Matches(applied)
  BY DEF NetworkFilesInit, Matches, Mismatched, Empty
<1>2. incoming.config = NoConfig /\ incoming.step = "idle" /\ incoming = [config |-> incoming.config, step |-> incoming.step]
  BY DEF NetworkFilesInit, NotUnderWay
<1> QED BY <1>1, <1>2, NoConfigValid DEF NetInv, NetworkFilesInit, AtStep, SetSteps, FileSteps

\* Nothing is under way any more.
LEMMA StopsInv ==
    ASSUME NetInv, incoming' = NotUnderWay, UNCHANGED <<applied, saved, devices, strays>>
    PROVE  NetInv'
<1>1. incoming'.config = NoConfig /\ incoming'.step = "idle" /\ incoming' = [config |-> incoming'.config, step |-> incoming'.step]
  BY DEF NotUnderWay
<1>2. Matches(applied)'
  BY DEF NetInv, Matches, Mismatched
<1> QED BY <1>1, <1>2, NoConfigValid DEF NetInv, AtStep, SetSteps, FileSteps

\* A configuration is under way from the beginning.
LEMMA BeginsInv ==
    ASSUME NetInv, NEW c \in NetConfig, LowerCase(c), Accept(c),
           Valid(applied)' /\ Keyed(applied)' /\ Matches(applied)', UNCHANGED saved
    PROVE  NetInv'
<1>1. Valid(incoming'.config) /\ incoming' = [config |-> incoming'.config, step |-> "cleanup"]
  BY AcceptValid
<1>2. incoming'.step = "cleanup" /\ incoming' = [config |-> incoming'.config, step |-> incoming'.step]
  BY <1>1
<1> QED BY <1>1, <1>2 DEF NetInv, AtStep, SetSteps, FileSteps

\* Every step keeps the invariant.
LEMMA NetStepInv ==
    ASSUME \A c \in NetConfigs : LowerCase(c), NetInv, [NetworkFilesNext]_netFileVars
    PROVE  NetInv'
<1> USE DEF SetSteps, FileSteps
<1>0. incoming = [config |-> incoming.config, step |-> incoming.step]
  BY DEF NetInv
<1>1. \A s : Then(s) => incoming'.config = incoming.config /\ incoming'.step = s
                        /\ incoming' = [config |-> incoming'.config, step |-> incoming'.step]
  BY <1>0 DEF Then
<1>2. UNCHANGED <<applied, devices, master, strays>> => (Connected => Connected') /\ \A c : Matches(c) => Matches(c)'
  <2> SUFFICES ASSUME UNCHANGED <<applied, devices, master, strays>>
               PROVE  (Connected => Connected') /\ \A c : Matches(c) => Matches(c)'
    OBVIOUS
  <2>1. \A c : Mismatched(c)' = Mismatched(c)
    BY DEF Mismatched
  <2>2. Connected => Connected'
    <3>1. \A d, kind, arg : Is(d, kind, arg) => Is(d, kind, arg)'
      BY DEF Is
    <3>2. \A p, m : In(p, m) => In(p, m)'
      BY DEF In
    <3>3. \A name, h : VethReaches(name, h) => VethReaches(name, h)'
      BY <3>1, <3>2 DEF VethReaches
    <3>4. \A name, h : Blocked(name, h)' <=> Blocked(name, h)
      BY <2>1 DEF Blocked
    <3>5. Mismatched(applied)' = Mismatched(applied)
      BY DEF Mismatched
    <3> QED BY <3>1, <3>2, <3>3, <3>4, <3>5 DEF Connected
  <2>3. \A c : Matches(c) => Matches(c)'
    BY <2>1 DEF Matches
  <2> QED BY <2>2, <2>3
<1>3. CASE Apply
  <2>1. PICK c \in NetConfigs \cup {saved} : Accept(c)
    BY <1>3 DEF Apply
  <2>2. c \in NetConfig /\ LowerCase(c)
    BY <2>1, ValidLower, NetworkFilesAssumption DEF NetInv
  <2>3. UNCHANGED <<applied, saved, devices, master, strays>>
    BY <1>3 DEF Apply
  <2>4. Valid(applied)' /\ Keyed(applied)' /\ Matches(applied)'
    BY <2>3 DEF NetInv, Matches, Mismatched
  <2> QED BY <2>1, <2>2, <2>3, <2>4, BeginsInv
<1>4. CASE CleanupStaleDevices
  <2>1. incoming'.config = incoming.config /\ incoming'.step = "set" /\ incoming' = [config |-> incoming'.config, step |-> incoming'.step]
    BY <1>1, <1>4 DEF CleanupStaleDevices
  <2>2. Matches(applied)' /\ Matches(CheckWireguardPrivateKeys(incoming.config))'
    BY <1>4, CleanupMatches
  <2>3. UNCHANGED <<applied, saved>>
    BY <1>4 DEF CleanupStaleDevices
  <2> QED BY <2>1, <2>2, <2>3 DEF NetInv, AtStep
<1>5. CASE SetConfig
  <2> DEFINE c == CheckWireguardPrivateKeys(incoming.config)
  <2>1. applied' = c /\ incoming' = [config |-> c, step |-> "generate"] /\ UNCHANGED <<saved, devices, strays>> /\ AtStep("set")
    BY <1>5 DEF SetConfig
  <2>2. Valid(c) /\ Keyed(c) /\ Matches(c)
    BY <2>1, KeysGiven DEF NetInv
  <2> HIDE DEF c
  <2>3. incoming'.config = c /\ incoming'.step = "generate" /\ incoming' = [config |-> incoming'.config, step |-> incoming'.step]
    BY <2>1
  <2>4. Matches(applied)'
    BY <2>1, <2>2 DEF Matches, Mismatched
  <2> QED BY <2>1, <2>2, <2>3, <2>4 DEF NetInv, AtStep
<1>6. CASE GenerateNetworkConfiguration
  <2>1. UNCHANGED <<applied, saved, devices, master, strays>> /\ AtStep("generate")
    BY <1>6 DEF GenerateNetworkConfiguration
  <2>2. CASE \A h \in LinkAddresses(incoming.config) : HasMaxMTU(h)
    <3>1. incoming'.config = incoming.config /\ incoming'.step = "rename" /\ incoming' = [config |-> incoming'.config, step |-> incoming'.step]
      BY <1>1, <1>6, <2>2 DEF GenerateNetworkConfiguration
    <3>2. incoming.config = applied
      BY <2>1 DEF NetInv, AtStep
    <3>3. /\ files'.netdevs = GenerateNetdevFileContents(applied) /\ files'.networks = GenerateNetworkFileContents(applied)
          /\ files'.links = GenerateLinkFileContents(applied)
      BY <1>6, <2>2, <3>2 DEF GenerateNetworkConfiguration
    <3>4. \A h \in LinkAddresses(applied) : h[2] = "lower"
      BY <2>2, <3>2 DEF HasMaxMTU
    <3> QED BY <1>2, <2>1, <3>1, <3>2, <3>3, <3>4 DEF NetInv, AtStep
  <2>3. CASE ~ \A h \in LinkAddresses(incoming.config) : HasMaxMTU(h)
    <3>1. incoming' = NotUnderWay
      BY <1>6, <2>3 DEF GenerateNetworkConfiguration
    <3> QED BY <2>1, <3>1, StopsInv
  <2> QED BY <2>2, <2>3
<1>7. CASE WaitForUdevInterfaceRename
  <2>1. UNCHANGED <<applied, saved, files, devices, master, strays>> /\ AtStep("rename")
    BY <1>7 DEF WaitForUdevInterfaceRename
  <2>2. CASE ExpectedNewPhysicalDevices \subseteq NICs
    <3>1. incoming'.config = incoming.config /\ incoming'.step = "restart" /\ incoming' = [config |-> incoming'.config, step |-> incoming'.step]
      BY <1>1, <1>7, <2>2 DEF WaitForUdevInterfaceRename
    <3>2. files.links \subseteq renamed'
      BY <1>7, <2>2 DEF WaitForUdevInterfaceRename, ExpectedNewPhysicalDevices
    <3> QED BY <1>2, <2>1, <3>1, <3>2 DEF NetInv, AtStep
  <2>3. CASE ~(ExpectedNewPhysicalDevices \subseteq NICs)
    <3>1. incoming' = NotUnderWay
      BY <1>7, <2>3 DEF WaitForUdevInterfaceRename
    <3> QED BY <2>1, <3>1, StopsInv
  <2> QED BY <2>2, <2>3
<1>8. CASE RestartNetworkd
  <2>1. incoming'.config = incoming.config /\ incoming'.step = "wait" /\ incoming' = [config |-> incoming'.config, step |-> incoming'.step]
    BY <1>1, <1>8 DEF RestartNetworkd
  <2>2. Matches(applied)' /\ Connected'
    BY <1>8, RestartConnects
  <2>3. UNCHANGED <<applied, saved, renamed, files>> /\ AtStep("restart")
    BY <1>8 DEF RestartNetworkd
  <2> QED BY <2>1, <2>2, <2>3 DEF NetInv, AtStep
<1>9. CASE WaitForNetworkOnline
  <2>1. incoming'.config = incoming.config /\ incoming'.step = "online" /\ incoming' = [config |-> incoming'.config, step |-> incoming'.step]
    BY <1>1, <1>9 DEF WaitForNetworkOnline
  <2>2. UNCHANGED <<applied, renamed, files, devices, master, strays>> /\ AtStep("wait") /\ saved' \in {saved, applied}
    BY <1>9 DEF WaitForNetworkOnline
  <2> QED BY <1>2, <2>1, <2>2 DEF NetInv, AtStep
<1>10. CASE ApplyFails
  BY <1>10, StopsInv DEF ApplyFails
<1>11. CASE ConfirmConfig
  BY <1>2, <1>11 DEF ConfirmConfig, NetInv, AtStep
<1>12. CASE WorkloadJoins
  BY <1>2, <1>12 DEF WorkloadJoins, NetInv, AtStep
<1>13. CASE RestartDaemon
  <2>1. /\ Accept(saved) /\ UNCHANGED <<saved, devices>> /\ applied' = saved
        /\ strays' = strays \cup IF saved = applied THEN {} ELSE Mismatched(saved)
    BY <1>13 DEF RestartDaemon
  <2>2. saved \in NetConfig /\ LowerCase(saved)
    BY ValidLower DEF NetInv
  <2>3. Mismatched(applied)' = Mismatched(saved)
    BY <2>1 DEF Mismatched
  <2>4. Mismatched(saved) \subseteq strays'
    BY <2>1 DEF NetInv, Matches
  <2>5. Valid(applied)' /\ Keyed(applied)' /\ Matches(applied)'
    BY <2>1, <2>3, <2>4 DEF NetInv, Matches
  <2> QED BY <2>1, <2>2, <2>5, BeginsInv
<1>14. CASE NetPowerCycle
  <2>1. incoming'.config = NoConfig /\ incoming'.step = "idle" /\ incoming' = [config |-> incoming'.config, step |-> incoming'.step]
    BY <1>14 DEF NetPowerCycle, NotUnderWay
  <2>2. applied' = saved /\ saved' = saved /\ DOMAIN devices' = {}
    BY <1>14 DEF NetPowerCycle, Empty
  <2>3. Matches(applied)'
    BY <2>2 DEF Matches, Mismatched
  <2> QED BY <2>1, <2>2, <2>3, NoConfigValid DEF NetInv, AtStep
<1>15. CASE UNCHANGED netFileVars
  BY <1>2, <1>15 DEF netFileVars, NetInv, AtStep
<1> QED BY <1>3, <1>4, <1>5, <1>6, <1>7, <1>8, <1>9, <1>10, <1>11, <1>12, <1>13, <1>14, <1>15 DEF NetworkFilesNext

\* Once the network is online its devices are those of the configuration and each reaches its
\* card, whatever was applied before, failed half way, was rolled back or is in use by workloads,
\* for any configurations and any number of applications and restarts at any step; what else is
\* left could not be deleted or was forgotten (ApplyNetworkConfiguration, cleanupStaleDevices).
THEOREM WiredAlways ==
    ASSUME \A c \in NetConfigs : LowerCase(c)
    PROVE  NetworkFilesSpec => []Wired
<1>1. NetInv => Wired
  BY DEF NetInv, Wired, AtStep, Matches
<1>2. NetworkFilesInit => NetInv
  BY NetInitInv
<1>3. NetInv /\ [NetworkFilesNext]_netFileVars => NetInv'
  BY NetStepInv
<1> QED BY <1>1, <1>2, <1>3, PTL DEF NetworkFilesSpec

-----------------------------------------------------------------------------
(* The schedule of update checks, with no window over the end of the week  *)
(* (WrapWeek is FALSE; TimeUntilActive takes such a window for active      *)
(* outside of it).                                                         *)

\* Division by a positive number.
LEMMA DivMod ==
    ASSUME NEW a \in Int, NEW m \in Nat \ {0}
    PROVE  a % m \in 0 .. m - 1 /\ a \div m \in Int /\ a = (a \div m) * m + (a % m)
OBVIOUS

\* Between a number and its negation there is one multiple of it.
LEMMA NoMultiple ==
    ASSUME NEW q \in Int, NEW m \in Nat \ {0}, q * m < m, -m < q * m
    PROVE  q = 0
<1>1. CASE q >= 1
  <2>1. q * m >= m
    BY <1>1
  <2> QED BY <2>1
<1>2. CASE q <= -1
  <2>1. (-q) * m >= m
    BY <1>2
  <2> QED BY <2>1
<1> QED BY <1>1, <1>2

\* A remainder is known from any quotient.
LEMMA ModUnique ==
    ASSUME NEW a \in Int, NEW q \in Int, NEW m \in Nat \ {0}, NEW r \in 0 .. m - 1, a = q * m + r
    PROVE  a % m = r
<1> DEFINE p == a \div m
           s == a % m
<1>1. s \in 0 .. m - 1 /\ p \in Int /\ a = p * m + s
  BY DivMod
<1>2. (q - p) * m = s - r
  BY <1>1
<1>3. q - p = 0
  BY <1>1, <1>2, NoMultiple
<1> QED BY <1>1, <1>3

\* The remainder of a number that is at most one period out of range.
LEMMA ModNear ==
    ASSUME NEW m \in Nat \ {0}, NEW a \in -m .. 2 * m - 1
    PROVE  a % m = IF a < 0 THEN a + m ELSE IF a < m THEN a ELSE a - m
<1>1. CASE a < 0
  <2>1. a = -1 * m + (a + m) /\ a + m \in 0 .. m - 1 /\ a \in Int
    BY <1>1
  <2> QED BY <1>1, <2>1, ModUnique
<1>2. CASE a \in 0 .. m - 1
  <2>1. a = 0 * m + a
    OBVIOUS
  <2> QED BY <1>2, <2>1, ModUnique
<1>3. CASE a >= m
  <2>1. a = 1 * m + (a - m) /\ a - m \in 0 .. m - 1 /\ a \in Int
    BY <1>3
  <2> QED BY <1>3, <2>1, ModUnique
<1> QED BY <1>1, <1>2, <1>3

\* Whole periods do not change a remainder.
LEMMA ModShift ==
    ASSUME NEW k \in Int, NEW m \in Nat \ {0}, NEW y \in -m .. m - 1
    PROVE  (k * m + y) % m = y % m
<1> DEFINE a == k * m + y
<1>1. CASE y >= 0
  <2>1. y \in 0 .. m - 1 /\ a \in Int /\ a = k * m + y
    BY <1>1
  <2>2. y = 0 * m + y /\ y \in Int
    OBVIOUS
  <2> HIDE DEF a
  <2>3. a % m = y
    BY <2>1, ModUnique
  <2>4. y % m = y
    BY <2>1, <2>2, ModUnique
  <2> QED BY <2>3, <2>4 DEF a
<1>2. CASE y < 0
  <2> DEFINE r == y + m
             q == k - 1
  <2>1. r \in 0 .. m - 1 /\ a \in Int /\ q \in Int /\ a = q * m + r
    BY <1>2
  <2>2. y = -1 * m + r /\ y \in Int
    OBVIOUS
  <2> HIDE DEF a, q, r
  <2>3. a % m = r
    BY <2>1, ModUnique
  <2>4. y % m = r
    BY <2>1, <2>2, ModUnique
  <2> QED BY <2>3, <2>4 DEF a
<1> QED BY <1>1, <1>2

\* A window of a configuration that may be in force.
Window(w) ==
    /\ w \in [startDay : NONE .. 6, start : 0 .. Day - 1, endDay : NONE .. 6, end : 0 .. Day - 1]
    /\ ValidWindow(w) /\ ~WrapsWeek(w)

\* A window as an interval of a day or of a week, which may go over the end of the day.
Period(w) == IF Daily(w) THEN Day ELSE Week
Begins(w) == IF Daily(w) THEN w.start ELSE w.startDay * Day + w.start
Ends(w) == IF Daily(w) THEN w.end ELSE w.endDay * Day + w.end
Position(w, t) == IF Daily(w) THEN t % Day ELSE t
Within(w, x) == IF Begins(w) <= Ends(w) THEN Begins(w) <= x /\ x <= Ends(w) ELSE Begins(w) <= x \/ x <= Ends(w)
Wait(w, x) == IF Within(w, x) THEN 0 ELSE IF x < Begins(w) THEN Begins(w) - x ELSE Begins(w) - x + Period(w)

LEMMA DayNat == Day \in Nat /\ Day > 0 /\ Week \in Nat /\ Week = 7 * Day /\ Week > 0
BY ScheduleAssumption DEF Week

\* The day of the week and the minute of the day.
LEMMA DayAndMinute ==
    ASSUME NEW t \in Time
    PROVE  /\ Weekday(t) \in 0 .. 6 /\ t % Day \in 0 .. Day - 1 /\ t \in 0 .. 7 * Day - 1
           /\ t = Weekday(t) * Day + (t % Day)
<1> DEFINE k == t \div Day
           d == t % Day
<1>1. t \in Int /\ 0 <= t /\ t < 7 * Day /\ Day \in Nat \ {0}
  BY DayNat DEF Time
<1>2. k \in Int /\ d \in 0 .. Day - 1 /\ t = k * Day + d
  BY <1>1, DivMod
<1> HIDE DEF k, d
<1>3. k < 7
  <2>1. CASE k >= 7
    <3>1. (k - 7) * Day >= 0
      BY <1>1, <1>2, <2>1
    <3>2. k * Day >= 7 * Day
      BY <1>1, <1>2, <3>1
    <3> QED BY <1>1, <1>2, <3>2
  <2> QED BY <1>2, <2>1
<1>4. k >= 0
  <2>1. CASE k <= -1
    <3>1. (-1 - k) * Day >= 0
      BY <1>1, <1>2, <2>1
    <3>2. k * Day <= -Day
      BY <1>1, <1>2, <3>1
    <3> QED BY <1>1, <1>2, <3>2
  <2> QED BY <1>2, <2>1
<1>5. k \in 0 .. 6
  BY <1>2, <1>3, <1>4
<1> QED BY <1>1, <1>2, <1>5 DEF k, d, Weekday

\* The beginnings of two days.
LEMMA DaysApart ==
    ASSUME NEW i \in 0 .. 6, NEW j \in 0 .. 6
    PROVE  /\ i * Day \in Nat /\ i * Day <= 6 * Day
           /\ i < j => i * Day + Day <= j * Day
<1>1. Day \in Nat
  BY DayNat
<1>2. i * Day \in Nat /\ (6 - i) * Day >= 0
  BY <1>1
<1>3. ASSUME i < j PROVE i * Day + Day <= j * Day
  <2>1. (j - i - 1) * Day >= 0
    BY <1>1, <1>3
  <2> QED BY <1>1, <2>1
<1> QED BY <1>1, <1>2, <1>3

\* Where a window begins and ends.
LEMMA WindowEnds ==
    ASSUME NEW w, Window(w)
    PROVE  /\ Period(w) \in Nat \ {0} /\ Begins(w) \in 0 .. Period(w) - 1 /\ Ends(w) \in 0 .. Period(w) - 1
           /\ ~Daily(w) => w.startDay \in 0 .. 6 /\ w.endDay \in 0 .. 6 /\ Begins(w) <= Ends(w)
           /\ LongEnough(w) => Begins(w) # Ends(w)
<1>0. Day \in Nat /\ Day > 0 /\ Week \in Nat /\ Week = 7 * Day
  BY DayNat
<1>1. /\ w.startDay \in NONE .. 6 /\ w.start \in 0 .. Day - 1 /\ w.endDay \in NONE .. 6 /\ w.end \in 0 .. Day - 1
      /\ w.startDay # NONE /\ w.startDay = w.endDay => w.end >= w.start
      /\ (w.startDay = NONE) = (w.endDay = NONE) /\ ~(w.startDay > w.endDay)
  BY DEF Window, ValidWindow, WrapsWeek
<1>2. CASE Daily(w)
  BY <1>0, <1>1, <1>2 DEF Daily, Period, Begins, Ends, LongEnough
<1>3. CASE ~Daily(w)
  <2>1. w.startDay \in 0 .. 6 /\ w.endDay \in 0 .. 6
    BY <1>1, <1>3 DEF Daily, NONE
  <2> DEFINE b == w.startDay * Day
             e == w.endDay * Day
  <2>2. /\ b \in Nat /\ b <= 6 * Day /\ e \in Nat /\ e <= 6 * Day
        /\ w.startDay < w.endDay => b + Day <= e
    BY <2>1, DaysApart
  <2>3. w.startDay = w.endDay => b = e
    OBVIOUS
  <2>4. Period(w) = Week /\ Begins(w) = b + w.start /\ Ends(w) = e + w.end
    BY <1>3 DEF Period, Begins, Ends
  <2> HIDE DEF b, e
  <2>5. Begins(w) <= Ends(w) /\ (LongEnough(w) => Begins(w) # Ends(w))
    <3>1. CASE w.startDay = w.endDay
      BY <1>0, <1>1, <2>1, <2>2, <2>3, <2>4, <3>1 DEF LongEnough, NONE
    <3>2. CASE w.startDay < w.endDay
      BY <1>0, <1>1, <2>1, <2>2, <2>4, <3>2
    <3> QED BY <1>1, <2>1, <3>1, <3>2
  <2> QED BY <1>0, <1>1, <1>3, <2>1, <2>2, <2>4, <2>5
<1> QED BY <1>2, <1>3

LEMMA PositionType ==
    ASSUME NEW w, Window(w), NEW t \in Time
    PROVE  Position(w, t) \in 0 .. Period(w) - 1
BY DayAndMinute, DayNat DEF Position, Period

\* Inside of a window is between its ends.
LEMMA InsideIsWithin ==
    ASSUME NEW w, Window(w), NEW t \in Time
    PROVE  Inside(w, t) <=> Within(w, Position(w, t))
<1>1. /\ Period(w) \in Nat \ {0} /\ Begins(w) \in 0 .. Period(w) - 1 /\ Ends(w) \in 0 .. Period(w) - 1
      /\ Position(w, t) \in 0 .. Period(w) - 1
  BY WindowEnds, PositionType
<1> DEFINE b == Begins(w)
           e == Ends(w)
           x == Position(w, t)
           P == Period(w)
<1>2. Inside(w, t) <=> (x - b) % P <= (e - b) % P
  <2>1. CASE Daily(w)
    <3> DEFINE k == Weekday(t)
               y == x - b
    <3>1. t = k * Day + x /\ P = Day /\ b = w.start /\ e = w.end /\ k \in Int /\ t \in Int /\ w.start \in Int
      BY <1>1, <2>1, DayAndMinute DEF Position, Period, Begins, Ends, Window
    <3>2. Inside(w, t) <=> (t - b) % Day <= (e - b) % Day
      BY <2>1, <3>1 DEF Inside
    <3>3. t - b = k * Day + y /\ y \in -Day .. Day - 1 /\ Day \in Nat \ {0}
      BY <1>1, <3>1, DayNat
    <3> HIDE DEF k, y
    <3>4. (k * Day + y) % Day = y % Day
      BY <3>1, <3>3, ModShift
    <3> QED BY <3>1, <3>2, <3>3, <3>4 DEF y
  <2>2. CASE ~Daily(w)
    BY <2>2 DEF Inside, Position, Period, Begins, Ends
  <2> QED BY <2>1, <2>2
<1>3. Within(w, x) <=> (b <= e /\ b <= x /\ x <= e) \/ (b > e /\ (b <= x \/ x <= e))
  BY <1>1 DEF Within
<1> HIDE DEF b, e, x, P
<1>4. P \in Nat \ {0} /\ b \in 0 .. P - 1 /\ e \in 0 .. P - 1 /\ x \in 0 .. P - 1
  BY <1>1 DEF b, e, x, P
<1>5. (x - b) % P = IF x < b THEN x - b + P ELSE x - b
  <2> DEFINE y == x - b
  <2>1. y \in -P .. 2 * P - 1 /\ y < P
    BY <1>4
  <2>2. y % P = IF y < 0 THEN y + P ELSE IF y < P THEN y ELSE y - P
    BY <1>4, <2>1, ModNear
  <2> QED BY <1>4, <2>1, <2>2
<1>6. (e - b) % P = IF e < b THEN e - b + P ELSE e - b
  <2> DEFINE y == e - b
  <2>1. y \in -P .. 2 * P - 1 /\ y < P
    BY <1>4
  <2>2. y % P = IF y < 0 THEN y + P ELSE IF y < P THEN y ELSE y - P
    BY <1>4, <2>1, ModNear
  <2> QED BY <1>4, <2>1, <2>2
<1>7. (x - b) % P <= (e - b) % P <=> (b <= e /\ b <= x /\ x <= e) \/ (b > e /\ (b <= x \/ x <= e))
  BY <1>4, <1>5, <1>6
<1>8. Inside(w, t) <=> Within(w, x)
  BY <1>2, <1>3, <1>7
<1> QED BY <1>8 DEF x

\* What the code computes is the time until the window begins, and 0 inside of it.
LEMMA TimeUntilIsWait ==
    ASSUME NEW w, Window(w), NEW t \in Time
    PROVE  TimeUntilActive(w, t) = Wait(w, Position(w, t))
<1>0. Day \in Nat /\ Day > 0 /\ Week \in Nat /\ Week = 7 * Day
  BY DayNat
<1>1. /\ w.startDay \in NONE .. 6 /\ w.start \in 0 .. Day - 1 /\ w.endDay \in NONE .. 6 /\ w.end \in 0 .. Day - 1
      /\ ~WrapsWeek(w) /\ ~(w.startDay > w.endDay)
  BY DEF Window, WrapsWeek
<1> DEFINE k == Weekday(t)
           d == t % Day
           a == k * Day
<1>2. k \in 0 .. 6 /\ d \in 0 .. Day - 1 /\ t \in Nat /\ t < 7 * Day /\ t = a + d /\ a \in Nat /\ a <= 6 * Day
  <2>1. k \in 0 .. 6 /\ d \in 0 .. Day - 1 /\ t \in 0 .. 7 * Day - 1 /\ t = a + d
    BY DayAndMinute
  <2> HIDE DEF k, d
  <2>2. a \in Nat /\ a <= 6 * Day
    BY <2>1, DaysApart
  <2> HIDE DEF a
  <2> QED BY <1>0, <2>1, <2>2
<1>3. CASE Daily(w)
  <2>1. /\ Position(w, t) = d /\ Begins(w) = w.start /\ Ends(w) = w.end /\ Period(w) = Day
        /\ w.endDay = -1
    BY <1>3 DEF Position, Begins, Ends, Period, Daily, NONE
  <2>2. TimeUntilActive(w, t) =
          LET offsets == DailyOffsets(w, t)
              wait == offsets[1] - t
          IN  IF wait <= 0 /\ t <= offsets[2] THEN 0 ELSE IF wait > 0 THEN wait ELSE wait + Day
    <3>1. ~(Weekday(t) <= w.endDay)
      BY <1>2, <2>1
    <3>2. t + 0 = t
      BY <1>2
    <3> QED BY <1>3, <3>1, <3>2 DEF TimeUntilActive
  <2>3. DailyOffsets(w, t) = IF w.end >= w.start THEN <<a + w.start, a + w.end>>
                             ELSE IF d < w.start THEN <<a - Day + w.start, a + w.end>>
                             ELSE <<a + w.start, a + Day + w.end>>
    BY DEF DailyOffsets
  <2> HIDE DEF a, d, k
  <2>4. CASE w.end >= w.start
    BY <1>0, <1>1, <1>2, <2>1, <2>2, <2>3, <2>4 DEF Wait, Within
  <2>5. CASE w.end < w.start /\ d < w.start
    BY <1>0, <1>1, <1>2, <2>1, <2>2, <2>3, <2>5 DEF Wait, Within
  <2>6. CASE w.end < w.start /\ d >= w.start
    BY <1>0, <1>1, <1>2, <2>1, <2>2, <2>3, <2>6 DEF Wait, Within
  <2> QED BY <1>1, <1>2, <2>4, <2>5, <2>6
<1>4. CASE ~Daily(w)
  <2> DEFINE b == w.startDay * Day + w.start
             e == w.endDay * Day + w.end
  <2>1. /\ Position(w, t) = t /\ Begins(w) = b /\ Ends(w) = e /\ Period(w) = Week
    BY <1>4 DEF Position, Begins, Ends, Period
  <2>2. /\ w.startDay \in 0 .. 6 /\ w.endDay \in 0 .. 6 /\ b \in 0 .. Week - 1 /\ e \in 0 .. Week - 1 /\ b <= e
    BY <1>4, <2>1, WindowEnds
  <2>3. WeeklyOffsets(w) = <<b, e>>
    <3>1. w.endDay + 0 = w.endDay
      BY <2>2
    <3> QED BY <1>1, <3>1 DEF WeeklyOffsets
  <2> HIDE DEF b, e
  <2>4. TimeUntilActive(w, t) =
          IF b - t <= 0 /\ t <= e THEN 0 ELSE IF b - t > 0 THEN b - t
          ELSE IF w.endDay - w.startDay > 0 THEN b - t + Week ELSE b - t + (w.endDay - w.startDay + 7) * Day
    <3>1. ~(e >= Week) /\ t + 0 = t
      BY <1>0, <1>2, <2>2
    <3>2. <<b, e>>[1] = b /\ <<b, e>>[2] = e
      OBVIOUS
    <3> HIDE DEF a, d, k
    <3> QED BY <1>4, <2>3, <3>1, <3>2 DEF TimeUntilActive
  <2>5. ~(w.endDay - w.startDay > 0) => (w.endDay - w.startDay + 7) * Day = Week
    <3>1. ~(w.endDay - w.startDay > 0) => w.endDay - w.startDay + 7 = 7
      BY <1>1, <2>2
    <3> QED BY <1>0, <3>1
  <2> HIDE DEF a, d, k
  <2> QED BY <1>0, <1>2, <2>1, <2>2, <2>4, <2>5 DEF Wait, Within
<1> QED BY <1>3, <1>4

\* The next minute of the clock.
LEMMA NextMinute ==
    ASSUME NEW t \in Time
    PROVE  (t + 1) % Week \in Time /\ (t + 1) % Week = IF t = Week - 1 THEN 0 ELSE t + 1
<1>1. Week \in Nat \ {0} /\ t \in 0 .. Week - 1
  BY DayNat DEF Time
<1> DEFINE a == t + 1
<1>2. a \in -Week .. 2 * Week - 1 /\ a >= 0
  BY <1>1
<1>3. a % Week = IF a < 0 THEN a + Week ELSE IF a < Week THEN a ELSE a - Week
  BY <1>1, <1>2, ModNear
<1> QED BY <1>1, <1>3 DEF Time

\* The next position in the period of a window.
LEMMA NextPosition ==
    ASSUME NEW w, Window(w), NEW t \in Time
    PROVE  Position(w, (t + 1) % Week) = IF Position(w, t) = Period(w) - 1 THEN 0 ELSE Position(w, t) + 1
<1>0. Day \in Nat \ {0} /\ Week = 7 * Day
  BY DayNat
<1>1. CASE ~Daily(w)
  BY <1>1, NextMinute DEF Position, Period
<1>2. CASE Daily(w)
  <2> DEFINE k == Weekday(t)
             d == t % Day
             u == (t + 1) % Week
  <2>1. k \in 0 .. 6 /\ d \in 0 .. Day - 1 /\ t = k * Day + d
    BY DayAndMinute
  <2>2. Position(w, t) = d /\ Position(w, u) = u % Day /\ Period(w) = Day
    BY <1>2 DEF Position, Period
  <2>3. u \in Time /\ u = IF t = Week - 1 THEN 0 ELSE t + 1
    BY NextMinute
  <2> HIDE DEF k, d, u
  <2>4. k < 6 => k * Day + Day <= 6 * Day
    BY <2>1, DaysApart
  <2>5. k = 6 => k * Day = 6 * Day
    OBVIOUS
  <2>6. k * Day \in Int
    BY <2>1, DaysApart
  <2>7. CASE d < Day - 1
    <3>1. t # Week - 1
      BY <1>0, <2>1, <2>4, <2>5, <2>6, <2>7
    <3>2. u = k * Day + (d + 1) /\ u \in Int /\ d + 1 \in 0 .. Day - 1 /\ k \in Int
      BY <1>0, <2>1, <2>3, <2>6, <2>7, <3>1
    <3>3. u % Day = d + 1
      BY <1>0, <3>2, ModUnique
    <3> QED BY <1>0, <2>1, <2>2, <2>7, <3>3 DEF u
  <2>8. CASE d = Day - 1 /\ k < 6
    <3>1. t # Week - 1
      BY <1>0, <2>1, <2>4, <2>6, <2>8
    <3>2. u = (k + 1) * Day + 0 /\ u \in Int /\ 0 \in 0 .. Day - 1 /\ k + 1 \in Int
      <4>1. (k + 1) * Day = k * Day + Day
        BY <1>0, <2>1
      <4> QED BY <1>0, <2>1, <2>3, <2>6, <2>8, <3>1, <4>1
    <3>3. u % Day = 0
      BY <1>0, <3>2, ModUnique
    <3> QED BY <1>0, <2>1, <2>2, <2>8, <3>3 DEF u
  <2>9. CASE d = Day - 1 /\ k = 6
    <3>1. t = Week - 1
      BY <1>0, <2>1, <2>5, <2>9
    <3>2. u = 0 * Day + 0 /\ u \in Int /\ 0 \in 0 .. Day - 1 /\ 0 \in Int
      BY <1>0, <2>3, <3>1
    <3>3. u % Day = 0
      BY <1>0, <3>2, ModUnique
    <3> QED BY <1>0, <2>1, <2>2, <2>9, <3>3 DEF u
  <2> QED BY <1>0, <2>1, <2>7, <2>8, <2>9
<1> QED BY <1>1, <1>2

\* The code's answer is 0 exactly inside of a window; else it gets less minute by minute,
\* and the window begins when it has run out.
LEMMA WaitsRight ==
    ASSUME NEW w, Window(w), NEW t \in Time
    PROVE  LET u == (t + 1) % Week
           IN  /\ TimeUntilActive(w, t) \in Nat /\ (TimeUntilActive(w, t) = 0 <=> Inside(w, t))
               /\ TimeUntilActive(w, t) > 1 => TimeUntilActive(w, u) = TimeUntilActive(w, t) - 1
               /\ TimeUntilActive(w, t) = 1 /\ LongEnough(w) => Inside(w, (u + 1) % Week)
<1> DEFINE u == (t + 1) % Week
           v == (u + 1) % Week
           x == Position(w, t)
           y == Position(w, u)
           z == Position(w, v)
           b == Begins(w)
           e == Ends(w)
           P == Period(w)
<1>1. u \in Time /\ v \in Time
  BY NextMinute
<1>2. /\ TimeUntilActive(w, t) = Wait(w, x) /\ (Inside(w, t) <=> Within(w, x))
      /\ TimeUntilActive(w, u) = Wait(w, y) /\ (Inside(w, v) <=> Within(w, z))
  BY <1>1, TimeUntilIsWait, InsideIsWithin
<1>3. y = (IF x = P - 1 THEN 0 ELSE x + 1) /\ z = (IF y = P - 1 THEN 0 ELSE y + 1)
  BY <1>1, NextPosition
<1>4. /\ P \in Nat \ {0} /\ b \in 0 .. P - 1 /\ e \in 0 .. P - 1 /\ x \in 0 .. P - 1
      /\ LongEnough(w) => b # e
  BY WindowEnds, PositionType
<1>5. \A p : /\ Within(w, p) <=> IF b <= e THEN b <= p /\ p <= e ELSE b <= p \/ p <= e
             /\ Wait(w, p) = IF Within(w, p) THEN 0 ELSE IF p < b THEN b - p ELSE b - p + P
  BY DEF Within, Wait
<1> HIDE DEF u, v, x, y, z, b, e, P
<1>6. Wait(w, x) \in Nat /\ (Wait(w, x) = 0 <=> Within(w, x))
  BY <1>4, <1>5
<1>7. Wait(w, x) > 1 => Wait(w, y) = Wait(w, x) - 1
  BY <1>3, <1>4, <1>5
<1>8. Wait(w, x) = 1 /\ LongEnough(w) => Within(w, z)
  BY <1>3, <1>4, <1>5
<1>9. /\ TimeUntilActive(w, t) \in Nat /\ (TimeUntilActive(w, t) = 0 <=> Inside(w, t))
      /\ TimeUntilActive(w, t) > 1 => TimeUntilActive(w, u) = TimeUntilActive(w, t) - 1
      /\ TimeUntilActive(w, t) = 1 /\ LongEnough(w) => Inside(w, v)
  BY <1>2, <1>6, <1>7, <1>8
<1> QED BY <1>9 DEF u, v

\* A window that the sleeping loop will not miss: it wakes up at the latest one minute after
\* the window has begun.
Awaited(w) ==
    \/ ~Inside(w, now) /\ sleep <= TimeUntilActive(w, now) + 1
    \/ sleep = 1 /\ (LongEnough(w) => Inside(w, (now + 1) % Week))

\* Every window in use began while the loop slept and is not over. A loop that is about to sleep
\* has checked since it was last skipped, or is outside of all windows; asleep, it wakes up in
\* time for the check that is due, or for every window.
ScheduleInv ==
    /\ now \in Time /\ since \in 0 .. Long /\ rest \in 0 .. Long /\ sleep \in Nat /\ at \in {"top", "due"}
    /\ schedule \in Allowed /\ entered \subseteq schedule.windows
    /\ ~missed /\ ~strayed
    /\ \A w \in entered : Inside(w, now) /\ LongEnough(w)
    /\ at = "top" \/ stale => entered = {}
    /\ at = "top" /\ sleep > 0 => stale
    /\ at = "top" => rest <= since \/ Disabled \/ (sleep = 0 /\ \A w \in schedule.windows : ~Inside(w, now))
    /\ at = "due" /\ sleep > 0 /\ ~stale => rest + sleep <= Configured + 1 \/ \A w \in schedule.windows : Awaited(w)

\* Min of numbers.
LEMMA MinIsLeast ==
    ASSUME NEW S \in SUBSET Nat, S # {}
    PROVE  Min(S) \in S /\ \A x \in S : Min(S) <= x
<1> DEFINE Less == {ss \in Nat \X Nat : ss[1] < ss[2]}
<1>1. IsWellFoundedOn(Less, Nat)
  BY NatLessThanWellFounded DEF OpToRel
<1>2. \E x \in S : \A y \in S : ~(<<y, x>> \in Less)
  <2> HIDE DEF Less
  <2> QED BY <1>1, WFMin
<1>3. \A x, y \in S : ~(<<y, x>> \in Less) => x <= y
  OBVIOUS
<1> HIDE DEF Less
<1>4. \E x \in S : \A y \in S : x <= y
  BY <1>2, <1>3
<1> QED BY <1>4 DEF Min

LEMMA MinOfTwo ==
    ASSUME NEW i \in Nat, NEW j \in Nat
    PROVE  Min({i, j}) = IF i <= j THEN i ELSE j
<1>1. Min({i, j}) \in {i, j} /\ Min({i, j}) <= i /\ Min({i, j}) <= j
  BY MinIsLeast
<1> QED BY <1>1

LEMMA AllowedSchedules ==
    ASSUME WrapWeek = FALSE, NEW c \in Allowed
    PROVE  (c.frequency = Never \/ c.frequency \in 0 .. Long - 2) /\ \A w \in c.windows : Window(w)
BY ScheduleAssumption DEF Allowed, Window

LEMMA ConfiguredType ==
    ASSUME WrapWeek = FALSE, schedule \in Allowed
    PROVE  Configured \in Nat /\ Configured <= Long - 2 /\ Long \in Nat /\ Long > 2
<1>1. Long \in Nat /\ Long > 2
  BY DayNat DEF Long
<1>2. SixHours \in 0 .. Long - 2
  BY ScheduleAssumption
<1>3. schedule.frequency = Never \/ schedule.frequency \in 0 .. Long - 2
  BY AllowedSchedules
<1> QED BY <1>1, <1>2, <1>3 DEF Configured

\* The loop sleeps no longer than the configured frequency, nor into a window.
LEMMA FrequencyLeast ==
    ASSUME WrapWeek = FALSE, schedule \in Allowed, now \in Time
    PROVE  /\ Frequency \in Nat /\ Frequency <= Configured
           /\ \A w \in schedule.windows : ~Inside(w, now) => Frequency <= TimeUntilActive(w, now)
<1> DEFINE N == {n \in {TimeUntilActive(w, now) : w \in schedule.windows} : n > 0}
<1>1. \A w \in schedule.windows : TimeUntilActive(w, now) \in Nat /\ (TimeUntilActive(w, now) = 0 <=> Inside(w, now))
  BY AllowedSchedules, WaitsRight
<1>2. Configured \in Nat
  BY ConfiguredType
<1>3. {Configured} \cup N \subseteq Nat
  BY <1>1, <1>2
<1>4. Frequency \in {Configured} \cup N /\ \A n \in {Configured} \cup N : Frequency <= n
  BY <1>3, MinIsLeast DEF Frequency
<1>5. \A w \in schedule.windows : ~Inside(w, now) => TimeUntilActive(w, now) \in N
  BY <1>1
<1> QED BY <1>3, <1>4, <1>5

LEMMA ScheduleInitInv ==
    ASSUME WrapWeek = FALSE, ScheduleInit
    PROVE  ScheduleInv
<1>1. Long \in Nat /\ Week > 0 /\ Week \in Nat
  BY DayNat DEF Long
<1>2. since \in 0 .. Long /\ rest = since /\ now \in Time
  BY <1>1 DEF ScheduleInit, Time
<1> QED BY <1>1, <1>2 DEF ScheduleInit, ScheduleInv

LEMMA SkipHourInv ==
    ASSUME WrapWeek = FALSE, ScheduleInv, SkipHour
    PROVE  ScheduleInv'
<1>1. Hour \in Nat /\ Hour > 0
  BY ScheduleAssumption
<1>2. Disabled' = Disabled /\ Configured' = Configured
  BY DEF SkipHour, Disabled, Configured
<1> QED BY <1>1, <1>2 DEF SkipHour, ScheduleInv

\* Asleep since a check that was due, or until the first window after one that was skipped.
LEMMA FallAsleepInv ==
    ASSUME WrapWeek = FALSE, ScheduleInv, FallAsleep
    PROVE  ScheduleInv'
<1>1. /\ at = "top" /\ sleep = 0 /\ ~Disabled /\ at' = "due" /\ stale' = FALSE /\ entered = {}
      /\ since \in 0 .. Long /\ rest \in 0 .. Long /\ now \in Time /\ schedule \in Allowed
      /\ rest <= since \/ \A w \in schedule.windows : ~Inside(w, now)
      /\ sleep' = IF since < Frequency THEN Frequency - since + 1 ELSE 0
      /\ UNCHANGED <<now, since, schedule, primary, asked, rest, entered, missed, strayed>>
  BY DEF FallAsleep, ScheduleInv
<1>2. /\ Frequency \in Nat /\ Frequency <= Configured /\ Configured \in Nat /\ Long \in Nat
      /\ \A w \in schedule.windows : ~Inside(w, now) => Frequency <= TimeUntilActive(w, now)
  BY <1>1, FrequencyLeast, ConfiguredType
<1>3. \A w \in schedule.windows : TimeUntilActive(w, now) \in Nat
  BY <1>1, AllowedSchedules, WaitsRight
<1>4. Configured' = Configured
  BY <1>1 DEF Configured
<1>5. sleep' \in Nat
  BY <1>1, <1>2
<1>6. sleep' > 0 => rest' + sleep' <= Configured' + 1 \/ \A w \in schedule'.windows : Awaited(w)'
  <2> SUFFICES ASSUME sleep' > 0 PROVE rest + sleep' <= Configured + 1 \/ \A w \in schedule.windows : Awaited(w)'
    BY <1>1, <1>4
  <2>1. sleep' = Frequency - since + 1
    BY <1>1
  <2>2. CASE rest <= since
    BY <1>1, <1>2, <2>1, <2>2
  <2>3. CASE \A w \in schedule.windows : ~Inside(w, now)
    <3>1. \A w \in schedule.windows : sleep' <= TimeUntilActive(w, now) + 1
      BY <1>1, <1>2, <1>3, <2>1, <2>3
    <3>2. now' = now
      BY <1>1
    <3> QED BY <2>3, <3>1, <3>2 DEF Awaited
  <2> QED BY <1>1, <2>2, <2>3
<1>7. entered' = {} /\ entered' \subseteq schedule'.windows /\ missed' = missed /\ strayed' = strayed
  BY <1>1
<1> QED BY <1>1, <1>5, <1>6, <1>7 DEF ScheduleInv

LEMMA CheckWindowsInv ==
    ASSUME WrapWeek = FALSE, ScheduleInv, CheckWindows
    PROVE  ScheduleInv'
<1>1. /\ at = "due" /\ sleep = 0 /\ since' = 0 /\ at' = "top"
      /\ since \in 0 .. Long /\ rest \in 0 .. Long /\ now \in Time /\ schedule \in Allowed
      /\ entered \subseteq schedule.windows /\ ~missed /\ ~strayed
      /\ UNCHANGED <<now, sleep, schedule, asked, stale, missed>>
      /\ \A w \in entered : Inside(w, now) /\ LongEnough(w)
  BY DEF CheckWindows, ScheduleInv
<1>2. \A w \in schedule.windows : IsActive(w, now) <=> Inside(w, now)
  BY <1>1, AllowedSchedules, WaitsRight DEF IsActive
<1>3. Long \in Nat
  BY <1>1, ConfiguredType
<1>4. CASE schedule.windows = {} \/ \E w \in schedule.windows : IsActive(w, now)
  <2>1. rest' = 0 /\ entered' = {} /\ strayed' = (strayed \/ (schedule.windows # {} /\ \A w \in schedule.windows : ~Inside(w, now)))
    BY <1>1, <1>4 DEF CheckWindows
  <2>2. ~strayed'
    BY <1>1, <1>2, <1>4, <2>1
  <2> QED BY <1>1, <1>3, <2>1, <2>2 DEF ScheduleInv
<1>5. CASE ~(schedule.windows = {} \/ \E w \in schedule.windows : IsActive(w, now))
  <2>1. UNCHANGED <<primary, rest, entered, strayed>>
    BY <1>5 DEF CheckWindows
  <2>2. \A w \in schedule.windows : ~Inside(w, now)
    BY <1>2, <1>5
  <2>3. entered' = {}
    BY <1>1, <2>1, <2>2
  <2>4. \A w \in schedule'.windows : ~Inside(w, now')
    BY <1>1, <2>2
  <2> QED BY <1>1, <1>3, <2>1, <2>3, <2>4 DEF ScheduleInv
<1> QED BY <1>4, <1>5

\* The loop is awake before a window that began while it slept has passed.
LEMMA MinuteInv ==
    ASSUME WrapWeek = FALSE, ScheduleInv, Minute
    PROVE  ScheduleInv'
<1> DEFINE left == {w \in entered : ~Inside(w, now')}
           begun == {w \in schedule.windows : ~stale /\ Inside(w, now') /\ ~Inside(w, now) /\ LongEnough(w)}
<1>1. /\ sleep > 0 /\ sleep \in Nat /\ sleep' = sleep - 1 /\ now' = (now + 1) % Week
      /\ since' = Min({since + 1, Long}) /\ rest' = Min({rest + 1, Long})
      /\ entered' = (entered \ left) \cup begun /\ missed' = (missed \/ (left # {} /\ rest' > Configured + 1))
      /\ UNCHANGED <<at, schedule, primary, asked, stale, strayed>>
  BY DEF Minute, ScheduleInv
<1>2. /\ since \in 0 .. Long /\ rest \in 0 .. Long /\ now \in Time /\ schedule \in Allowed /\ at \in {"top", "due"}
      /\ entered \subseteq schedule.windows /\ ~missed /\ ~strayed
      /\ \A w \in entered : Inside(w, now) /\ LongEnough(w)
      /\ at = "top" \/ stale => entered = {}
      /\ at = "top" => stale /\ (rest <= since \/ Disabled)
      /\ at = "due" /\ ~stale => rest + sleep <= Configured + 1 \/ \A w \in schedule.windows : Awaited(w)
  BY <1>1 DEF ScheduleInv
<1>3. Configured \in Nat /\ Configured <= Long - 2 /\ Long \in Nat /\ Configured' = Configured /\ Disabled' = Disabled
  <2>1. Configured' = Configured /\ Disabled' = Disabled
    BY <1>1 DEF Configured, Disabled
  <2> QED BY <1>2, <2>1, ConfiguredType
<1>4. /\ since' = (IF since + 1 <= Long THEN since + 1 ELSE Long) /\ rest' = IF rest + 1 <= Long THEN rest + 1 ELSE Long
      /\ since + 1 \in Nat /\ rest + 1 \in Nat
  BY <1>1, <1>2, <1>3, MinOfTwo
<1>5. now' \in Time
  BY <1>1, <1>2, NextMinute
<1>6. since' \in 0 .. Long /\ rest' \in 0 .. Long /\ sleep' \in Nat /\ (rest <= since => rest' <= since') /\ rest' <= rest + 1
  BY <1>1, <1>2, <1>3, <1>4
<1>7. ~missed'
  <2> SUFFICES ASSUME left # {}, rest' > Configured + 1 PROVE FALSE
    BY <1>1, <1>2
  <2>1. PICK w \in entered : ~Inside(w, now')
    OBVIOUS
  <2>2. at = "due" /\ ~stale /\ w \in schedule.windows /\ Inside(w, now) /\ LongEnough(w)
    BY <1>2, <2>1
  <2>3. ~(rest + sleep <= Configured + 1)
    BY <1>1, <1>2, <1>3, <1>6
  <2>4. Awaited(w)
    BY <1>2, <2>2, <2>3
  <2> QED BY <1>1, <2>1, <2>2, <2>4 DEF Awaited
<1>8. entered' \subseteq schedule'.windows /\ \A w \in entered' : Inside(w, now') /\ LongEnough(w)
  BY <1>1, <1>2
<1>9. at' = "top" \/ stale' => entered' = {}
  BY <1>1, <1>2
<1>10. at' = "due" /\ sleep' > 0 /\ ~stale' => rest' + sleep' <= Configured' + 1 \/ \A w \in schedule'.windows : Awaited(w)'
  <2> SUFFICES ASSUME at = "due", sleep' > 0, ~stale, ~(rest' + sleep' <= Configured + 1), NEW w \in schedule.windows
               PROVE  Awaited(w)'
    BY <1>1, <1>3
  <2>1. ~(rest + sleep <= Configured + 1)
    BY <1>1, <1>2, <1>3, <1>6
  <2>2. Awaited(w) /\ sleep > 1
    BY <1>1, <1>2, <2>1
  <2>3. ~Inside(w, now) /\ sleep <= TimeUntilActive(w, now) + 1
    BY <1>1, <2>2 DEF Awaited
  <2>4. /\ TimeUntilActive(w, now) \in Nat /\ TimeUntilActive(w, now) > 0
        /\ TimeUntilActive(w, now) > 1 => TimeUntilActive(w, now') = TimeUntilActive(w, now) - 1
        /\ TimeUntilActive(w, now) = 1 /\ LongEnough(w) => Inside(w, (now' + 1) % Week)
        /\ TimeUntilActive(w, now') = 0 <=> Inside(w, now')
    <3>1. Window(w)
      BY <1>2, AllowedSchedules
    <3>2. /\ TimeUntilActive(w, now) \in Nat /\ (TimeUntilActive(w, now) = 0 <=> Inside(w, now))
          /\ TimeUntilActive(w, now) > 1 => TimeUntilActive(w, now') = TimeUntilActive(w, now) - 1
          /\ TimeUntilActive(w, now) = 1 /\ LongEnough(w) => Inside(w, (now' + 1) % Week)
      BY <1>1, <1>2, <3>1, WaitsRight
    <3>3. TimeUntilActive(w, now') = 0 <=> Inside(w, now')
      BY <1>5, <3>1, WaitsRight
    <3> QED BY <2>3, <3>2, <3>3
  <2>5. CASE TimeUntilActive(w, now) > 1
    <3>1. ~Inside(w, now') /\ sleep' <= TimeUntilActive(w, now') + 1
      BY <1>1, <2>3, <2>4, <2>5
    <3> QED BY <3>1 DEF Awaited
  <2>6. CASE TimeUntilActive(w, now) = 1
    <3>1. sleep' = 1
      BY <1>1, <2>3, <2>6
    <3> QED BY <2>4, <2>6, <3>1 DEF Awaited
  <2> QED BY <2>4, <2>5, <2>6
<1>11. at' = "top" => stale' /\ (rest' <= since' \/ Disabled')
  BY <1>1, <1>2, <1>3, <1>6
<1>12. at' \in {"top", "due"} /\ schedule' \in Allowed /\ ~strayed'
  BY <1>1, <1>2
<1> QED BY <1>5, <1>6, <1>7, <1>8, <1>9, <1>10, <1>11, <1>12 DEF ScheduleInv

LEMMA ManualCheckInv ==
    ASSUME WrapWeek = FALSE, ScheduleInv, ManualCheck
    PROVE  ScheduleInv'
<1>1. /\ since' = 0 /\ rest' = 0
      /\ UNCHANGED <<now, sleep, at, schedule, stale, entered, missed, strayed>>
  BY DEF ManualCheck
<1>2. Long \in Nat /\ Configured' = Configured /\ rest \in 0 .. Long /\ sleep \in Nat /\ Configured \in Nat
  <2>1. Configured' = Configured
    BY <1>1 DEF Configured
  <2>2. rest \in 0 .. Long /\ sleep \in Nat /\ schedule \in Allowed
    BY DEF ScheduleInv
  <2> QED BY <2>1, <2>2, ConfiguredType
<1>3. rest + sleep <= Configured + 1 => rest' + sleep' <= Configured' + 1
  BY <1>1, <1>2
<1>4. \A w : Awaited(w)' <=> Awaited(w)
  BY <1>1 DEF Awaited
<1>5. at' = "due" /\ sleep' > 0 /\ ~stale' => rest' + sleep' <= Configured' + 1 \/ \A w \in schedule'.windows : Awaited(w)'
  BY <1>1, <1>3, <1>4 DEF ScheduleInv
<1>6. at' = "top" => rest' <= since'
  BY <1>1
<1> QED BY <1>1, <1>2, <1>5, <1>6 DEF ScheduleInv

LEMMA PutScheduleInv ==
    ASSUME WrapWeek = FALSE, ScheduleInv, PutSchedule
    PROVE  ScheduleInv'
<1>1. /\ schedule' \in Allowed /\ stale' = TRUE /\ rest' = 0 /\ entered' = {}
      /\ UNCHANGED <<now, since, sleep, at, primary, missed, strayed>>
  BY DEF PutSchedule
<1>2. Long \in Nat /\ since \in 0 .. Long
  BY ConfiguredType DEF ScheduleInv
<1>3. rest' \in 0 .. Long /\ rest' <= since'
  BY <1>1, <1>2
<1> QED BY <1>1, <1>3 DEF ScheduleInv

LEMMA ScheduleStepInv ==
    ASSUME WrapWeek = FALSE, ScheduleInv, [ScheduleNext]_scheduleVars
    PROVE  ScheduleInv'
<1>1. CASE UNCHANGED scheduleVars
  BY <1>1 DEF scheduleVars, ScheduleInv, Disabled, Configured, Awaited
<1> QED BY <1>1, SkipHourInv, FallAsleepInv, CheckWindowsInv, MinuteInv, ManualCheckInv, PutScheduleInv DEF ScheduleNext

\* No periodic check runs outside of the maintenance windows, and no window that the loop slept
\* into passes without the check that is due, for any frequency, any number of windows within a
\* day, over midnight or within a week, days of any length, manual checks and configurations that
\* change while the loop sleeps (Checker, TimeUntilActiveReference).
THEOREM WindowsAreHonoured ==
    ASSUME WrapWeek = FALSE
    PROVE  ScheduleSpec => []WindowsHonoured
<1>1. ScheduleInit => ScheduleInv
  BY ScheduleInitInv
<1>2. ScheduleInv /\ [ScheduleNext]_scheduleVars => ScheduleInv'
  BY ScheduleStepInv
<1>3. ScheduleInv => WindowsHonoured
  BY DEF ScheduleInv, WindowsHonoured
<1> QED BY <1>1, <1>2, <1>3, PTL DEF ScheduleSpec
=============================================================================
