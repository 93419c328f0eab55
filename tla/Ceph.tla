--------------------------------- MODULE Ceph ---------------------------------
(***************************************************************************)
(* The Ceph cluster an IncusOS host deploys as containers of its Incus     *)
(* cluster: three control servers and at most one OSD for each member.     *)
(* An action of the incus and incus-ceph applications is a job of several  *)
(* calls to Incus and to the IncusOS API of the members; any of them may   *)
(* fail, and the job ends where it is. Nothing is undone.                  *)
(*                                                                         *)
(* The OSD container of a member has the member's name here. An fsid is a  *)
(* number, 0 is none; so is the fingerprint of an image.                   *)
(***************************************************************************)
EXTENDS Integers, FiniteSets, Sequences, SequencesExt

CONSTANTS
    Hosts,       \* members of the Incus cluster, a sequence of names
    CephJobs,    \* jobs that may run at the same time
    Tags,        \* tags of the Ceph image; the first container uses DefaultTag
    DefaultTag,
    MaxImage,    \* images ever published, under any tag
    CephCalls,   \* how many jobs are ever started
    CephFaults   \* how many calls may fail

Controls == <<"control1", "control2", "control3">>
ControlSet == Range(Controls)
HostSet == Range(Hosts)
Boxes == ControlSet \cup HostSet

\* The containers of control servers and OSDs have names of their own.
ASSUME CephAssumption ==
    /\ Len(Hosts) >= 3 /\ DefaultTag \in Tags
    /\ ControlSet \cap HostSet = {}
    /\ MaxImage \in Nat \ {0} /\ CephCalls \in Nat /\ CephFaults \in Nat

VARIABLES
    project,    \* user.ceph.fsid of the project, and its ETag
    box,        \* the containers
    volume,     \* containers that have a data volume
    localImage, \* image in the Incus cluster under each tag
    remoteImage,\* image in the registry under each tag
    service,    \* the fsid in the Ceph service of each member
    missed,     \* history: members with a service that an initialisation could not ask about
                \* it, until theirs is set
    crypted,    \* members whose drive for the OSD is encrypted
    job,        \* the jobs
    cephCalls,  \* jobs started so far
    faults      \* calls that may still fail

images == <<localImage, remoteImage>>
cephVars == <<project, box, volume, images, service, missed, crypted, job, cephCalls, faults>>

NoBox == [exists |-> FALSE, run |-> FALSE, ready |-> FALSE, fsid |-> 0, tag |-> DefaultTag, image |-> 0]
NoJob == [at |-> "idle", todo |-> <<>>, etag |-> 0, fsid |-> 0, tag |-> DefaultTag, next |-> "idle"]
Containers == {b \in Boxes : box[b].exists}
\* getOSDHosts: members with an OSD container, whether or not its setup was finished.
OSDHosts == Containers \cap HostSet

Doing(j, step) == job[j].at = step
Step(j, rec) == job' = [job EXCEPT ![j] = rec]
NextStep(j, step) == Step(j, [job[j] EXCEPT !.at = step])
Finish(j) == Step(j, NoJob)
Launch(j, rec) == Doing(j, "idle") /\ cephCalls < CephCalls /\ cephCalls' = cephCalls + 1 /\ Step(j, rec)
---------------------------------------------------------------------------
(* InitializeCephCluster *)

\* Mutant: a Ceph service that is configured is no obstacle.
InitChecksContainersOnly(silent) == Containers \cap ControlSet \subseteq silent
\* No member has its Ceph service configured and no control container exists. What does not
\* answer counts as if it did not.
InitChecks(silent) ==
    /\ \A h \in HostSet \ silent : service[h] = 0
    /\ Containers \cap ControlSet \subseteq silent

\* The project is read first, with its ETag.
InitializeCephCluster(j) ==
    /\ \E silent \in SUBSET Boxes :
          /\ Cardinality(silent) <= faults /\ faults' = faults - Cardinality(silent)
          /\ InitChecks(silent)
          /\ missed' = missed \cup {h \in silent \cap HostSet : service[h] # 0}
    /\ Launch(j, [NoJob EXCEPT !.at = "project", !.etag = project.etag])
    /\ UNCHANGED <<project, box, volume, images, service, crypted>>

\* The application is installed on every member, then the project gets a new fsid, unless
\* it was changed meanwhile.
InitProject(j) ==
    /\ Doing(j, "project")
    /\ IF project.etag = job[j].etag
       THEN /\ project' = [fsid |-> project.etag + 1, etag |-> project.etag + 1]
            /\ Step(j, [NoJob EXCEPT !.at = "volume", !.todo = Controls, !.fsid = project.etag + 1, !.next = "service"])
       ELSE Finish(j) /\ UNCHANGED project
    /\ UNCHANGED <<box, volume, images, service, missed, crypted, cephCalls, faults>>

\* The service of one member after the other, with the fsid the job chose; the addresses of the
\* control servers are asked for first.
InitService(j) ==
    LET h == Head(job[j].todo)
    IN  /\ Doing(j, "service")
        /\ IF job[j].todo = <<>> \/ (job[j].todo = Hosts /\ \E c \in ControlSet : ~box[c].run)
           THEN Finish(j) /\ UNCHANGED <<service, missed>>
           ELSE /\ service' = [service EXCEPT ![h] = job[j].fsid] /\ missed' = missed \ {h}
                /\ Step(j, [job[j] EXCEPT !.todo = Tail(@)])
        /\ UNCHANGED <<project, box, volume, images, crypted, cephCalls, faults>>
---------------------------------------------------------------------------
(* deployCephContainer, for each container of the queue *)

DeployVolume(j) ==
    LET b == Head(job[j].todo)
    IN  /\ Doing(j, "volume") /\ job[j].todo # <<>>
        /\ IF b \in volume
           THEN Finish(j) /\ UNCHANGED volume
           ELSE volume' = volume \cup {b} /\ NextStep(j, "create")
        /\ UNCHANGED <<project, box, images, service, missed, crypted, cephCalls, faults>>

\* fetchOCIImage: the image under the tag, downloaded only when there is none.
FetchOCIImage(images0, tag) ==
    IF images0[tag] = 0 THEN [images0 EXCEPT ![tag] = remoteImage[tag]] ELSE images0

\* The container is created and started with the image.
DeployCreate(j) ==
    LET b == Head(job[j].todo)
    IN  /\ Doing(j, "create")
        /\ localImage' = FetchOCIImage(localImage, DefaultTag)
        /\ IF box[b].exists
           THEN Finish(j) /\ UNCHANGED box
           ELSE /\ box' = [box EXCEPT ![b] = [NoBox EXCEPT !.exists = TRUE, !.run = TRUE, !.image = localImage'[DefaultTag]]]
                /\ NextStep(j, "script")
        /\ UNCHANGED <<project, volume, remoteImage, service, missed, crypted, cephCalls, faults>>

\* getCephClusterConfigFiles: the fsid in the configuration files of the first control
\* server, which are only there once it was set up and while it runs.
ClusterFsid ==
    {box[c].fsid : c \in {d \in {Controls[1]} : box[d].run /\ box[d].ready}}

\* The first control server takes the fsid of the project, the others and the OSDs that of
\* the configuration files.
DeployScript(j) ==
    LET b == Head(job[j].todo)
        fsids == IF b = Controls[1] THEN {project.fsid} ELSE ClusterFsid
        rest == Tail(job[j].todo)
    IN  /\ Doing(j, "script")
        /\ IF fsids = {}
           THEN Finish(j) /\ UNCHANGED box
           ELSE /\ \E fsid \in fsids : box' = [box EXCEPT ![b].ready = TRUE, ![b].fsid = fsid]
                /\ Step(j, IF rest # <<>> THEN [job[j] EXCEPT !.at = "volume", !.todo = rest]
                           ELSE IF job[j].next = "service" THEN [job[j] EXCEPT !.at = "service", !.todo = Hosts]
                           ELSE NoJob)
        /\ UNCHANGED <<project, volume, images, service, missed, crypted, cephCalls, faults>>
---------------------------------------------------------------------------
(* OSDs *)

\* Mutant: the drive is used as it is.
AddOSDPlain(j, h) ==
    /\ project.fsid # 0 /\ h \notin OSDHosts
    /\ Launch(j, [NoJob EXCEPT !.at = "volume", !.todo = <<h>>])
    /\ UNCHANGED <<project, box, volume, images, service, missed, crypted, faults>>

\* An action of the incus-ceph application, which the initialisation installs.
AddOSD(j, h) ==
    /\ project.fsid # 0 /\ h \notin OSDHosts
    /\ Launch(j, [NoJob EXCEPT !.at = "encrypt", !.todo = <<h>>])
    /\ UNCHANGED <<project, box, volume, images, service, missed, crypted, faults>>

\* ensureDeviceIsEncrypted: the drive of the request is encrypted unless it is already; the
\* steps of the encryption are those of Storage.
EnsureDeviceIsEncrypted(j) ==
    /\ Doing(j, "encrypt")
    /\ crypted' = crypted \cup {Head(job[j].todo)}
    /\ NextStep(j, "volume")
    /\ UNCHANGED <<project, box, volume, images, service, missed, cephCalls, faults>>

RemoveOSD(j, h) ==
    /\ h \in OSDHosts /\ Cardinality(OSDHosts) > 3
    /\ Launch(j, [NoJob EXCEPT !.at = "stopOSD", !.todo = <<h>>])
    /\ UNCHANGED <<project, box, volume, images, service, missed, crypted, faults>>

StopOSD(j) ==
    /\ Doing(j, "stopOSD")
    /\ IF box[Head(job[j].todo)].run
       THEN box' = [box EXCEPT ![Head(job[j].todo)].run = FALSE] /\ NextStep(j, "deleteOSD")
       ELSE Finish(j) /\ UNCHANGED box
    /\ UNCHANGED <<project, volume, images, service, missed, crypted, cephCalls, faults>>

\* The data volume depends on the container and goes with it.
DeleteOSD(j) ==
    /\ Doing(j, "deleteOSD")
    /\ box' = [box EXCEPT ![Head(job[j].todo)] = NoBox]
    /\ volume' = volume \ {Head(job[j].todo)}
    /\ Finish(j)
    /\ UNCHANGED <<project, images, service, missed, crypted, cephCalls, faults>>
---------------------------------------------------------------------------
(* RefreshCephOCIImages: the control servers, then the OSDs *)

RefreshCephOCIImages(j, tags) ==
    /\ ControlSet \subseteq Containers
    /\ Launch(j, [NoJob EXCEPT !.at = "refresh", !.tag = tags,
                               !.todo = Controls \o SelectSeq(Hosts, LAMBDA h : h \in OSDHosts)])
    /\ UNCHANGED <<project, box, volume, images, service, missed, crypted, faults>>

\* The tag of the request, or the container's own.
RefreshTag(j, b) == IF job[j].tag = "own" THEN box[b].tag ELSE job[j].tag

\* refreshCephOCIImage: a container is refreshed if the image is not the latest, which the
\* refresh of an earlier container may have changed, or if its tag is another.
RefreshCheck(j) ==
    LET b == Head(job[j].todo)
        tag == RefreshTag(j, b)
        stale == localImage[tag] # remoteImage[tag]
    IN  /\ Doing(j, "refresh")
        /\ IF job[j].todo = <<>>
           THEN Step(j, [NoJob EXCEPT !.at = "refreshed", !.tag = job[j].tag]) /\ UNCHANGED localImage
           ELSE /\ localImage' = IF stale THEN [localImage EXCEPT ![tag] = remoteImage[tag]] ELSE localImage
                /\ IF stale \/ box[b].tag # tag
                   THEN NextStep(j, "stopBox")
                   ELSE Step(j, [job[j] EXCEPT !.todo = Tail(@)])
        /\ UNCHANGED <<project, box, volume, remoteImage, service, missed, crypted, cephCalls, faults>>

RefreshStop(j) ==
    LET b == Head(job[j].todo)
    IN  /\ Doing(j, "stopBox")
        /\ IF box[b].run
           THEN box' = [box EXCEPT ![b].run = FALSE] /\ NextStep(j, "rebuild")
           ELSE Finish(j) /\ UNCHANGED box
        /\ UNCHANGED <<project, volume, images, service, missed, crypted, cephCalls, faults>>

RefreshRebuild(j) ==
    LET b == Head(job[j].todo)
        tag == RefreshTag(j, b)
    IN  /\ Doing(j, "rebuild")
        /\ box' = [box EXCEPT ![b].image = localImage[tag], ![b].tag = tag]
        /\ Step(j, [job[j] EXCEPT !.at = "startBox"])
        /\ UNCHANGED <<project, volume, images, service, missed, crypted, cephCalls, faults>>

\* Started again, and its services enabled.
RefreshStart(j) ==
    LET b == Head(job[j].todo)
    IN  /\ Doing(j, "startBox")
        /\ box' = [box EXCEPT ![b].run = TRUE]
        /\ Step(j, [job[j] EXCEPT !.at = "refresh", !.todo = Tail(@)])
        /\ UNCHANGED <<project, volume, images, service, missed, crypted, cephCalls, faults>>

Refreshed(j) ==
    /\ Doing(j, "refreshed")
    /\ Finish(j)
    /\ UNCHANGED <<project, box, volume, images, service, missed, crypted, cephCalls, faults>>
---------------------------------------------------------------------------
(* The rest of the world *)

CallFails(j) ==
    /\ faults > 0 /\ job[j].at \notin {"idle", "refreshed"}
    /\ faults' = faults - 1
    /\ Finish(j)
    /\ UNCHANGED <<project, box, volume, images, service, missed, crypted, cephCalls>>

Publish(tag) ==
    /\ \E image \in 1 .. MaxImage :
          /\ \A t \in Tags : remoteImage[t] < image
          /\ remoteImage' = [remoteImage EXCEPT ![tag] = image]
    /\ UNCHANGED <<project, box, volume, localImage, service, missed, crypted, job, cephCalls, faults>>

\* After a failed deployment a user removes the control servers to start over.
CleanUp ==
    /\ faults < CephFaults /\ OSDHosts = {} /\ volume # {}
    /\ \A j \in CephJobs : Doing(j, "idle")
    /\ box' = [b \in Boxes |-> NoBox] /\ volume' = {}
    /\ UNCHANGED <<project, images, service, missed, crypted, job, cephCalls, faults>>

\* No cluster, or one that was deployed earlier with an OSD on every member.
CephInit ==
    \E deployed \in BOOLEAN :
        LET fsid == IF deployed THEN 1 ELSE 0
        IN  /\ project = [fsid |-> fsid, etag |-> fsid]
            /\ box = [b \in Boxes |-> IF deployed
                                     THEN [NoBox EXCEPT !.exists = TRUE, !.run = TRUE, !.ready = TRUE, !.fsid = 1, !.image = 1]
                                     ELSE NoBox]
            /\ volume = IF deployed THEN Boxes ELSE {}
            /\ crypted = IF deployed THEN HostSet ELSE {}
            /\ service = [h \in HostSet |-> fsid] /\ missed = {}
            /\ localImage = [t \in Tags |-> IF deployed /\ t = DefaultTag THEN 1 ELSE 0]
            /\ remoteImage = [t \in Tags |-> 1]
            /\ job = [j \in CephJobs |-> NoJob]
            /\ cephCalls = 0 /\ faults = CephFaults

CephNext ==
    \/ \E j \in CephJobs :
          \/ InitializeCephCluster(j) \/ InitProject(j) \/ InitService(j)
          \/ DeployVolume(j) \/ DeployCreate(j) \/ DeployScript(j)
          \/ \E h \in HostSet : AddOSD(j, h) \/ RemoveOSD(j, h)
          \/ EnsureDeviceIsEncrypted(j) \/ StopOSD(j) \/ DeleteOSD(j)
          \/ \E t \in Tags \cup {"own"} : RefreshCephOCIImages(j, t)
          \/ RefreshCheck(j) \/ RefreshStop(j) \/ RefreshRebuild(j) \/ RefreshStart(j) \/ Refreshed(j)
          \/ CallFails(j)
    \/ CleanUp \/ \E t \in Tags : Publish(t)

CephSpec == CephInit /\ [][CephNext]_cephVars
---------------------------------------------------------------------------
(* Properties *)

CephTypeOK ==
    /\ project \in [fsid : Nat, etag : Nat] /\ volume \subseteq Boxes
    /\ \A b \in Boxes : box[b].image \in 0 .. MaxImage /\ box[b].tag \in Tags /\ (~box[b].exists => box[b] = NoBox)
    /\ localImage \in [Tags -> 0 .. MaxImage] /\ remoteImage \in [Tags -> 1 .. MaxImage]
    /\ service \in [HostSet -> Nat] /\ missed \subseteq HostSet /\ crypted \subseteq HostSet /\ OSDHosts \subseteq crypted /\ faults \in 0 .. CephFaults

\* One cluster: whatever deployment failed and was started over, the members' Ceph services
\* and the containers that were set up all carry the same fsid. The exception is a member with
\* a service that did not answer when the last initialisation checked it: it keeps another
\* fsid until that initialisation has come to it.
OneCluster ==
    \A h \in HostSet \ missed : service[h] # 0 =>
        /\ \A g \in HostSet \ missed : service[g] # 0 => service[g] = service[h]
        /\ \A b \in Containers : box[b].ready => box[b].fsid = service[h]

\* A refresh that succeeds has updated the containers: every one runs the image its tag has
\* in the Incus cluster.
AllRefreshed ==
    \A j \in CephJobs : Doing(j, "refreshed") =>
        \A b \in Containers : box[b].image = localImage[box[b].tag]
=============================================================================
