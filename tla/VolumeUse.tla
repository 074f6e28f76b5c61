----------------------------- MODULE VolumeUse -----------------------------
(***************************************************************************)
(* The supervisor binary on its way into a sandbox, against clean-up.      *)
(* CreateSandbox resolves the supervisor image to a digest, extracts its   *)
(* binary into a cache on the host, provisions an LXD volume that holds    *)
(* it, and creates an instance that mounts the volume.  collect_garbage    *)
(* removes volumes and cached binaries of other digests.  The volume_use   *)
(* RwLock is to keep the two apart.                                        *)
(*                                                                         *)
(* A volume, a cache entry and a supervisor release are their digest.  One *)
(* storage pool; the DHCP client's volume, provisioned in the same way     *)
(* under the same lock, the sandbox image and stale scratch directories    *)
(* are left out.                                                           *)
(***************************************************************************)
EXTENDS Naturals, FiniteSets

CONSTANTS
    Tasks,          \* CreateSandbox RPCs
    Gc,             \* the clean-up task
    Digests,        \* supervisor releases
    NoDigest,
    NoActor,        \* the holder of a free lock
    MaxReleases,    \* bound: how often the supervisor image is re-tagged
    MaxCollections  \* bound: how often clean-up runs

ASSUME VolumeAssumption ==
    /\ Gc \notin Tasks /\ NoActor \notin Tasks \cup {Gc}
    /\ NoDigest \notin Digests
    /\ MaxReleases \in Nat /\ MaxCollections \in Nat

Actors == Tasks \cup {Gc}

\* Both a create and clean-up resolve the supervisor ...
Resolving == {"resolve", "extract_lock", "lookup", "extract"}
\* ... which a create has done here, with the binary still to be read, ...
Resolved == {"image", "read_lock", "volume_lock", "read_binary"}
\* ... and needs no longer here.
Provisioning == {"probe", "upload", "uploaded", "reprobe", "shift"}
Creating == {"instance", "instance_wait"}
Collecting == {"write_lock", "list", "delete", "host_list", "host"}
\* Where a create holds volume_use shared.
Sharing == {"volume_lock", "read_binary"} \cup Provisioning \cup Creating
Labels == {"idle", "ok", "error"} \cup Resolving \cup Resolved \cup Provisioning \cup Creating
              \cup Collecting

VARIABLES
    latest,      \* the digest that the supervisor image resolves to
    releases,    \* number of times it changed
    cache,       \* digests whose binary is on the host
    volumes,     \* digests that have a volume
    shifted,     \* volumes that unprivileged containers can read
    mounted,     \* task -> the volume its instance mounts
    deleting,    \* deletions LXD still works on, which clean-up has given up on
    torn,        \* history: volumes such a deletion took, not provisioned since
    pc,          \* actor -> where it is
    digest,      \* actor -> the digest it resolved
    job,         \* task -> state of the LXD operation it waits for
    late,        \* <<kind, task, digest>>: operations nobody waits for any more
    extracting,  \* digest -> the holder of its supervisor_extract_locks entry
    provisioner, \* digest -> the holder of its supervisor_volume_locks entry
    readers,     \* tasks that hold volume_use shared
    doomed,      \* what clean-up has listed and not yet removed
    collections  \* number of times clean-up ran

lxd == <<volumes, shifted, mounted, deleting, torn>>
host == <<latest, releases, cache>>
vars == <<latest, releases, cache, volumes, shifted, mounted, deleting, torn, pc, digest,
          job, late, extracting, provisioner, readers, doomed, collections>>

(* Only clean-up collects, and a create holds volume_use just where the    *)
(* code has its read guard in scope.                                       *)
TypeOK ==
    /\ latest \in Digests /\ releases \in 0..MaxReleases
    /\ cache \subseteq Digests /\ volumes \subseteq Digests /\ shifted \subseteq volumes
    /\ mounted \in [Tasks -> Digests \cup {NoDigest}]
    /\ deleting \subseteq Digests /\ torn \subseteq Digests
    /\ pc \in [Actors -> Labels]
    /\ \A t \in Tasks : pc[t] \notin Collecting
    /\ readers = {t \in Tasks : pc[t] \in Sharing}
    /\ digest \in [Actors -> Digests \cup {NoDigest}]
    /\ job \in [Tasks -> {"none", "pending", "ok", "failed"}]
    /\ late \subseteq {"volume", "instance"} \X Tasks \X Digests
    /\ extracting \in [Digests -> Actors \cup {NoActor}]
    /\ provisioner \in [Digests -> Tasks \cup {NoActor}]
    /\ doomed \subseteq Digests
    /\ collections \in 0..MaxCollections

Init ==
    /\ latest \in Digests /\ releases = 0
    /\ cache = {} /\ volumes = {} /\ shifted = {}
    /\ mounted = [t \in Tasks |-> NoDigest]
    /\ deleting = {} /\ torn = {}
    /\ pc = [a \in Actors |-> "idle"]
    /\ digest = [a \in Actors |-> NoDigest]
    /\ job = [t \in Tasks |-> "none"]
    /\ late = {}
    /\ extracting = [d \in Digests |-> NoActor]
    /\ provisioner = [d \in Digests |-> NoActor]
    /\ readers = {}
    /\ doomed = {}
    /\ collections = 0

-----------------------------------------------------------------------------
(* The world: a new supervisor is released; LXD works on operations and    *)
(* deletes sandboxes.                                                      *)

Release ==
    /\ releases < MaxReleases
    /\ releases' = releases + 1
    /\ \E d \in Digests \ {latest} : latest' = d
    /\ UNCHANGED <<cache, lxd, pc, digest, job, late, extracting, provisioner, readers, doomed,
                   collections>>

(* LXD creates a volume unless it is there, and an instance if what it     *)
(* mounts is there.                                                        *)
Perform(kind, t, d) ==
    /\ IF kind = "volume"
       THEN d \notin volumes /\ volumes' = volumes \cup {d} /\ UNCHANGED mounted
       ELSE d \in volumes /\ mounted' = [mounted EXCEPT ![t] = d] /\ UNCHANGED volumes
    /\ UNCHANGED <<shifted, deleting, torn>>

KindOfJob(t) == IF pc[t] = "uploaded" THEN "volume" ELSE "instance"

JobEnds(t) ==
    /\ job[t] = "pending"
    /\ \/ Perform(KindOfJob(t), t, digest[t]) /\ job' = [job EXCEPT ![t] = "ok"]
       \/ job' = [job EXCEPT ![t] = "failed"] /\ UNCHANGED lxd
    /\ UNCHANGED <<host, pc, digest, late, extracting, provisioner, readers, doomed, collections>>

LateJobEnds(j) ==
    /\ late' = late \ {j}
    /\ Perform(j[1], j[2], j[3]) \/ UNCHANGED lxd
    /\ UNCHANGED <<host, pc, digest, job, extracting, provisioner, readers, doomed, collections>>

DeleteSandbox(t) ==
    /\ mounted[t] # NoDigest
    /\ mounted' = [mounted EXCEPT ![t] = NoDigest]
    /\ UNCHANGED <<host, volumes, shifted, deleting, torn, pc, digest, job, late, extracting,
                   provisioner, readers, doomed, collections>>

InUse(d) == \E t \in Tasks : mounted[t] = d

(* LXD comes to a deletion whose reply was lost or whose wait failed; it   *)
(* refuses if the volume is in use by then.                                *)
LateDeletion(d) ==
    /\ deleting' = deleting \ {d}
    /\ \/ /\ ~ InUse(d)
          /\ volumes' = volumes \ {d} /\ shifted' = shifted \ {d}
          /\ torn' = torn \cup {d}
       \/ UNCHANGED <<volumes, shifted, torn>>
    /\ UNCHANGED <<host, mounted, pc, digest, job, late, extracting, provisioner, readers, doomed,
                   collections>>

-----------------------------------------------------------------------------
Goto(a, label) == pc' = [pc EXCEPT ![a] = label]

(* What dropping an actor's guards does to a table of mutexes. *)
Dropped(locks, a) == [d \in Digests |-> IF locks[d] = a THEN NoActor ELSE locks[d]]

(* resolve_supervisor, with ImageCache::extract_supervisor_binary: resolve *)
(* the digest, lock it, and look for its binary.                           *)
ResolveDigest(a) ==
    /\ pc[a] = "resolve"
    /\ digest' = [digest EXCEPT ![a] = latest]
    /\ Goto(a, "extract_lock")
    /\ UNCHANGED <<host, lxd, job, late, extracting, provisioner, readers, doomed, collections>>

ExtractLock(a) ==
    /\ pc[a] = "extract_lock"
    /\ extracting[digest[a]] = NoActor
    /\ extracting' = [extracting EXCEPT ![digest[a]] = a]
    /\ Goto(a, "lookup")
    /\ UNCHANGED <<host, lxd, digest, job, late, provisioner, readers, doomed, collections>>

AfterResolving(a) == IF a = Gc THEN "write_lock" ELSE "image"

(* A miss resolves the digest once more, which may be another by now. *)
Lookup(a) ==
    /\ pc[a] = "lookup"
    /\ IF digest[a] \in cache
       THEN /\ Goto(a, AfterResolving(a))
            /\ extracting' = Dropped(extracting, a)
            /\ UNCHANGED digest
       ELSE /\ Goto(a, "extract")
            /\ digest' = [digest EXCEPT ![a] = latest]
            /\ UNCHANGED extracting
    /\ UNCHANGED <<host, lxd, job, late, provisioner, readers, doomed, collections>>

(* The importer's extract_supervisor_binary commits the binary by renaming *)
(* it, or finds that somebody else has.                                    *)
Extract(a) ==
    /\ pc[a] = "extract"
    /\ cache' = cache \cup {digest[a]}
    /\ extracting' = Dropped(extracting, a)
    /\ Goto(a, AfterResolving(a))
    /\ UNCHANGED <<latest, releases, lxd, digest, job, late, provisioner, readers, doomed, collections>>

-----------------------------------------------------------------------------
(* create_sandbox, until its instance exists *)

CreateSandbox(t) ==
    /\ pc[t] = "idle"
    /\ Goto(t, "resolve")
    /\ UNCHANGED <<host, lxd, digest, job, late, extracting, provisioner, readers, doomed, collections>>

(* resolve_alias: may import an image for minutes. *)
ResolveImage(t) ==
    /\ pc[t] = "image"
    /\ Goto(t, "read_lock")
    /\ UNCHANGED <<host, lxd, digest, job, late, extracting, provisioner, readers, doomed, collections>>

(* volume_use.read(): the lock is fair, so a waiting writer goes first. *)
ReadLock(t) ==
    /\ pc[t] = "read_lock"
    /\ pc[Gc] \notin {"write_lock", "list", "delete"}
    /\ readers' = readers \cup {t}
    /\ Goto(t, "volume_lock")
    /\ UNCHANGED <<host, lxd, digest, job, late, extracting, provisioner, doomed, collections>>

(* Mutant: provisioning takes volume_use a second time. *)
VolumeLockSharesAgain(t) ==
    /\ pc[t] = "volume_lock"
    /\ provisioner[digest[t]] = NoActor
    /\ pc[Gc] \notin {"write_lock", "list", "delete"}
    /\ provisioner' = [provisioner EXCEPT ![digest[t]] = t]
    /\ Goto(t, "read_binary")
    /\ UNCHANGED <<host, lxd, digest, job, late, extracting, readers, doomed, collections>>

(* The volume's own lock, from supervisor_volume_locks. *)
VolumeLock(t) ==
    /\ pc[t] = "volume_lock"
    /\ provisioner[digest[t]] = NoActor
    /\ provisioner' = [provisioner EXCEPT ![digest[t]] = t]
    /\ Goto(t, "read_binary")
    /\ UNCHANGED <<host, lxd, digest, job, late, extracting, readers, doomed, collections>>

(* ensure_supervisor_volume opens the cached binary first. *)
ReadBinary(t) ==
    /\ pc[t] = "read_binary"
    /\ digest[t] \in cache
    /\ Goto(t, "probe")
    /\ UNCHANGED <<host, lxd, digest, job, late, extracting, provisioner, readers, doomed, collections>>

(* ensure_single_file_volume: a volume that is there, now or after a       *)
(* creation that failed, is good enough.                                   *)
Probe(t) ==
    /\ \/ pc[t] = "probe" /\ Goto(t, IF digest[t] \in volumes THEN "shift" ELSE "upload")
       \/ pc[t] = "reprobe" /\ digest[t] \in volumes /\ Goto(t, "shift")
    /\ UNCHANGED <<host, lxd, digest, job, late, extracting, provisioner, readers, doomed, collections>>

Upload(t) ==
    /\ pc[t] = "upload"
    /\ \/ job' = [job EXCEPT ![t] = "pending"] /\ Goto(t, "uploaded")
       \/ Goto(t, "reprobe") /\ UNCHANGED job
    /\ UNCHANGED <<host, lxd, digest, late, extracting, provisioner, readers, doomed, collections>>

AwaitUpload(t) ==
    /\ pc[t] = "uploaded"
    /\ job[t] \in {"ok", "failed"}
    /\ job' = [job EXCEPT ![t] = "none"]
    /\ Goto(t, IF job[t] = "ok" THEN "shift" ELSE "reprobe")
    /\ UNCHANGED <<host, lxd, digest, late, extracting, provisioner, readers, doomed, collections>>

(* ensure_storage_pool_volume_shifted, and the end of the volume's guard. *)
Shift(t) ==
    /\ pc[t] = "shift"
    /\ digest[t] \in volumes
    /\ shifted' = shifted \cup {digest[t]}
    /\ torn' = torn \ {digest[t]}
    /\ provisioner' = Dropped(provisioner, t)
    /\ Goto(t, "instance")
    /\ UNCHANGED <<host, volumes, mounted, deleting, digest, job, late, extracting, readers, doomed,
                   collections>>

CreateInstance(t) ==
    /\ pc[t] = "instance"
    /\ job' = [job EXCEPT ![t] = "pending"]
    /\ Goto(t, "instance_wait")
    /\ UNCHANGED <<host, lxd, digest, late, extracting, provisioner, readers, doomed, collections>>

(* Mutant: the read guard outlives the instance's creation. *)
KeepSharing(t) ==
    /\ pc[t] = "instance_wait"
    /\ job[t] \in {"ok", "failed"}
    /\ job' = [job EXCEPT ![t] = "none"]
    /\ Goto(t, IF job[t] = "ok" THEN "ok" ELSE "error")
    /\ UNCHANGED <<host, lxd, digest, late, extracting, provisioner, readers, doomed, collections>>

AwaitInstance(t) ==
    /\ pc[t] = "instance_wait"
    /\ job[t] \in {"ok", "failed"}
    /\ job' = [job EXCEPT ![t] = "none"]
    /\ readers' = readers \ {t}
    /\ Goto(t, IF job[t] = "ok" THEN "ok" ELSE "error")
    /\ UNCHANGED <<host, lxd, digest, late, extracting, provisioner, doomed, collections>>

(* An error at any await, the instance's timeout, or a caller that goes    *)
(* away: every guard is dropped, an operation LXD has accepted goes on.    *)
Fail(t) ==
    /\ pc[t] \notin {"idle", "ok", "error"}
    /\ Goto(t, "error")
    /\ late' = IF job[t] = "pending" THEN late \cup {<<KindOfJob(t), t, digest[t]>>} ELSE late
    /\ job' = [job EXCEPT ![t] = "none"]
    /\ readers' = readers \ {t}
    /\ extracting' = Dropped(extracting, t)
    /\ provisioner' = Dropped(provisioner, t)
    /\ UNCHANGED <<host, lxd, digest, doomed, collections>>

-----------------------------------------------------------------------------
(* collect_garbage *)

Collect ==
    /\ pc[Gc] = "idle"
    /\ collections < MaxCollections
    /\ collections' = collections + 1
    /\ Goto(Gc, "resolve")
    /\ UNCHANGED <<host, lxd, digest, job, late, extracting, provisioner, readers, doomed>>

(* The supervisor cannot be resolved: its volumes and binaries are kept. *)
ResolveFails ==
    /\ pc[Gc] \in Resolving
    /\ digest' = [digest EXCEPT ![Gc] = NoDigest]
    /\ extracting' = Dropped(extracting, Gc)
    /\ Goto(Gc, "write_lock")
    /\ UNCHANGED <<host, lxd, job, late, provisioner, readers, doomed, collections>>

(* Mutant: clean-up does not wait for the creates under way. *)
WriteLockAtOnce ==
    /\ pc[Gc] = "write_lock"
    /\ Goto(Gc, "list")
    /\ UNCHANGED <<host, lxd, digest, job, late, extracting, provisioner, readers, doomed, collections>>

WriteLock ==
    /\ pc[Gc] = "write_lock"
    /\ readers = {}
    /\ Goto(Gc, "list")
    /\ UNCHANGED <<host, lxd, digest, job, late, extracting, provisioner, readers, doomed, collections>>

(* is_unused_aux_volume; without the current digest no volume is listed. *)
ListVolumes ==
    /\ pc[Gc] = "list"
    /\ doomed' = IF digest[Gc] = NoDigest THEN {}
                 ELSE {d \in volumes : ~ InUse(d) /\ d # digest[Gc]}
    /\ Goto(Gc, "delete")
    /\ UNCHANGED <<host, lxd, digest, job, late, extracting, provisioner, readers, collections>>

(* delete_custom_volume: LXD deletes the volume, refuses because it is in  *)
(* use again, or fails; or the reply or the wait fails and LXD goes on.    *)
(* The next collection tries again.  Then the write guard is dropped.      *)
DeleteVolume ==
    /\ pc[Gc] = "delete"
    /\ \/ \E d \in doomed :
             /\ doomed' = doomed \ {d}
             /\ \/ /\ ~ InUse(d)
                   /\ volumes' = volumes \ {d} /\ shifted' = shifted \ {d}
                   /\ UNCHANGED deleting
                \/ deleting' \in {deleting, deleting \cup {d}} /\ UNCHANGED <<volumes, shifted>>
             /\ UNCHANGED pc
       \/ doomed = {} /\ Goto(Gc, "host_list") /\ UNCHANGED <<volumes, shifted, deleting, doomed>>
    /\ UNCHANGED <<host, mounted, torn, digest, job, late, extracting, provisioner, readers,
                   collections>>

(* collect_host, which holds no lock. *)
ListHost ==
    /\ pc[Gc] = "host_list"
    /\ doomed' = IF digest[Gc] = NoDigest THEN {} ELSE cache \ {digest[Gc]}
    /\ Goto(Gc, "host")
    /\ UNCHANGED <<host, lxd, digest, job, late, extracting, provisioner, readers, collections>>

RemoveBinary ==
    /\ pc[Gc] = "host"
    /\ \/ \E d \in doomed :
             /\ doomed' = doomed \ {d}
             /\ cache' \in {cache, cache \ {d}}
             /\ UNCHANGED pc
       \/ doomed = {} /\ Goto(Gc, "idle") /\ UNCHANGED <<cache, doomed>>
    /\ UNCHANGED <<latest, releases, lxd, digest, job, late, extracting, provisioner, readers, collections>>

-----------------------------------------------------------------------------
Resolve(a) == ResolveDigest(a) \/ ExtractLock(a) \/ Lookup(a) \/ Extract(a)

(* The steps of a create when nothing fails. *)
Create(t) ==
    \/ Resolve(t) \/ ResolveImage(t) \/ ReadLock(t) \/ VolumeLock(t) \/ ReadBinary(t)
    \/ Probe(t) \/ Upload(t) \/ AwaitUpload(t) \/ Shift(t) \/ CreateInstance(t) \/ AwaitInstance(t)

CleanUp ==
    \/ Resolve(Gc) \/ ResolveFails
    \/ WriteLock \/ ListVolumes \/ DeleteVolume \/ ListHost \/ RemoveBinary

(* A create that cannot go on for good has failed: a binary or a volume    *)
(* that is not where it has to be is an error.                             *)
Missing(t) ==
    \/ pc[t] = "read_binary" /\ digest[t] \notin cache
    \/ pc[t] \in {"reprobe", "shift"} /\ digest[t] \notin volumes

Next ==
    \/ Release
    \/ \E t \in Tasks :
          CreateSandbox(t) \/ Create(t) \/ Fail(t) \/ JobEnds(t) \/ DeleteSandbox(t)
    \/ \E j \in late : LateJobEnds(j)
    \/ \E d \in deleting : LateDeletion(d)
    \/ Collect \/ CleanUp

Spec == Init /\ [][Next]_vars

(* The runtime polls every task, and LXD finishes what it accepts.  (The   *)
(* waits for a volume have no deadline of their own.)                      *)
FairSpec ==
    /\ Spec
    /\ \A t \in Tasks :
          /\ WF_vars(Create(t)) /\ WF_vars(JobEnds(t))
          /\ WF_vars(Missing(t) /\ Fail(t))
    /\ WF_vars(CleanUp)

-----------------------------------------------------------------------------
(* A provisioned volume stays until the instance that is to mount it has   *)
(* been created, and is readable from it: clean-up, which would see it     *)
(* unused, does not run meanwhile (LxdComputeDriver::volume_use).  What    *)
(* can still take it is a deletion that LXD finishes after clean-up has    *)
(* given up on it (delete_custom_volume).                                  *)
VolumeStays ==
    \A t \in Tasks : pc[t] \in Creating => digest[t] \in shifted \cup torn

(* What driver.rs says of volume_use, "held shared from provisioning a     *)
(* sandbox's auxiliary volumes until its instance uses them, and           *)
(* exclusively by clean-up, which would otherwise see those volumes unused *)
(* and remove them": clean-up never takes a provisioned volume.            *)
CleanupSparesVolumes ==
    \A t \in Tasks : pc[t] \in Creating => digest[t] \in shifted

(* Every create is answered if LXD ends its operations: creates that wait  *)
(* for each other's volume and clean-up that waits for all of them never   *)
(* wait in a circle.                                                       *)
EveryCreateEnds == \A t \in Tasks : pc[t] = "resolve" ~> pc[t] \in {"ok", "error"}

(* What gc.rs says, "The collector only removes what nothing can still     *)
(* use": a binary that a create has resolved is there when it comes to     *)
(* read it, however long the import of the sandbox image in between takes. *)
BinaryStays ==
    \A t \in Tasks : pc[t] \in Resolved => digest[t] \in cache

=============================================================================
