-------------------------- MODULE VolumeUseProofs --------------------------
(***************************************************************************)
(* Clean-up never takes a volume away from a create that has provisioned   *)
(* it, for any number of creates, releases and collections, unless LXD     *)
(* finishes a deletion that clean-up has given up on.                      *)
(***************************************************************************)
EXTENDS VolumeUse, TLAPS

(* A create, or clean-up while it resolves, has a digest. *)
Digesting == (Resolving \ {"resolve"}) \cup Resolved \cup Provisioning \cup Creating
DigestsAreKnown == \A a \in Actors : pc[a] \in Digesting => digest[a] \in Digests

(* Only the two waits have an operation under way. *)
JobsAreAwaited ==
    \A t \in Tasks : job[t] = "pending" => pc[t] \in {"uploaded", "instance_wait"}

(* Clean-up deletes volumes with volume_use to itself. *)
CollectsAlone == pc[Gc] \in {"list", "delete"} => readers = {}

(* The inductive invariant. *)
VolumeInv == TypeOK /\ DigestsAreKnown /\ JobsAreAwaited /\ CollectsAlone /\ VolumeStays

-----------------------------------------------------------------------------
LEMMA InitEstablishesVolumeInv == Init => VolumeInv
BY VolumeAssumption
   DEF Init, VolumeInv, TypeOK, DigestsAreKnown, JobsAreAwaited, CollectsAlone, VolumeStays, Actors,
       Labels, Sharing, Resolving, Resolved, Provisioning, Creating, Collecting, Digesting

(* What a step of a create does to its label and to volume_use: it may     *)
(* move within the part that holds the lock, take it, or drop it.          *)
LEMMA CreateMoves ==
    ASSUME VolumeInv, NEW t \in Tasks, NEW label \in Labels \ Collecting,
           pc' = [pc EXCEPT ![t] = label],
           readers' \subseteq Tasks, t \in readers' <=> label \in Sharing,
           \A u \in Tasks : u # t => (u \in readers' <=> u \in readers)
    PROVE  /\ pc' \in [Actors -> Labels]
           /\ \A u \in Tasks : pc'[u] \notin Collecting
           /\ readers' = {u \in Tasks : pc'[u] \in Sharing}
           /\ pc'[Gc] = pc[Gc]
           /\ pc'[t] = label
           /\ \A a \in Actors : a # t => pc'[a] = pc[a]
<1>1. t \in Actors /\ Gc \in Actors /\ t # Gc BY VolumeAssumption DEF Actors
<1>2. pc \in [Actors -> Labels] /\ readers = {u \in Tasks : pc[u] \in Sharing}
      /\ \A u \in Tasks : pc[u] \notin Collecting
  BY DEF VolumeInv, TypeOK
<1>3. Tasks \subseteq Actors BY DEF Actors
<1> QED BY <1>1, <1>2, <1>3

(* A step of a create that leaves LXD and clean-up alone. *)
LEMMA QuietCreateStep ==
    ASSUME VolumeInv, NEW t \in Tasks, NEW label \in Labels \ Collecting,
           pc' = [pc EXCEPT ![t] = label],
           readers' \subseteq Tasks, t \in readers' <=> label \in Sharing,
           \A u \in Tasks : u # t => (u \in readers' <=> u \in readers),
           label \in Sharing => pc[t] \in Sharing \/ pc[Gc] \notin {"list", "delete"},
           UNCHANGED <<latest, releases, volumes, mounted, deleting, doomed, collections>>,
           torn' \subseteq torn, torn \subseteq torn' \cup shifted',
           cache' \subseteq Digests,
           shifted' \subseteq volumes, shifted \subseteq shifted',
           digest' \in [Actors -> Digests \cup {NoDigest}],
           \A a \in Actors : a # t => digest'[a] = digest[a],
           label \in Digesting => digest'[t] \in Digests,
           label \in Creating => digest'[t] \in shifted' \cup torn',
           job' \in [Tasks -> {"none", "pending", "ok", "failed"}],
           \A u \in Tasks : u # t => job'[u] = job[u],
           job'[t] = "pending" => label \in {"uploaded", "instance_wait"},
           late' \subseteq {"volume", "instance"} \X Tasks \X Digests,
           extracting' \in [Digests -> Actors \cup {NoActor}],
           provisioner' \in [Digests -> Tasks \cup {NoActor}]
    PROVE  VolumeInv'
<1>1. t \in Actors /\ Tasks \subseteq Actors /\ t # Gc BY VolumeAssumption DEF Actors
<1>2. /\ pc' \in [Actors -> Labels]
      /\ \A u \in Tasks : pc'[u] \notin Collecting
      /\ readers' = {u \in Tasks : pc'[u] \in Sharing}
      /\ pc'[Gc] = pc[Gc]
      /\ pc'[t] = label
      /\ \A a \in Actors : a # t => pc'[a] = pc[a]
  BY CreateMoves
<1>3. TypeOK' BY <1>2 DEF VolumeInv, TypeOK
<1>4. DigestsAreKnown' BY <1>1, <1>2 DEF VolumeInv, DigestsAreKnown
<1>5. JobsAreAwaited' BY <1>1, <1>2 DEF VolumeInv, JobsAreAwaited
<1>6. CollectsAlone'
  <2>1. CASE pc[Gc] \in {"list", "delete"}
    <3>1. readers = {} BY <2>1 DEF VolumeInv, CollectsAlone
    <3>2. pc[t] \notin Sharing BY <3>1 DEF VolumeInv, TypeOK
    <3>3. readers' = {} BY <2>1, <3>1, <3>2
    <3> QED BY <3>3 DEF CollectsAlone
  <2>2. CASE pc[Gc] \notin {"list", "delete"} BY <1>2, <2>2 DEF CollectsAlone
  <2> QED BY <2>1, <2>2
<1>7. VolumeStays' BY <1>1, <1>2 DEF VolumeInv, VolumeStays
<1> QED BY <1>3, <1>4, <1>5, <1>6, <1>7 DEF VolumeInv

-----------------------------------------------------------------------------
(* The table of a lock whose guard an actor drops is still one. *)
LEMMA DroppedIsTable ==
    ASSUME NEW S, NEW locks \in [Digests -> S \cup {NoActor}], NEW a
    PROVE  Dropped(locks, a) \in [Digests -> S \cup {NoActor}]
BY DEF Dropped

LEMMA CreateKeepsVolumeInv ==
    ASSUME VolumeInv, NEW t \in Tasks, CreateSandbox(t) \/ Create(t) \/ Fail(t)
    PROVE  VolumeInv'
<1>0. /\ t \in Actors /\ t # Gc /\ Tasks \subseteq Actors
      /\ pc[t] \in Labels /\ pc[t] \notin Collecting
      /\ readers \subseteq Tasks
      /\ pc[t] \in Sharing <=> t \in readers
      /\ pc[t] \in Digesting => digest[t] \in Digests
      /\ job[t] = "pending" => pc[t] \in {"uploaded", "instance_wait"}
      /\ pc[t] \in Creating => digest[t] \in shifted \cup torn
  BY VolumeAssumption
     DEF VolumeInv, TypeOK, DigestsAreKnown, JobsAreAwaited, VolumeStays, Actors
<1>1. /\ latest \in Digests /\ cache \subseteq Digests /\ shifted \subseteq volumes
      /\ digest \in [Actors -> Digests \cup {NoDigest}]
      /\ job \in [Tasks -> {"none", "pending", "ok", "failed"}]
      /\ late \subseteq {"volume", "instance"} \X Tasks \X Digests
      /\ extracting \in [Digests -> Actors \cup {NoActor}]
      /\ provisioner \in [Digests -> Tasks \cup {NoActor}]
      /\ Dropped(extracting, t) \in [Digests -> Actors \cup {NoActor}]
      /\ Dropped(provisioner, t) \in [Digests -> Tasks \cup {NoActor}]
  BY DroppedIsTable DEF VolumeInv, TypeOK
<1> USE DEF Labels, Sharing, Resolving, Resolved, Provisioning, Creating, Collecting, Digesting, host, lxd
<1>2. CASE CreateSandbox(t)
  BY <1>0, <1>1, <1>2, QuietCreateStep DEF CreateSandbox, Goto
<1>3. CASE ResolveDigest(t)
  BY <1>0, <1>1, <1>3, QuietCreateStep DEF ResolveDigest, Goto
<1>4. CASE ExtractLock(t)
  BY <1>0, <1>1, <1>4, QuietCreateStep DEF ExtractLock, Goto
<1>5. CASE Lookup(t)
  BY <1>0, <1>1, <1>5, QuietCreateStep DEF Lookup, Goto, AfterResolving
<1>6. CASE Extract(t)
  BY <1>0, <1>1, <1>6, QuietCreateStep DEF Extract, Goto, AfterResolving
<1>7. CASE ResolveImage(t)
  BY <1>0, <1>1, <1>7, QuietCreateStep DEF ResolveImage, Goto
<1>8. CASE ReadLock(t)
  BY <1>0, <1>1, <1>8, QuietCreateStep DEF ReadLock, Goto
<1>9. CASE VolumeLock(t)
  BY <1>0, <1>1, <1>9, QuietCreateStep DEF VolumeLock, Goto
<1>10. CASE ReadBinary(t)
  BY <1>0, <1>1, <1>10, QuietCreateStep DEF ReadBinary, Goto
<1>11. CASE Probe(t)
  BY <1>0, <1>1, <1>11, QuietCreateStep DEF Probe, Goto
<1>12. CASE Upload(t)
  BY <1>0, <1>1, <1>12, QuietCreateStep DEF Upload, Goto
<1>13. CASE AwaitUpload(t)
  BY <1>0, <1>1, <1>13, QuietCreateStep DEF AwaitUpload, Goto
<1>14. CASE Shift(t)
  BY <1>0, <1>1, <1>14, QuietCreateStep DEF Shift, Goto
<1>15. CASE CreateInstance(t)
  BY <1>0, <1>1, <1>15, QuietCreateStep DEF CreateInstance, Goto
<1>16. CASE AwaitInstance(t)
  BY <1>0, <1>1, <1>16, QuietCreateStep DEF AwaitInstance, Goto
<1>17. CASE Fail(t)
  <2>1. late' \subseteq {"volume", "instance"} \X Tasks \X Digests
    <3>1. KindOfJob(t) \in {"volume", "instance"} BY DEF KindOfJob
    <3>2. job[t] = "pending" =>
             <<KindOfJob(t), t, digest[t]>> \in {"volume", "instance"} \X Tasks \X Digests
      BY <1>0, <3>1
    <3> QED BY <1>1, <1>17, <3>2 DEF Fail
  <2>2. /\ pc' = [pc EXCEPT ![t] = "error"] /\ readers' = readers \ {t}
        /\ UNCHANGED <<latest, releases, cache, volumes, shifted, mounted, deleting, torn, digest, doomed,
                        collections>>
        /\ extracting' = Dropped(extracting, t) /\ provisioner' = Dropped(provisioner, t)
        /\ job' = [job EXCEPT ![t] = "none"]
    BY <1>17 DEF Fail, Goto
  <2> QED BY <1>0, <1>1, <2>1, <2>2, QuietCreateStep
<1> QED BY <1>2, <1>3, <1>4, <1>5, <1>6, <1>7, <1>8, <1>9, <1>10, <1>11, <1>12, <1>13, <1>14, <1>15, <1>16, <1>17 DEF Create, Resolve

-----------------------------------------------------------------------------
(* LXD performs an operation: volumes and mounts are added only. *)
LEMMA PerformAdds ==
    ASSUME VolumeInv, NEW kind, NEW t \in Tasks, NEW d \in Digests, Perform(kind, t, d)
    PROVE  /\ volumes' \subseteq Digests /\ volumes \subseteq volumes' /\ UNCHANGED <<shifted, deleting, torn>>
           /\ mounted' \in [Tasks -> Digests \cup {NoDigest}]
BY DEF VolumeInv, TypeOK, Perform

LEMMA WorldKeepsVolumeInv ==
    ASSUME VolumeInv,
           \/ Release
           \/ \E t \in Tasks : JobEnds(t) \/ DeleteSandbox(t)
           \/ \E j \in late : LateJobEnds(j)
           \/ \E d \in deleting : LateDeletion(d)
    PROVE  VolumeInv'
<1> USE DEF VolumeInv
<1>1. CASE Release
  BY <1>1, VolumeAssumption
     DEF Release, TypeOK, DigestsAreKnown, JobsAreAwaited, CollectsAlone, VolumeStays, lxd
<1>2. ASSUME NEW t \in Tasks, JobEnds(t) PROVE VolumeInv'
  <2>1. digest[t] \in Digests
    BY <1>2 DEF JobEnds, JobsAreAwaited, DigestsAreKnown, Digesting, Provisioning, Creating, Actors
  <2>2. /\ volumes' \subseteq Digests /\ volumes \subseteq volumes' /\ UNCHANGED <<shifted, deleting, torn>>
        /\ mounted' \in [Tasks -> Digests \cup {NoDigest}]
    <3>1. CASE Perform(KindOfJob(t), t, digest[t]) BY <2>1, <3>1, PerformAdds
    <3>2. CASE UNCHANGED lxd BY <3>2 DEF TypeOK, lxd
    <3> QED BY <1>2, <3>1, <3>2 DEF JobEnds
  <2>3. /\ job' \in [Tasks -> {"none", "pending", "ok", "failed"}]
        /\ \A u \in Tasks : job'[u] = "pending" => job[u] = "pending"
    BY <1>2 DEF JobEnds, TypeOK
  <2>4. UNCHANGED <<latest, releases, cache, pc, digest, late, extracting, provisioner, readers,
                    doomed, collections>>
    BY <1>2 DEF JobEnds, host
  <2> QED BY <2>2, <2>3, <2>4 DEF TypeOK, DigestsAreKnown, JobsAreAwaited, CollectsAlone, VolumeStays
<1>3. ASSUME NEW j \in late, LateJobEnds(j) PROVE VolumeInv'
  <2>1. j[2] \in Tasks /\ j[3] \in Digests BY DEF TypeOK
  <2>2. /\ volumes' \subseteq Digests /\ volumes \subseteq volumes' /\ UNCHANGED <<shifted, deleting, torn>>
        /\ mounted' \in [Tasks -> Digests \cup {NoDigest}]
    <3>1. CASE Perform(j[1], j[2], j[3]) BY <2>1, <3>1, PerformAdds
    <3>2. CASE UNCHANGED lxd BY <3>2 DEF TypeOK, lxd
    <3> QED BY <1>3, <3>1, <3>2 DEF LateJobEnds
  <2>3. UNCHANGED <<latest, releases, cache, pc, digest, job, extracting, provisioner, readers,
                    doomed, collections>>
    BY <1>3 DEF LateJobEnds, host
  <2>4. late' \subseteq late BY <1>3 DEF LateJobEnds
  <2> QED BY <2>2, <2>3, <2>4 DEF TypeOK, DigestsAreKnown, JobsAreAwaited, CollectsAlone, VolumeStays
<1>4. ASSUME NEW t \in Tasks, DeleteSandbox(t) PROVE VolumeInv'
  BY <1>4 DEF DeleteSandbox, TypeOK, DigestsAreKnown, JobsAreAwaited, CollectsAlone, VolumeStays, host
<1>5. ASSUME NEW d \in deleting, LateDeletion(d) PROVE VolumeInv'
  <2>1. /\ volumes' \subseteq Digests /\ shifted' \subseteq volumes'
        /\ deleting' \subseteq Digests /\ torn' \subseteq Digests
        /\ shifted \cup torn \subseteq shifted' \cup torn'
    BY <1>5 DEF LateDeletion, TypeOK
  <2>2. UNCHANGED <<latest, releases, cache, mounted, pc, digest, job, late, extracting, provisioner,
                    readers, doomed, collections>>
    BY <1>5 DEF LateDeletion, host
  <2> QED BY <2>1, <2>2 DEF TypeOK, DigestsAreKnown, JobsAreAwaited, CollectsAlone, VolumeStays
<1> QED BY <1>1, <1>2, <1>3, <1>4, <1>5

-----------------------------------------------------------------------------
(* A step of clean-up that leaves the creates alone, and takes volumes     *)
(* away only while no create holds volume_use.                             *)
LEMMA QuietCollectorStep ==
    ASSUME VolumeInv, NEW label \in Labels,
           pc' = [pc EXCEPT ![Gc] = label],
           label \in {"list", "delete"} => readers = {},
           UNCHANGED <<latest, releases, mounted, torn, job, late, provisioner, readers>>, deleting' \subseteq Digests,
           volumes' \subseteq volumes, shifted' \subseteq shifted, shifted' \subseteq volumes',
           (\A u \in Tasks : pc[u] \notin Sharing) \/ shifted' = shifted,
           cache' \subseteq Digests, doomed' \subseteq Digests, collections' \in 0..MaxCollections,
           digest' \in [Actors -> Digests \cup {NoDigest}],
           \A t \in Tasks : digest'[t] = digest[t],
           label \in Digesting => digest'[Gc] \in Digests,
           extracting' \in [Digests -> Actors \cup {NoActor}]
    PROVE  VolumeInv'
<1>1. Gc \in Actors /\ Gc \notin Tasks /\ Actors = Tasks \cup {Gc} BY VolumeAssumption DEF Actors
<1>2. /\ pc' \in [Actors -> Labels] /\ pc'[Gc] = label
      /\ \A t \in Tasks : pc'[t] = pc[t]
  BY <1>1 DEF VolumeInv, TypeOK
<1>3. TypeOK' BY <1>2 DEF VolumeInv, TypeOK
<1>4. DigestsAreKnown' BY <1>1, <1>2 DEF VolumeInv, DigestsAreKnown
<1>5. JobsAreAwaited' BY <1>2 DEF VolumeInv, JobsAreAwaited
<1>6. CollectsAlone' BY <1>2 DEF CollectsAlone
<1>7. VolumeStays' BY <1>2 DEF VolumeInv, VolumeStays, Sharing
<1> QED BY <1>3, <1>4, <1>5, <1>6, <1>7 DEF VolumeInv

LEMMA CleanUpKeepsVolumeInv ==
    ASSUME VolumeInv, Collect \/ CleanUp
    PROVE  VolumeInv'
<1>0. /\ Gc \in Actors /\ Gc \notin Tasks /\ Tasks \subseteq Actors
      /\ pc[Gc] \in {"list", "delete"} => readers = {}
      /\ pc[Gc] \in Digesting => digest[Gc] \in Digests
      /\ readers = {} => \A u \in Tasks : pc[u] \notin Sharing
  BY VolumeAssumption DEF VolumeInv, TypeOK, DigestsAreKnown, CollectsAlone, Actors
<1>1. /\ latest \in Digests /\ cache \subseteq Digests
      /\ volumes \subseteq Digests /\ shifted \subseteq volumes /\ deleting \subseteq Digests
      /\ digest \in [Actors -> Digests \cup {NoDigest}]
      /\ extracting \in [Digests -> Actors \cup {NoActor}]
      /\ Dropped(extracting, Gc) \in [Digests -> Actors \cup {NoActor}]
      /\ doomed \subseteq Digests /\ collections \in 0..MaxCollections
      /\ pc \in [Actors -> Labels]
  BY DroppedIsTable DEF VolumeInv, TypeOK
<1> USE DEF Labels, Resolving, Resolved, Provisioning, Creating, Collecting, Digesting, host, lxd
<1>2. CASE Collect
  BY <1>0, <1>1, <1>2, QuietCollectorStep, VolumeAssumption DEF Collect, Goto
<1>3. CASE ResolveDigest(Gc)
  BY <1>0, <1>1, <1>3, QuietCollectorStep DEF ResolveDigest, Goto
<1>4. CASE ExtractLock(Gc)
  BY <1>0, <1>1, <1>4, QuietCollectorStep DEF ExtractLock, Goto
<1>5. CASE Lookup(Gc)
  BY <1>0, <1>1, <1>5, QuietCollectorStep DEF Lookup, Goto, AfterResolving
<1>6. CASE Extract(Gc)
  BY <1>0, <1>1, <1>6, QuietCollectorStep DEF Extract, Goto, AfterResolving
<1>7. CASE ResolveFails
  BY <1>0, <1>1, <1>7, QuietCollectorStep DEF ResolveFails, Goto
<1>8. CASE WriteLock
  BY <1>0, <1>1, <1>8, QuietCollectorStep DEF WriteLock, Goto
<1>9. CASE ListVolumes
  BY <1>0, <1>1, <1>9, QuietCollectorStep DEF ListVolumes, Goto
<1>10. CASE DeleteVolume
  BY <1>0, <1>1, <1>10, QuietCollectorStep DEF DeleteVolume, Goto
<1>11. CASE ListHost
  BY <1>0, <1>1, <1>11, QuietCollectorStep DEF ListHost, Goto
<1>12. CASE RemoveBinary
  BY <1>0, <1>1, <1>12, QuietCollectorStep DEF RemoveBinary, Goto
<1> QED BY <1>2, <1>3, <1>4, <1>5, <1>6, <1>7, <1>8, <1>9, <1>10, <1>11, <1>12 DEF CleanUp, Resolve

LEMMA VolumeInvariance == Spec => []VolumeInv
<1>1. VolumeInv /\ UNCHANGED vars => VolumeInv'
  BY DEF vars, VolumeInv, TypeOK, DigestsAreKnown, JobsAreAwaited, CollectsAlone, VolumeStays
<1>2. VolumeInv /\ [Next]_vars => VolumeInv'
  BY <1>1, CreateKeepsVolumeInv, WorldKeepsVolumeInv, CleanUpKeepsVolumeInv DEF Next
<1> QED BY <1>2, InitEstablishesVolumeInv, PTL DEF Spec

-----------------------------------------------------------------------------
(* Provisioning and clean-up keep their state well typed, and a create     *)
(* holds volume_use from its volume's lock to its instance's creation.     *)
THEOREM VolumeTypeCorrect == Spec => []TypeOK
BY VolumeInvariance, PTL DEF VolumeInv

(* For any number of creates, digests and collections, a volume that a     *)
(* create has provisioned is there, and readable, when its instance is     *)
(* created: volume_use keeps clean-up away.  Only a deletion that LXD      *)
(* finishes after clean-up gave up on it is excepted.                      *)
THEOREM ProvisionedVolumesStay == Spec => []VolumeStays
BY VolumeInvariance, PTL DEF VolumeInv

============================================================================
