-------------------------- MODULE ImageCacheProofs --------------------------
(***************************************************************************)
(* An alias that resolve_alias answered stays until the instance is        *)
(* created from it, a process imports only what is missing, and no import  *)
(* leaves an image behind, for any number of tasks, processes, digests and *)
(* revisions.                                                              *)
(***************************************************************************)
EXTENDS ImageCache, TLAPS

(* Where a task may be once create_image_alias has answered. *)
AfterBind == {"resolved"} \cup Undoing \cup Ended

(* A resolution that has its digest has an alias of its process's revision. *)
AliasesAreOwn ==
    \A t \in Tasks : pc[t] \notin {"digest", "error"} =>
        alias[t] \in Aliases /\ alias[t][1] = revision[home[t]]

(* The locks of a process: one task per alias. *)
LocksExclude ==
    \A t, u \in Tasks :
        /\ home[t] = home[u] /\ alias[t] = alias[u]
        /\ pc[t] \in Locked /\ pc[u] \in Locked
        => t = u

(* A task's image is named by the task's own alias only, and no undo that  *)
(* has found it unnamed is under way.                                      *)
NamedByOwner ==
    \A a \in Aliases : \A t \in Tasks : names[a] = t =>
        /\ alias[t] = a /\ a[1] = revision[home[t]]
        /\ pc[t] \in {"resolved", "undo_look"} \cup Ended

(* An image is of an upload that succeeded, and no upload precedes its request. *)
ImagesAreUploaded ==
    \A t \in Tasks :
        /\ t \in images => upload[t] = "ok"
        /\ pc[t] \in {"bind"} \cup Undoing => upload[t] = "ok"
        /\ upload[t] # "none" => pc[t] \in {"uploaded", "bind"} \cup AfterBind

(* Whoever may still have to bind or to undo an image is at work on it. *)
UnnamedIsPursued ==
    \A t \in Tasks :
        /\ upload[t] = "pending" => t \in cut \/ pc[t] = "uploaded"
        /\ t \in images /\ NamesOf(t) = {} =>
              t \in cut \/ pc[t] \in {"uploaded", "bind"} \cup Undoing

(* What clean-up has listed, or LXD was asked to delete, is named by older *)
(* revisions only, and its task is past the bind.                          *)
DoomedAreOld ==
    \A p \in Processes : \A i \in doomed[p] :
        /\ \A a \in NamesOf(i) : a[1] < revision[p]
        /\ i \in Tasks => pc[i] \in AfterBind

DyingAreOld ==
    \A i \in dying :
        /\ \A a \in NamesOf(i) : \E p \in Processes : a[1] < revision[p]
        /\ i \in Tasks => pc[i] \in AfterBind

(* The inductive invariant. *)
CacheInv ==
    /\ TypeOK /\ AliasesAreOwn /\ LocksExclude /\ NamedByOwner /\ ImagesAreUploaded
    /\ UnnamedIsPursued /\ DoomedAreOld /\ DyingAreOld /\ ImportsAreNeeded /\ ResolvedStays

-----------------------------------------------------------------------------
LEMMA InitEstablishesCacheInv == Init => CacheInv
<1> SUFFICES ASSUME Init PROVE CacheInv OBVIOUS
<1> USE ImageAssumption
    DEF Labels, Locked, Importing, Undoing, Ended, AfterBind, Images
<1>1. /\ \A a \in Aliases : names[a] \in {Legacy, None}
      /\ names \in [Aliases -> images \cup {None}]
  BY DEF Init
<1>2. TypeOK BY <1>1 DEF Init, TypeOK
<1>3. AliasesAreOwn /\ LocksExclude /\ ImagesAreUploaded BY DEF Init, AliasesAreOwn, LocksExclude, ImagesAreUploaded
<1>4. NamedByOwner BY <1>1 DEF NamedByOwner
<1>5. UnnamedIsPursued BY DEF Init, UnnamedIsPursued
<1>6. DoomedAreOld /\ DyingAreOld BY DEF Init, DoomedAreOld, DyingAreOld
<1>7. ImportsAreNeeded /\ ResolvedStays BY DEF Init, ImportsAreNeeded, ResolvedStays
<1> QED BY <1>2, <1>3, <1>4, <1>5, <1>6, <1>7 DEF CacheInv

(* An alias of the newest revision names nothing that LXD is deleting. *)
LEMMA NewestIsNotDying ==
    ASSUME CacheInv, NEW t \in Tasks, pc[t] \notin {"digest", "error"},
           \A p \in Processes : revision[p] <= revision[home[t]],
           names[alias[t]] # None
    PROVE  names[alias[t]] \in images \ dying
<1>1. alias[t] \in Aliases /\ alias[t][1] = revision[home[t]] BY DEF CacheInv, AliasesAreOwn
<1>2. names[alias[t]] \in images BY <1>1 DEF CacheInv, TypeOK
<1>3. revision[home[t]] \in Nat /\ \A p \in Processes : revision[p] \in Nat
  BY ImageAssumption DEF CacheInv, TypeOK
<1>4. ASSUME names[alias[t]] \in dying PROVE FALSE
  <2>1. alias[t] \in NamesOf(names[alias[t]]) BY <1>1 DEF NamesOf
  <2>2. PICK p \in Processes : alias[t][1] < revision[p]
    BY <1>4, <2>1 DEF CacheInv, DyingAreOld
  <2> QED BY <1>1, <1>3, <2>2
<1> QED BY <1>2, <1>4

(* A step of a task that leaves LXD and clean-up alone. *)
LEMMA QuietStep ==
    ASSUME CacheInv, NEW t \in Tasks, NEW label \in Labels \ {"digest"},
           pc' = [pc EXCEPT ![t] = label],
           UNCHANGED <<deployment, lxd, alias, collector>>,
           cut \subseteq cut', cut' \subseteq Tasks,
           pc[t] = "digest" => label = "error",
           pc[t] = "error" => label = "error",
           pc[t] \in AfterBind => label \in AfterBind,
           label \in Locked => \/ pc[t] \in Locked
                               \/ \A u \in Tasks : home[u] = home[t] /\ alias[u] = alias[t]
                                                     => pc[u] \notin Locked,
           label \in {"undo_delete", "undo_wait"} => NamesOf(t) = {},
           label \in {"bind"} \cup Undoing => upload[t] = "ok",
           upload[t] # "none" => label \in {"uploaded", "bind"} \cup AfterBind,
           label = "uploaded" => upload[t] # "none",
           upload[t] = "pending" => t \in cut' \/ label = "uploaded",
           t \in images /\ NamesOf(t) = {} =>
              t \in cut' \/ label \in {"uploaded", "bind"} \cup Undoing,
           label \in Importing => pc[t] \in Importing \/ names[alias[t]] = None,
           label = "resolved" => names[alias[t]] # None
    PROVE  CacheInv'
<1>0. UNCHANGED <<home, revision, images, names, dying, upload, alias, gc, doomed>>
  BY DEF deployment, lxd, collector
<1>1. pc' \in [Tasks -> Labels] /\ pc'[t] = label /\ \A u \in Tasks : u # t => pc'[u] = pc[u]
  BY DEF CacheInv, TypeOK
<1>2. \A i : NamesOf(i)' = NamesOf(i) BY <1>0 DEF NamesOf
<1>3. TypeOK'
  <2>1. \A u \in Tasks : pc'[u] \in {"uploaded", "bind"} => upload[u] # "none"
    BY <1>1 DEF CacheInv, TypeOK
  <2> QED BY <1>0, <1>1, <2>1 DEF CacheInv, TypeOK
<1>4. AliasesAreOwn' BY <1>0, <1>1 DEF CacheInv, AliasesAreOwn
<1>5. LocksExclude' BY <1>0, <1>1 DEF CacheInv, LocksExclude
<1>6. NamedByOwner'
  <2>1. ASSUME NEW a \in Aliases, NEW u \in Tasks, names[a] = u
        PROVE  pc'[u] \in {"resolved", "undo_look"} \cup Ended
    <3>1. pc[u] \in {"resolved", "undo_look"} \cup Ended BY <2>1 DEF CacheInv, NamedByOwner
    <3>2. CASE u = t
      <4>1. label \in AfterBind BY <3>1, <3>2 DEF AfterBind, Undoing
      <4>2. NamesOf(t) # {} BY <2>1, <3>2 DEF NamesOf
      <4> QED BY <1>1, <3>2, <4>1, <4>2 DEF AfterBind, Undoing, Ended
    <3> QED BY <1>1, <3>1, <3>2
  <2> QED BY <1>0, <2>1 DEF CacheInv, NamedByOwner
<1>7. ImagesAreUploaded' BY <1>0, <1>1 DEF CacheInv, ImagesAreUploaded
<1>8. UnnamedIsPursued' BY <1>0, <1>1, <1>2 DEF CacheInv, UnnamedIsPursued
<1>9. DoomedAreOld' BY <1>0, <1>1, <1>2 DEF CacheInv, DoomedAreOld
<1>10. DyingAreOld' BY <1>0, <1>1, <1>2 DEF CacheInv, DyingAreOld
<1>11. ImportsAreNeeded'
  <2>1. names[alias[t]] = None => names[alias[t]] \notin Tasks BY ImageAssumption
  <2> QED BY <1>0, <1>1, <2>1 DEF CacheInv, ImportsAreNeeded
<1>12. ResolvedStays'
  <2> SUFFICES ASSUME NEW u \in Tasks, pc'[u] = "resolved",
                      \A p \in Processes : revision[p] <= revision[home[u]]
               PROVE  names[alias[u]] \in images \ dying
    BY <1>0 DEF ResolvedStays
  <2>1. CASE u = t BY <1>1, <2>1, NewestIsNotDying
  <2>2. CASE u # t BY <1>1, <2>2 DEF CacheInv, ResolvedStays
  <2> QED BY <2>1, <2>2
<1> QED BY <1>3, <1>4, <1>5, <1>6, <1>7, <1>8, <1>9, <1>10, <1>11, <1>12 DEF CacheInv

-----------------------------------------------------------------------------
LEMMA ResolveDigestKeepsCacheInv ==
    ASSUME CacheInv, NEW t \in Tasks, ResolveDigest(t)
    PROVE  CacheInv'
<1>0. /\ UNCHANGED <<home, revision, images, names, dying, upload, cut, gc, doomed>>
      /\ pc[t] = "digest" /\ upload[t] = "none" /\ t \notin images
      /\ \A i : NamesOf(i)' = NamesOf(i)
  <2>1. UNCHANGED <<home, revision, images, names, dying, upload, cut, gc, doomed>> /\ pc[t] = "digest"
    BY DEF ResolveDigest, deployment, lxd, collector
  <2>2. upload[t] = "none" /\ t \notin images
    BY <2>1 DEF CacheInv, ImagesAreUploaded, AfterBind, Undoing, Ended
  <2> QED BY <2>1, <2>2 DEF NamesOf
<1>1. CASE Goto(t, "error") /\ UNCHANGED alias
  BY <1>0, <1>1, QuietStep
     DEF CacheInv, TypeOK, Goto, deployment, lxd, collector, Labels, AfterBind, Locked, Importing, Undoing, Ended
<1>2. ASSUME NEW d \in Digests, alias' = [alias EXCEPT ![t] = CacheAlias(t, d)], Goto(t, "lock")
      PROVE  CacheInv'
  <2> USE DEF Labels, AfterBind, Locked, Importing, Undoing, Ended
  <2>1. /\ pc' \in [Tasks -> Labels] /\ pc'[t] = "lock"
        /\ \A u \in Tasks : u # t => pc'[u] = pc[u]
    BY <1>2 DEF CacheInv, TypeOK, Goto
  <2>2. /\ CacheAlias(t, d) \in Aliases /\ CacheAlias(t, d)[1] = revision[home[t]]
        /\ alias' \in [Tasks -> Aliases \cup {None}] /\ alias'[t] = CacheAlias(t, d)
        /\ \A u \in Tasks : u # t => alias'[u] = alias[u]
    BY <1>2 DEF CacheInv, TypeOK, CacheAlias, Aliases
  <2>3. \A a \in Aliases : names[a] # t BY <1>0 DEF CacheInv, NamedByOwner
  <2>4. TypeOK' BY <1>0, <2>1, <2>2 DEF CacheInv, TypeOK
  <2>5. AliasesAreOwn' BY <1>0, <2>1, <2>2 DEF CacheInv, AliasesAreOwn
  <2>6. LocksExclude' BY <1>0, <2>1, <2>2 DEF CacheInv, LocksExclude
  <2>7. NamedByOwner' BY <1>0, <2>1, <2>2, <2>3 DEF CacheInv, NamedByOwner
  <2>8. ImagesAreUploaded' BY <1>0, <2>1 DEF CacheInv, ImagesAreUploaded
  <2>9. UnnamedIsPursued' BY <1>0, <2>1 DEF CacheInv, UnnamedIsPursued
  <2>10. DoomedAreOld' BY <1>0, <2>1 DEF CacheInv, DoomedAreOld
  <2>11. DyingAreOld' BY <1>0, <2>1 DEF CacheInv, DyingAreOld
  <2>12. ImportsAreNeeded' BY <1>0, <2>1, <2>2 DEF CacheInv, ImportsAreNeeded
  <2>13. ResolvedStays' BY <1>0, <2>1, <2>2 DEF CacheInv, ResolvedStays
  <2> QED BY <2>4, <2>5, <2>6, <2>7, <2>8, <2>9, <2>10, <2>11, <2>12, <2>13 DEF CacheInv
<1> QED BY <1>1, <1>2 DEF ResolveDigest

(* What the invariant says of a task's own image and upload. *)
LEMMA OwnImage ==
    ASSUME CacheInv, NEW t \in Tasks
    PROVE  /\ pc[t] \in Labels /\ cut \subseteq Tasks /\ cut \cup {t} \subseteq Tasks
           /\ upload[t] \in {"none", "pending", "ok", "failed"}
           /\ t \in images => upload[t] = "ok"
           /\ pc[t] \in {"bind"} \cup Undoing => upload[t] = "ok"
           /\ upload[t] # "none" => pc[t] \in {"uploaded", "bind"} \cup AfterBind
           /\ pc[t] = "uploaded" => upload[t] # "none"
           /\ upload[t] = "pending" => t \in cut \/ pc[t] = "uploaded"
           /\ t \in images /\ NamesOf(t) = {} =>
                 t \in cut \/ pc[t] \in {"uploaded", "bind"} \cup Undoing
           /\ pc[t] \in {"undo_delete", "undo_wait"} => NamesOf(t) = {}
<1>1. pc[t] \in {"undo_delete", "undo_wait"} => NamesOf(t) = {}
  BY DEF CacheInv, NamedByOwner, NamesOf, Ended
<1> QED BY <1>1 DEF CacheInv, TypeOK, ImagesAreUploaded, UnnamedIsPursued

LEMMA QuietStepsKeepCacheInv ==
    ASSUME CacheInv, NEW t \in Tasks,
           \/ Lock(t) \/ LookUp(t) \/ Convert(t) \/ AwaitUpload(t) \/ UndoLook(t) \/ UndoWait(t)
           \/ CreateInstance(t) \/ Cancel(t)
    PROVE  CacheInv'
<1> USE OwnImage DEF Goto, Labels, AfterBind, Locked, Importing, Undoing, Ended
<1>1. CASE Lock(t) BY <1>1, QuietStep DEF Lock
<1>2. CASE LookUp(t) BY <1>2, QuietStep DEF LookUp
<1>3. CASE Convert(t) BY <1>3, QuietStep DEF Convert
<1>4. CASE AwaitUpload(t) BY <1>4, QuietStep DEF AwaitUpload
<1>5. CASE UndoLook(t) BY <1>5, QuietStep DEF UndoLook
<1>6. CASE UndoWait(t) BY <1>6, QuietStep DEF UndoWait
<1>7. CASE CreateInstance(t) BY <1>7, QuietStep DEF CreateInstance
<1>8. CASE Cancel(t) BY <1>8, QuietStep DEF Cancel
<1> QED BY <1>1, <1>2, <1>3, <1>4, <1>5, <1>6, <1>7, <1>8

LEMMA UploadKeepsCacheInv ==
    ASSUME CacheInv, NEW t \in Tasks, Upload(t)
    PROVE  CacheInv'
<1> USE DEF Labels, AfterBind, Locked, Importing, Undoing, Ended
<1>0. /\ UNCHANGED <<home, revision, images, names, dying, alias, gc, doomed>>
      /\ pc[t] = "upload" /\ upload[t] = "none" /\ t \notin images
      /\ \A i : NamesOf(i)' = NamesOf(i)
  <2>1. UNCHANGED <<home, revision, images, names, dying, alias, gc, doomed>> /\ pc[t] = "upload"
    BY DEF Upload, deployment, collector
  <2>2. upload[t] = "none" /\ t \notin images BY <2>1 DEF CacheInv, ImagesAreUploaded
  <2> QED BY <2>1, <2>2 DEF NamesOf
<1>1. CASE Goto(t, "error") /\ UNCHANGED <<upload, cut>>
  BY <1>0, <1>1, OwnImage, QuietStep DEF Goto, deployment, lxd, collector
<1>2. ASSUME NEW label \in {"uploaded", "error"}, Goto(t, label),
             upload' = [upload EXCEPT ![t] = "pending"],
             cut' = IF label = "error" THEN cut \cup {t} ELSE cut
      PROVE  CacheInv'
  <2>1. /\ pc' \in [Tasks -> Labels] /\ pc'[t] = label
        /\ \A u \in Tasks : u # t => pc'[u] = pc[u]
    BY <1>2 DEF CacheInv, TypeOK, Goto
  <2>2. /\ upload' \in [Tasks -> {"none", "pending", "ok", "failed"}] /\ upload'[t] = "pending"
        /\ \A u \in Tasks : u # t => upload'[u] = upload[u]
    BY <1>2 DEF CacheInv, TypeOK
  <2>3. cut' \subseteq Tasks /\ cut \subseteq cut' /\ (label = "error" => t \in cut')
    BY <1>2 DEF CacheInv, TypeOK
  <2>4. TypeOK' BY <1>0, <2>1, <2>2, <2>3 DEF CacheInv, TypeOK
  <2>5. AliasesAreOwn' BY <1>0, <2>1 DEF CacheInv, AliasesAreOwn
  <2>6. LocksExclude' BY <1>0, <2>1 DEF CacheInv, LocksExclude
  <2>7. NamedByOwner' BY <1>0, <2>1 DEF CacheInv, NamedByOwner
  <2>8. ImagesAreUploaded' BY <1>0, <2>1, <2>2 DEF CacheInv, ImagesAreUploaded
  <2>9. UnnamedIsPursued' BY <1>0, <2>1, <2>2, <2>3 DEF CacheInv, UnnamedIsPursued
  <2>10. DoomedAreOld' BY <1>0, <2>1 DEF CacheInv, DoomedAreOld
  <2>11. DyingAreOld' BY <1>0, <2>1 DEF CacheInv, DyingAreOld
  <2>12. ImportsAreNeeded' BY <1>0, <2>1 DEF CacheInv, ImportsAreNeeded
  <2>13. ResolvedStays' BY <1>0, <2>1 DEF CacheInv, ResolvedStays
  <2> QED BY <2>4, <2>5, <2>6, <2>7, <2>8, <2>9, <2>10, <2>11, <2>12, <2>13 DEF CacheInv
<1> QED BY <1>1, <1>2 DEF Upload

(* create_image_alias takes a free alias, while the task holds its lock. *)
LEMMA BindKeepsCacheInv ==
    ASSUME CacheInv, NEW t \in Tasks, Bind(t)
    PROVE  CacheInv'
<1> USE DEF Labels, AfterBind, Locked, Importing, Undoing, Ended
<1>0. /\ UNCHANGED <<home, revision, images, dying, upload, alias, cut, gc, doomed>>
      /\ pc[t] = "bind" /\ upload[t] = "ok"
  BY OwnImage DEF Bind, deployment, collector
<1>1. CASE Goto(t, "undo_look") /\ UNCHANGED names
  BY <1>0, <1>1, OwnImage, QuietStep DEF Goto, deployment, lxd, collector
<1>2. ASSUME NEW label \in {"resolved", "undo_look"}, Goto(t, label),
             names[alias[t]] = None, t \in images,
             names' = [names EXCEPT ![alias[t]] = t]
      PROVE  CacheInv'
  <2>1. /\ pc' \in [Tasks -> Labels] /\ pc'[t] = label
        /\ \A u \in Tasks : u # t => pc'[u] = pc[u]
    BY <1>2 DEF CacheInv, TypeOK, Goto
  <2>2. alias[t] \in Aliases /\ alias[t][1] = revision[home[t]]
    BY <1>0 DEF CacheInv, AliasesAreOwn
  <2>3. /\ names' \in [Aliases -> images \cup {None}] /\ names'[alias[t]] = t
        /\ \A a \in Aliases : a # alias[t] => names'[a] = names[a]
    BY <1>2, <2>2 DEF CacheInv, TypeOK
  <2>4. t # None /\ \A u \in Tasks : u # None BY ImageAssumption
  <2>5. t \notin dying /\ \A p \in Processes : t \notin doomed[p]
    BY <1>0 DEF CacheInv, DyingAreOld, DoomedAreOld
  <2>6. \A i : i # t /\ i # None => NamesOf(i)' = NamesOf(i)
    BY <1>2, <2>2, <2>3 DEF NamesOf
  <2>7. NamesOf(t)' # {} BY <2>2, <2>3 DEF NamesOf
  <2>8. None \notin dying /\ \A p \in Processes : None \notin doomed[p]
    BY ImageAssumption DEF CacheInv, TypeOK, Images
  <2>9. TypeOK' BY <1>0, <2>1, <2>3 DEF CacheInv, TypeOK
  <2>10. AliasesAreOwn' BY <1>0, <2>1 DEF CacheInv, AliasesAreOwn
  <2>11. LocksExclude' BY <1>0, <2>1 DEF CacheInv, LocksExclude
  <2>12. NamedByOwner' BY <1>0, <2>1, <2>2, <2>3 DEF CacheInv, NamedByOwner
  <2>13. ImagesAreUploaded' BY <1>0, <2>1 DEF CacheInv, ImagesAreUploaded
  <2>14. UnnamedIsPursued' BY <1>0, <2>1, <2>4, <2>6, <2>7 DEF CacheInv, UnnamedIsPursued
  <2>15. DoomedAreOld' BY <1>0, <2>1, <2>5, <2>6, <2>8 DEF CacheInv, DoomedAreOld
  <2>16. DyingAreOld' BY <1>0, <2>1, <2>5, <2>6, <2>8 DEF CacheInv, DyingAreOld
  <2>17. ImportsAreNeeded'
    <3> SUFFICES ASSUME NEW u \in Tasks, NEW v \in Tasks, pc'[u] \in Importing,
                        names'[alias[u]] = v
                 PROVE  home[v] # home[u]
      BY <1>0 DEF ImportsAreNeeded
    <3>1. u # t /\ pc[u] \in Importing BY <1>2, <2>1
    <3>2. alias[u] \in Aliases BY <3>1 DEF CacheInv, AliasesAreOwn
    <3>3. CASE alias[u] = alias[t]
      BY <1>0, <2>3, <3>1, <3>3 DEF CacheInv, LocksExclude
    <3>4. CASE alias[u] # alias[t]
      BY <2>3, <3>1, <3>2, <3>4 DEF CacheInv, ImportsAreNeeded
    <3> QED BY <3>3, <3>4
  <2>18. ResolvedStays'
    <3> SUFFICES ASSUME NEW u \in Tasks, pc'[u] = "resolved",
                        \A p \in Processes : revision[p] <= revision[home[u]]
                 PROVE  names'[alias[u]] \in images \ dying
      BY <1>0 DEF ResolvedStays
    <3>1. CASE u = t BY <1>2, <2>3, <2>5, <3>1
    <3>2. CASE u # t
      <4>1. pc[u] = "resolved" BY <2>1, <3>2
      <4>2. names[alias[u]] \in images \ dying /\ alias[u] \in Aliases
        BY <4>1 DEF CacheInv, ResolvedStays, AliasesAreOwn
      <4>3. None \notin images BY ImageAssumption DEF CacheInv, TypeOK, Images
      <4> QED BY <1>2, <2>3, <4>2, <4>3
    <3> QED BY <3>1, <3>2
  <2> QED BY <2>9, <2>10, <2>11, <2>12, <2>13, <2>14, <2>15, <2>16, <2>17, <2>18 DEF CacheInv
<1> QED BY <1>1, <1>2 DEF Bind

(* LXD is asked to delete an image that no alias of a newest revision names. *)
LEMMA DeletionOfOld ==
    ASSUME CacheInv, NEW i \in images,
           \A a \in NamesOf(i) : \E p \in Processes : a[1] < revision[p],
           NEW t \in Tasks, pc[t] = "resolved",
           \A p \in Processes : revision[p] <= revision[home[t]]
    PROVE  names[alias[t]] \in images \ (dying \cup {i})
<1>1. names[alias[t]] \in images \ dying BY DEF CacheInv, ResolvedStays
<1>2. alias[t] \in Aliases /\ alias[t][1] = revision[home[t]] BY DEF CacheInv, AliasesAreOwn
<1>3. revision[home[t]] \in Nat /\ \A p \in Processes : revision[p] \in Nat
  BY ImageAssumption DEF CacheInv, TypeOK
<1>4. ASSUME names[alias[t]] = i PROVE FALSE
  <2>1. PICK p \in Processes : alias[t][1] < revision[p] BY <1>2, <1>4 DEF NamesOf
  <2> QED BY <1>2, <1>3, <2>1
<1> QED BY <1>1, <1>4

LEMMA UndoDeleteKeepsCacheInv ==
    ASSUME CacheInv, NEW t \in Tasks, UndoDelete(t)
    PROVE  CacheInv'
<1> USE DEF Labels, AfterBind, Locked, Importing, Undoing, Ended
<1>0. /\ UNCHANGED <<home, revision, images, names, upload, alias, gc, doomed>>
      /\ pc[t] = "undo_delete" /\ upload[t] = "ok" /\ NamesOf(t) = {}
      /\ \A i : NamesOf(i)' = NamesOf(i)
  <2>1. UNCHANGED <<home, revision, images, names, upload, alias, gc, doomed>> /\ pc[t] = "undo_delete"
    BY DEF UndoDelete, deployment, collector
  <2> QED BY <2>1, OwnImage DEF NamesOf
<1>1. CASE Goto(t, "error") /\ cut' = cut \cup {t} /\ UNCHANGED dying
  BY <1>0, <1>1, OwnImage, QuietStep DEF Goto, deployment, lxd, collector
<1>2. CASE t \in images /\ dying' = dying \cup {t} /\ Goto(t, "undo_wait") /\ UNCHANGED cut
  <2>1. /\ pc' \in [Tasks -> Labels] /\ pc'[t] = "undo_wait"
        /\ \A u \in Tasks : u # t => pc'[u] = pc[u]
    BY <1>2 DEF CacheInv, TypeOK, Goto
  <2>2. TypeOK' BY <1>0, <1>2, <2>1 DEF CacheInv, TypeOK
  <2>3. AliasesAreOwn' BY <1>0, <2>1 DEF CacheInv, AliasesAreOwn
  <2>4. LocksExclude' BY <1>0, <2>1 DEF CacheInv, LocksExclude
  <2>5. NamedByOwner' BY <1>0, <2>1 DEF CacheInv, NamedByOwner
  <2>6. ImagesAreUploaded' BY <1>0, <2>1 DEF CacheInv, ImagesAreUploaded
  <2>7. UnnamedIsPursued' BY <1>0, <1>2, <2>1 DEF CacheInv, UnnamedIsPursued
  <2>8. DoomedAreOld' BY <1>0, <2>1 DEF CacheInv, DoomedAreOld
  <2>9. DyingAreOld' BY <1>0, <1>2, <2>1 DEF CacheInv, DyingAreOld
  <2>10. ImportsAreNeeded' BY <1>0, <2>1 DEF CacheInv, ImportsAreNeeded
  <2>11. ResolvedStays' BY <1>0, <1>2, <2>1, DeletionOfOld DEF ResolvedStays
  <2> QED BY <2>2, <2>3, <2>4, <2>5, <2>6, <2>7, <2>8, <2>9, <2>10, <2>11 DEF CacheInv
<1> QED BY <1>1, <1>2 DEF UndoDelete

LEMMA UploadEndsKeepsCacheInv ==
    ASSUME CacheInv, NEW t \in Tasks, UploadEnds(t)
    PROVE  CacheInv'
<1> USE DEF Labels, AfterBind, Locked, Importing, Undoing, Ended
<1>0. /\ UNCHANGED <<home, revision, names, dying, pc, alias, cut, gc, doomed>>
      /\ upload[t] = "pending"
      /\ \A i : NamesOf(i)' = NamesOf(i)
  BY DEF UploadEnds, deployment, collector, NamesOf
<1>1. PICK outcome \in {"ok", "failed"} :
         /\ upload' = [upload EXCEPT ![t] = outcome]
         /\ images' = IF outcome = "ok" THEN images \cup {t} ELSE images
  BY DEF UploadEnds
<1>2. /\ upload' \in [Tasks -> {"none", "pending", "ok", "failed"}] /\ upload'[t] = outcome
      /\ \A u \in Tasks : u # t => upload'[u] = upload[u]
  BY <1>1 DEF CacheInv, TypeOK
<1>3. /\ images \subseteq images' /\ images' \subseteq Images
      /\ t \in images' => outcome = "ok"
      /\ \A u \in Tasks : u # t => (u \in images' <=> u \in images)
  BY <1>0, <1>1 DEF CacheInv, TypeOK, Images, ImagesAreUploaded
<1>4. TypeOK'
  <2>1. names \in [Aliases -> images' \cup {None}] BY <1>3 DEF CacheInv, TypeOK
  <2> QED BY <1>0, <1>2, <1>3, <2>1 DEF CacheInv, TypeOK
<1>5. AliasesAreOwn' /\ LocksExclude' /\ NamedByOwner'
  BY <1>0 DEF CacheInv, AliasesAreOwn, LocksExclude, NamedByOwner
<1>6. ImagesAreUploaded' BY <1>0, <1>2, <1>3 DEF CacheInv, ImagesAreUploaded
<1>7. UnnamedIsPursued' BY <1>0, <1>2, <1>3 DEF CacheInv, UnnamedIsPursued
<1>8. DoomedAreOld' /\ DyingAreOld' BY <1>0 DEF CacheInv, DoomedAreOld, DyingAreOld
<1>9. ImportsAreNeeded' BY <1>0 DEF CacheInv, ImportsAreNeeded
<1>10. ResolvedStays' BY <1>0, <1>3 DEF CacheInv, ResolvedStays
<1> QED BY <1>4, <1>5, <1>6, <1>7, <1>8, <1>9, <1>10 DEF CacheInv

(* An image goes with its aliases; none of them was answered by a newest   *)
(* revision.                                                               *)
LEMMA DeletionEndsKeepsCacheInv ==
    ASSUME CacheInv, NEW i \in Images, DeletionEnds(i)
    PROVE  CacheInv'
<1> USE DEF Labels, AfterBind, Locked, Importing, Undoing, Ended
<1>0. /\ UNCHANGED <<home, revision, upload, pc, alias, cut, gc, doomed>>
      /\ i \in dying /\ dying' = dying \ {i}
  BY DEF DeletionEnds, deployment, collector
<1>1. None \notin Tasks /\ None \notin Images /\ i # None BY ImageAssumption DEF Images
<1>2. /\ images' \subseteq images /\ images \ {i} \subseteq images'
      /\ \A a \in Aliases : names'[a] = names[a] \/ names'[a] = None
      /\ \A a \in Aliases : names[a] # i => names'[a] = names[a]
      /\ names' \in [Aliases -> images' \cup {None}]
      /\ i \in images' => names' = names
  <2>1. CASE UNCHANGED <<images, names>> BY <2>1 DEF CacheInv, TypeOK
  <2>2. CASE images' = images \ {i} /\ names' = [a \in Aliases |-> IF names[a] = i THEN None ELSE names[a]]
    BY <2>2 DEF CacheInv, TypeOK
  <2> QED BY <2>1, <2>2 DEF DeletionEnds
<1>3. \A j \in Images : NamesOf(j)' \subseteq NamesOf(j) BY <1>1, <1>2 DEF NamesOf
<1>4. \A j \in images' : NamesOf(j)' = NamesOf(j)
  BY <1>1, <1>2 DEF NamesOf, CacheInv, TypeOK
<1>5. dying \subseteq Images /\ \A p \in Processes : doomed[p] \subseteq Images
  BY DEF CacheInv, TypeOK
<1>6. TypeOK' BY <1>0, <1>2 DEF CacheInv, TypeOK
<1>7. AliasesAreOwn' /\ LocksExclude' BY <1>0 DEF CacheInv, AliasesAreOwn, LocksExclude
<1>8. NamedByOwner' BY <1>0, <1>1, <1>2 DEF CacheInv, NamedByOwner
<1>9. ImagesAreUploaded' BY <1>0, <1>2 DEF CacheInv, ImagesAreUploaded
<1>10. UnnamedIsPursued' BY <1>0, <1>2, <1>4 DEF CacheInv, UnnamedIsPursued
<1>11. DoomedAreOld' BY <1>0, <1>3, <1>5 DEF CacheInv, DoomedAreOld
<1>12. DyingAreOld' BY <1>0, <1>3, <1>5 DEF CacheInv, DyingAreOld
<1>13. ImportsAreNeeded'
  <2> SUFFICES ASSUME NEW u \in Tasks, NEW v \in Tasks, pc[u] \in Importing, names'[alias[u]] = v
               PROVE  home[v] # home[u]
    BY <1>0 DEF ImportsAreNeeded
  <2>1. alias[u] \in Aliases BY DEF CacheInv, AliasesAreOwn
  <2>2. names[alias[u]] = v BY <1>1, <1>2, <2>1
  <2> QED BY <2>2 DEF CacheInv, ImportsAreNeeded
<1>14. ResolvedStays'
  <2> SUFFICES ASSUME NEW u \in Tasks, pc[u] = "resolved",
                      \A p \in Processes : revision[p] <= revision[home[u]]
               PROVE  names'[alias[u]] \in images' \ dying'
    BY <1>0 DEF ResolvedStays
  <2>1. names[alias[u]] \in images \ dying /\ alias[u] \in Aliases
    BY DEF CacheInv, ResolvedStays, AliasesAreOwn
  <2> QED BY <1>0, <1>2, <2>1
<1> QED BY <1>6, <1>7, <1>8, <1>9, <1>10, <1>11, <1>12, <1>13, <1>14 DEF CacheInv

-----------------------------------------------------------------------------
(* Clean-up lists an image only while an older revision's alias names it,  *)
(* so the image's own task is past the bind and gives it no other.         *)
LEMMA CollectKeepsCacheInv ==
    ASSUME CacheInv, NEW p \in Processes, Collect(p)
    PROVE  CacheInv'
<1> USE DEF Labels, AfterBind, Locked, Importing, Undoing, Ended
<1>0. UNCHANGED <<home, revision, images, names, upload, pc, alias, cut>>
  BY DEF Collect, ListImages, DeleteStale, CollectEnds, deployment, lxd
<1>1. \A i : NamesOf(i)' = NamesOf(i) BY <1>0 DEF NamesOf
<1>2. AliasesAreOwn' /\ LocksExclude' /\ NamedByOwner' /\ ImagesAreUploaded' /\ ImportsAreNeeded'
  BY <1>0 DEF CacheInv, AliasesAreOwn, LocksExclude, NamedByOwner, ImagesAreUploaded, ImportsAreNeeded
<1>3. UnnamedIsPursued' BY <1>0, <1>1 DEF CacheInv, UnnamedIsPursued
<1>4. ASSUME UNCHANGED dying PROVE DyingAreOld' /\ ResolvedStays'
  BY <1>0, <1>1, <1>4 DEF CacheInv, DyingAreOld, ResolvedStays
<1>5. CASE ListImages(p)
  <2>1. UNCHANGED dying BY <1>5 DEF ListImages, lxd
  <2>2. TypeOK' BY <1>0, <1>5, <2>1 DEF CacheInv, TypeOK, ListImages
  <2>3. ASSUME NEW q \in Processes, NEW i \in doomed'[q]
        PROVE  /\ \A a \in NamesOf(i) : a[1] < revision[q]
               /\ i \in Tasks => pc[i] \in AfterBind
    <3>1. CASE i \in doomed[q] BY <3>1 DEF CacheInv, DoomedAreOld
    <3>2. CASE i \notin doomed[q]
      <4>1. q = p /\ i \in images /\ IsStaleImage(i, p)
        BY <1>5, <2>3, <3>2 DEF ListImages, CacheInv, TypeOK
      <4>2. PICK a \in Aliases : names[a] = i BY <4>1 DEF IsStaleImage, NamesOf
      <4> QED BY <4>1, <4>2 DEF IsStaleImage, CacheInv, NamedByOwner
    <3> QED BY <3>1, <3>2
  <2>4. DoomedAreOld' BY <1>0, <1>1, <2>3 DEF DoomedAreOld
  <2> QED BY <1>2, <1>3, <1>4, <2>1, <2>2, <2>4 DEF CacheInv
<1>6. CASE DeleteStale(p)
  <2>1. PICK i \in doomed[p] :
           /\ (i \in images /\ dying' = dying \cup {i}) \/ UNCHANGED dying
           /\ doomed' = [doomed EXCEPT ![p] = @ \ {i}]
    BY <1>6 DEF DeleteStale
  <2>2. UNCHANGED gc BY <1>6 DEF DeleteStale
  <2>3. TypeOK' BY <1>0, <2>1, <2>2 DEF CacheInv, TypeOK
  <2>4. DoomedAreOld'
    <3>1. \A q \in Processes : doomed'[q] \subseteq doomed[q] BY <2>1 DEF CacheInv, TypeOK
    <3> QED BY <1>0, <1>1, <3>1 DEF CacheInv, DoomedAreOld
  <2>5. CASE i \in images /\ dying' = dying \cup {i}
    <3>1. /\ \A a \in NamesOf(i) : a[1] < revision[p]
          /\ i \in Tasks => pc[i] \in AfterBind
      BY DEF CacheInv, DoomedAreOld
    <3>2. DyingAreOld' BY <1>0, <1>1, <2>5, <3>1 DEF CacheInv, DyingAreOld
    <3>3. ResolvedStays' BY <1>0, <2>5, <3>1, DeletionOfOld DEF ResolvedStays
    <3> QED BY <1>2, <1>3, <2>3, <2>4, <3>2, <3>3 DEF CacheInv
  <2> QED BY <1>2, <1>3, <1>4, <2>1, <2>3, <2>4, <2>5 DEF CacheInv
<1>7. CASE CollectEnds(p)
  <2>1. UNCHANGED <<dying, doomed>> BY <1>7 DEF CollectEnds, lxd
  <2>2. TypeOK' BY <1>0, <1>7, <2>1 DEF CacheInv, TypeOK, CollectEnds
  <2>3. DoomedAreOld' BY <1>0, <1>1, <2>1 DEF CacheInv, DoomedAreOld
  <2> QED BY <1>2, <1>3, <1>4, <2>1, <2>2, <2>3 DEF CacheInv
<1> QED BY <1>5, <1>6, <1>7 DEF Collect

LEMMA StutterKeepsCacheInv == CacheInv /\ UNCHANGED vars => CacheInv'
BY DEF vars, CacheInv, TypeOK, AliasesAreOwn, LocksExclude, NamedByOwner, ImagesAreUploaded,
       UnnamedIsPursued, DoomedAreOld, DyingAreOld, ImportsAreNeeded, ResolvedStays, NamesOf

LEMMA NextKeepsCacheInv == CacheInv /\ [Next]_vars => CacheInv'
<1> SUFFICES ASSUME CacheInv, [Next]_vars PROVE CacheInv' OBVIOUS
<1>1. ASSUME NEW t \in Tasks, Step(t) PROVE CacheInv'
  BY <1>1, ResolveDigestKeepsCacheInv, QuietStepsKeepCacheInv, UploadKeepsCacheInv,
     BindKeepsCacheInv, UndoDeleteKeepsCacheInv
     DEF Step
<1>2. ASSUME NEW t \in Tasks, Cancel(t) PROVE CacheInv' BY <1>2, QuietStepsKeepCacheInv
<1>3. ASSUME NEW t \in Tasks, UploadEnds(t) PROVE CacheInv' BY <1>3, UploadEndsKeepsCacheInv
<1>4. ASSUME NEW i \in Images, DeletionEnds(i) PROVE CacheInv' BY <1>4, DeletionEndsKeepsCacheInv
<1>5. ASSUME NEW p \in Processes, Collect(p) PROVE CacheInv' BY <1>5, CollectKeepsCacheInv
<1>6. CASE UNCHANGED vars BY <1>6, StutterKeepsCacheInv
<1> QED BY <1>1, <1>2, <1>3, <1>4, <1>5, <1>6 DEF Next

(* The inductive invariant holds throughout. *)
THEOREM CacheInvHolds == Spec => []CacheInv
BY InitEstablishesCacheInv, NextKeepsCacheInv, PTL DEF Spec

(* The state stays well-typed: LXD's aliases name images that exist, and   *)
(* it is only asked to delete such ones.                                   *)
THEOREM CacheTyped == Spec => []TypeOK
<1>1. CacheInv => TypeOK BY DEF CacheInv
<1> QED BY <1>1, CacheInvHolds, PTL

(* What resolve_alias answered stays usable: neither another import's undo *)
(* nor clean-up by a process of the same or an older revision takes the    *)
(* image away before create_instance.                                      *)
THEOREM ResolvedImageStays == Spec => []ResolvedStays
<1>1. CacheInv => ResolvedStays BY DEF CacheInv
<1> QED BY <1>1, CacheInvHolds, PTL

(* The per-alias lock makes an import happen at most once in a process:    *)
(* no task imports what a task of its own process has bound.               *)
THEOREM OneImportPerProcess == Spec => []ImportsAreNeeded
<1>1. CacheInv => ImportsAreNeeded BY DEF CacheInv
<1> QED BY <1>1, CacheInvHolds, PTL

(* import's undo is complete: only an import that was cut off leaves an    *)
(* image that nothing names.                                               *)
THEOREM UndoIsComplete == Spec => []NothingIsLeftBehind
<1>1. CacheInv => NothingIsLeftBehind
  BY DEF CacheInv, UnnamedIsPursued, NothingIsLeftBehind, Undoing, Ended
<1> QED BY <1>1, CacheInvHolds, PTL

=============================================================================
