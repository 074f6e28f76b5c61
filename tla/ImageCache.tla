----------------------------- MODULE ImageCache -----------------------------
(***************************************************************************)
(* Resolving a sandbox image to an LXD image alias, and importing what is  *)
(* missing: the per-alias locks of ImageCache, SkopeoImporter's import     *)
(* with the undo of an upload whose alias cannot be bound, and clean-up of *)
(* the images of older conversion revisions.                               *)
(*                                                                         *)
(* A task is one CreateSandbox, up to the creation of the instance.        *)
(* Several driver processes may share an LXD project, of equal or          *)
(* different revisions, and share no lock.  A fingerprint is of a content  *)
(* that holds the time of the import, so an image is the task that         *)
(* uploaded it.  The conversion itself is one step that may fail.          *)
(***************************************************************************)
EXTENDS Naturals

CONSTANTS
    Tasks,
    Processes,  \* driver processes
    Digests,    \* what a reference may resolve to
    Revisions,  \* conversion revisions
    Legacy,     \* an image that was imported earlier
    None

ASSUME ImageAssumption ==
    /\ Revisions \subseteq Nat /\ Revisions # {}
    /\ Legacy \notin Tasks /\ None \notin Tasks \cup {Legacy}

Images == Tasks \cup {Legacy}

(* An alias carries the revision and the digest. *)
Aliases == Revisions \X Digests

VARIABLES
    home,       \* the process of each task
    revision,   \* the conversion revision of each process
    images,     \* LXD's images
    names,      \* LXD's aliases: the image that each one names
    dying,      \* images that LXD was asked to delete
    upload,     \* LXD's operation for each task's upload
    pc,
    alias,      \* the alias that each task resolves to
    cut,        \* history: tasks that left an import to itself
    gc,         \* where each process's clean-up is
    doomed      \* what it listed and has yet to delete

deployment == <<home, revision>>
lxd == <<images, names, dying, upload>>
collector == <<gc, doomed>>
vars == <<home, revision, images, names, dying, upload, pc, alias, cut, gc, doomed>>

Importing == {"convert", "upload", "uploaded", "bind"}
Undoing == {"undo_look", "undo_delete", "undo_wait"}
Locked == {"lookup"} \cup Importing \cup Undoing
Ended == {"ok", "error"}
Labels == {"digest", "lock", "resolved"} \cup Locked \cup Ended

TypeOK ==
    /\ home \in [Tasks -> Processes]
    /\ revision \in [Processes -> Revisions]
    /\ images \subseteq Images /\ dying \subseteq images
    /\ names \in [Aliases -> images \cup {None}]
    /\ upload \in [Tasks -> {"none", "pending", "ok", "failed"}]
    /\ pc \in [Tasks -> Labels]
    /\ alias \in [Tasks -> Aliases \cup {None}]
    /\ \A t \in Tasks : pc[t] \in {"uploaded", "bind"} => upload[t] # "none"
    /\ cut \subseteq Tasks
    /\ gc \in [Processes -> {"list", "delete", "done"}]
    /\ doomed \in [Processes -> SUBSET Images]

Init ==
    /\ home \in [Tasks -> Processes]
    /\ revision \in [Processes -> Revisions]
    /\ images = {Legacy}
    /\ \E a \in Aliases : names = [b \in Aliases |-> IF b = a THEN Legacy ELSE None]
    /\ dying = {}
    /\ upload = [t \in Tasks |-> "none"]
    /\ pc = [t \in Tasks |-> "digest"]
    /\ alias = [t \in Tasks |-> None]
    /\ cut = {}
    /\ gc = [p \in Processes |-> "list"]
    /\ doomed = [p \in Processes |-> {}]

-----------------------------------------------------------------------------
(* LXD *)

(* get_image_aliases: the aliases of an image. *)
NamesOf(i) == {a \in Aliases : names[a] = i}

UploadEnds(t) ==
    /\ upload[t] = "pending"
    /\ \/ upload' = [upload EXCEPT ![t] = "ok"] /\ images' = images \cup {t}
       \/ upload' = [upload EXCEPT ![t] = "failed"] /\ UNCHANGED images
    /\ UNCHANGED <<deployment, names, dying, pc, alias, cut, collector>>

(* An image's aliases go with it. *)
DeletionEnds(i) ==
    /\ i \in dying
    /\ dying' = dying \ {i}
    /\ \/ /\ images' = images \ {i}
          /\ names' = [a \in Aliases |-> IF names[a] = i THEN None ELSE names[a]]
       \/ UNCHANGED <<images, names>>
    /\ UNCHANGED <<deployment, upload, pc, alias, cut, collector>>

-----------------------------------------------------------------------------
(* resolve_alias *)

Goto(t, label) == pc' = [pc EXCEPT ![t] = label]

(* The alias that the cache keeps the image under: cache_alias. *)
CacheAlias(t, d) == <<revision[home[t]], d>>

ResolveDigest(t) ==
    /\ pc[t] = "digest"
    /\ \/ \E d \in Digests : alias' = [alias EXCEPT ![t] = CacheAlias(t, d)] /\ Goto(t, "lock")
       \/ Goto(t, "error") /\ UNCHANGED alias
    /\ UNCHANGED <<deployment, lxd, cut, collector>>

(* Mutant: the alias is looked up without waiting for the lock. *)
LookWithoutLock(t) ==
    /\ pc[t] = "lock"
    /\ \/ names[alias[t]] # None /\ Goto(t, "resolved")
       \/ names[alias[t]] = None /\ Goto(t, "convert")
    /\ UNCHANGED <<deployment, lxd, alias, cut, collector>>

(* The locks are the process's own. *)
Lock(t) ==
    /\ pc[t] = "lock"
    /\ \A u \in Tasks : home[u] = home[t] /\ alias[u] = alias[t] => pc[u] \notin Locked
    /\ Goto(t, "lookup")
    /\ UNCHANGED <<deployment, lxd, alias, cut, collector>>

(* image_alias_exists: a hit, a miss, or an error. *)
LookUp(t) ==
    /\ pc[t] = "lookup"
    /\ \/ names[alias[t]] # None /\ Goto(t, "resolved")
       \/ names[alias[t]] = None /\ Goto(t, "convert")
       \/ Goto(t, "error")
    /\ UNCHANGED <<deployment, lxd, alias, cut, collector>>

-----------------------------------------------------------------------------
(* SkopeoImporter::import.  Every way out drops the lock. *)

(* skopeo, umoci, the ownership file, mksquashfs and the metadata. *)
Convert(t) ==
    /\ pc[t] = "convert"
    /\ \/ Goto(t, "upload")
       \/ Goto(t, "error")
    /\ UNCHANGED <<deployment, lxd, alias, cut, collector>>

(* Mutant: an upload that failed is waited for. *)
UploadUnchecked(t) ==
    /\ pc[t] = "upload"
    /\ Goto(t, "uploaded")
    /\ \/ upload' = [upload EXCEPT ![t] = "pending"]
       \/ UNCHANGED upload
    /\ UNCHANGED <<deployment, images, names, dying, alias, cut, collector>>

(* create_image_from_split; LXD may have taken an upload whose answer was  *)
(* lost or came too late.                                                  *)
Upload(t) ==
    /\ pc[t] = "upload"
    /\ \/ Goto(t, "uploaded") /\ upload' = [upload EXCEPT ![t] = "pending"] /\ UNCHANGED cut
       \/ Goto(t, "error") /\ upload' = [upload EXCEPT ![t] = "pending"] /\ cut' = cut \cup {t}
       \/ Goto(t, "error") /\ UNCHANGED <<upload, cut>>
    /\ UNCHANGED <<deployment, images, names, dying, alias, collector>>

(* Mutant: the wait has no deadline. *)
AwaitForever(t) ==
    /\ pc[t] = "uploaded"
    /\ \/ upload[t] = "ok" /\ Goto(t, "bind")
       \/ upload[t] = "failed" /\ Goto(t, "error")
    /\ UNCHANGED <<deployment, lxd, alias, cut, collector>>

(* wait_operation with a deadline; the operation may lack a fingerprint. *)
AwaitUpload(t) ==
    /\ pc[t] = "uploaded"
    /\ \/ upload[t] = "ok" /\ Goto(t, "bind") /\ UNCHANGED cut
       \/ upload[t] = "failed" /\ Goto(t, "error") /\ UNCHANGED cut
       \/ Goto(t, "error") /\ cut' = cut \cup {t}
    /\ UNCHANGED <<deployment, lxd, alias, collector>>

(* Mutant: nothing is undone. *)
BindOrLeave(t) ==
    /\ pc[t] = "bind"
    /\ \/ /\ names[alias[t]] = None /\ t \in images
          /\ names' = [names EXCEPT ![alias[t]] = t]
          /\ Goto(t, "resolved")
       \/ Goto(t, "error") /\ UNCHANGED names
    /\ UNCHANGED <<deployment, images, dying, upload, alias, cut, collector>>

(* create_image_alias: LXD refuses an alias that is taken; an error may    *)
(* hide that it was created.                                               *)
Bind(t) ==
    /\ pc[t] = "bind"
    /\ \/ /\ names[alias[t]] = None /\ t \in images
          /\ names' = [names EXCEPT ![alias[t]] = t]
          /\ \/ Goto(t, "resolved")
             \/ Goto(t, "undo_look")
       \/ Goto(t, "undo_look") /\ UNCHANGED names
    /\ UNCHANGED <<deployment, images, dying, upload, alias, cut, collector>>

(* Mutant: the image is deleted whatever names it. *)
UndoAnyway(t) ==
    /\ pc[t] = "undo_look"
    /\ \/ Goto(t, "undo_delete") /\ UNCHANGED cut
       \/ Goto(t, "error") /\ cut' = cut \cup {t}
    /\ UNCHANGED <<deployment, lxd, alias, collector>>

(* The image is deleted only if nothing names it. *)
UndoLook(t) ==
    /\ pc[t] = "undo_look"
    /\ \/ NamesOf(t) = {} /\ Goto(t, "undo_delete") /\ UNCHANGED cut
       \/ NamesOf(t) # {} /\ Goto(t, "error") /\ UNCHANGED cut
       \/ Goto(t, "error") /\ cut' = cut \cup {t}
    /\ UNCHANGED <<deployment, lxd, alias, collector>>

UndoDelete(t) ==
    /\ pc[t] = "undo_delete"
    /\ \/ t \in images /\ dying' = dying \cup {t} /\ Goto(t, "undo_wait") /\ UNCHANGED cut
       \/ Goto(t, "error") /\ cut' = cut \cup {t} /\ UNCHANGED dying
    /\ UNCHANGED <<deployment, images, names, upload, alias, collector>>

(* The deletion's outcome is ignored, and its wait has a deadline. *)
UndoWait(t) ==
    /\ pc[t] = "undo_wait"
    /\ Goto(t, "error")
    /\ cut' = IF t \in images THEN cut \cup {t} ELSE cut
    /\ UNCHANGED <<deployment, lxd, alias, collector>>

(* The request is dropped at an await, or its process ends. *)
Cancel(t) ==
    /\ pc[t] \notin Ended
    /\ Goto(t, "error")
    /\ cut' = cut \cup {t}
    /\ UNCHANGED <<deployment, lxd, alias, collector>>

(* create_instance from the alias, or any failure before it. *)
CreateInstance(t) ==
    /\ pc[t] = "resolved"
    /\ \/ names[alias[t]] # None /\ Goto(t, "ok")
       \/ Goto(t, "error")
    /\ UNCHANGED <<deployment, lxd, alias, cut, collector>>

-----------------------------------------------------------------------------
(* Clean-up, once per process *)

(* is_stale_image: all of its aliases are the driver's, of older revisions. *)
IsStaleImage(i, p) ==
    /\ NamesOf(i) # {}
    /\ \A a \in NamesOf(i) : a[1] < revision[p]

ListImages(p) ==
    /\ gc[p] = "list"
    /\ \/ /\ doomed' = [doomed EXCEPT ![p] = {i \in images : IsStaleImage(i, p)}]
          /\ gc' = [gc EXCEPT ![p] = "delete"]
       \/ gc' = [gc EXCEPT ![p] = "done"] /\ UNCHANGED doomed
    /\ UNCHANGED <<deployment, lxd, pc, alias, cut>>

(* The next one; an error is logged, and the next one tried.  The wait for *)
(* the deletion may fail too, so it orders nothing.                        *)
DeleteStale(p) ==
    /\ gc[p] = "delete"
    /\ \E i \in doomed[p] :
          /\ \/ i \in images /\ dying' = dying \cup {i}
             \/ UNCHANGED dying
          /\ doomed' = [doomed EXCEPT ![p] = @ \ {i}]
    /\ UNCHANGED <<deployment, images, names, upload, pc, alias, cut, gc>>

CollectEnds(p) ==
    /\ gc[p] = "delete" /\ doomed[p] = {}
    /\ gc' = [gc EXCEPT ![p] = "done"]
    /\ UNCHANGED <<deployment, lxd, pc, alias, cut, doomed>>

-----------------------------------------------------------------------------
Step(t) ==
    \/ ResolveDigest(t) \/ Lock(t) \/ LookUp(t) \/ Convert(t) \/ Upload(t) \/ AwaitUpload(t)
    \/ Bind(t) \/ UndoLook(t) \/ UndoDelete(t) \/ UndoWait(t) \/ CreateInstance(t)

Collect(p) == ListImages(p) \/ DeleteStale(p) \/ CollectEnds(p)

Next ==
    \/ \E t \in Tasks : Step(t) \/ Cancel(t) \/ UploadEnds(t)
    \/ \E i \in Images : DeletionEnds(i)
    \/ \E p \in Processes : Collect(p)

Spec == Init /\ [][Next]_vars

(* The runtime polls every task.  LXD need not end an operation. *)
FairSpec == Spec /\ \A t \in Tasks : WF_vars(Step(t))

-----------------------------------------------------------------------------
(* What resolve_alias has answered names an image until the instance is    *)
(* created from it, whatever other imports undo or clean-up removes, as    *)
(* long as no process of a newer revision collects in the project.         *)
ResolvedStays ==
    \A t \in Tasks :
        pc[t] = "resolved" /\ (\A p \in Processes : revision[p] <= revision[home[t]])
            => names[alias[t]] \in images \ dying

(* A process imports only what is missing: while a task imports, its alias *)
(* names nothing, or what another process imported meanwhile (ImageCache:  *)
(* "importing missing images at most once").                               *)
ImportsAreNeeded ==
    \A t, u \in Tasks :
        pc[t] \in Importing /\ names[alias[t]] = u => home[u] # home[t]

(* An import that ends leaves no image without an alias behind, except     *)
(* where it was cut off: a dropped request, a deadline, or an error of the *)
(* undo itself (import's undo).                                            *)
NothingIsLeftBehind ==
    \A t \in Tasks :
        t \in images /\ NamesOf(t) = {} /\ pc[t] \in Ended => t \in cut

(* Every resolution ends, with an alias or an error, although LXD need     *)
(* never end an upload or a deletion.                                      *)
EveryResolveEnds == \A t \in Tasks : pc[t] = "lock" ~> pc[t] \in Ended

=============================================================================
