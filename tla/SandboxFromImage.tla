-------------------------- MODULE SandboxFromImage --------------------------
(***************************************************************************)
(* A create and the import that it waits for: NewSandbox with ImageUpload  *)
(* in place of its one step of provisioning.  The driver goes on only      *)
(* after LXD took the upload; what follows it up to the instance (the      *)
(* operation, the alias, the volumes) may still fail.  Where LXD has the   *)
(* image already nothing is imported.                                      *)
(***************************************************************************)
EXTENDS NewSandbox

CONSTANTS MaxHops, MaxTarget, MaxId, Groups, Images, Chunk, Unnameable, Responses,
          Names     \* the components that paths are made of

ASSUME ImportAssumption ==
    /\ MaxHops \in Nat /\ MaxTarget \in Nat \ {0} /\ MaxId \in Nat /\ Groups \in Nat
    /\ Chunk \in Nat \ {0}

VARIABLES image, tree, written, owners, length, step, declared, remaining, body, sent,
          server, response, result

imported == <<image, tree, written, owners, length, step, declared, remaining, body, sent,
              server, response, result>>

Import == INSTANCE ImageUpload

(* An image unpacks to a tree in which every entry is in a directory and   *)
(* no link is longer than MaxTarget, and is packed to a file with a length. *)
ASSUME ImagesAssumption ==
    /\ Images # {} /\ {"sbin", "init", "openshell-init.sh", ".."} \subseteq Names
    /\ \A i \in Images :
        /\ i.lengths \subseteq Nat
        /\ \A p \in DOMAIN i.tree :
            /\ p \in Seq(Names) /\ p # <<>>
            /\ i.tree[p].kind \in {"directory", "file", "link"}
            /\ i.tree[p].target \in Seq(Names) /\ Len(i.tree[p].target) <= MaxTarget
            /\ Import!At(i.tree, Import!Up(p)).kind = "directory"

JointInit ==
    /\ Init
    /\ IF given.cached THEN image = CHOOSE i \in Images : TRUE ELSE image \in Images
    /\ Import!Unpacked

(* resolve_alias imports while the create waits for it, and passes its     *)
(* failure on.                                                             *)
Importing == ~ given.cached /\ \E t \in Tasks : task[t].pc = "provision"

ProvisionAwaitsImport ==
    \A t \in Tasks :
        ~ given.cached /\ task[t].pc = "provision" /\ task'[t] # task[t] =>
            result # None /\ (task'[t].answer = None => result.is = "ok")

JointNext ==
    \/ Next /\ ProvisionAwaitsImport /\ UNCHANGED imported
    \/ Importing /\ Import!Next /\ UNCHANGED vars

JointSpec == JointInit /\ [][JointNext]_<<vars, imported>>

-----------------------------------------------------------------------------
(* Both parts keep their types; of the import: every entry of the tree is  *)
(* in a directory, the body has sent what it does not have to send any     *)
(* more, and there is a result exactly at the end.                         *)
JointTypeOK == TypeOK /\ Import!TypeOK

(* What install_init says, "a sandbox's init is always the script": in an  *)
(* image that goes to LXD the kernel's lookup of the init ends there.      *)
InitIsTheScript == Import!InitIsTheScript

(* The kernel finds the driver's script as the container's init, or none   *)
(* in the three cases that ImageUpload names, and never another, whatever  *)
(* links the image has (inject_init_script, resolve_in_rootfs,             *)
(* install_init).                                                          *)
NoOtherInit == Import!NoOtherInit

(* No link of the image takes a write of the driver's out of the unpacked  *)
(* rootfs on the host (inject_init_script, resolve_in_rootfs).             *)
StaysInRootfs == Import!StaysInRootfs

(* The packed image gives every entry that can be named the owner that its *)
(* layers give it (decode_rootless_owner, write_ownership_pseudo_file).    *)
OwnersAreRestored == Import!OwnersAreRestored

(* LXD works only on a whole file, the import succeeds only if it does,    *)
(* and a refusal keeps LXD's own code (SplitImageBody::poll_frame,         *)
(* post_streaming_response).                                               *)
UploadIsTrue == Import!UploadIsTrue

=============================================================================
