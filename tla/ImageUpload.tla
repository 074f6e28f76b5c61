---------------------------- MODULE ImageUpload ----------------------------
(***************************************************************************)
(* One import, from the unpacked image to LXD's answer to the upload: the  *)
(* init, the owners, the packed file, and the multipart body that streams  *)
(* it in chunks (SplitImageBody) while the file may change and LXD, or     *)
(* something in between, may answer at any time.  ImageCache has what      *)
(* surrounds it: the digest, the alias and the clean-up; the deadlines of  *)
(* the tools and of the upload are failures here.                          *)
(*                                                                         *)
(* The packed file is its length: the body is right if its part has the    *)
(* file's first bytes, as many as the file had when it was measured.       *)
(***************************************************************************)
EXTENDS GuestRootfs

CONSTANTS
    Images,     \* what images unpack to: a tree, the layers' owners, the records of them,
                \* and the lengths that the packed file may have
    Chunk,      \* what is read of it at a time: 256 KiB in the code
    Unnameable, \* names that a pseudo file cannot have: those with a newline
    Responses   \* what LXD, or a proxy before it, may answer

Client == INSTANCE LxdClient

VARIABLES
    image,      \* the image; never changes
    tree,       \* the unpacked rootfs
    written,    \* history: the paths below the rootfs that the driver wrote
    owners,     \* the pseudo file, None until it is written
    length,     \* the length of the packed file, None until there is one
    step,       \* how far the import is
    declared,   \* the length that the body was made for
    remaining,  \* rootfs_remaining
    body,       \* the state of the body
    sent,       \* how much of the file went out
    server,     \* what LXD did with the request, and the code of its refusal
    response,   \* what is on its way to the driver, None if nothing is
    result      \* how the upload ended, None as long as it has not

rootfs == <<tree, written, owners>>
upload == <<declared, remaining, body, sent>>
vars == <<image, rootfs, length, step, upload, server, response, result>>

TypeOK ==
    /\ step \in {"inject", "install", "owners", "pack", "metadata", "measure",
                 "connect", "send", "done"}
    /\ \A p \in DOMAIN tree : p = <<>> \/ At(tree, Up(p)).kind = "directory"
    /\ length \in image.lengths \cup {None}
    /\ body \in {"Preamble", "Rootfs", "Closing", "Done", "Broken"}
    /\ declared \in Nat /\ remaining \in Nat /\ sent + remaining = declared
    /\ server.is \in {"waiting", "operation", "refused"}
    /\ step = "done" <=> result # None

Unpacked ==
    /\ tree = image.tree /\ written = {} /\ owners = None
    /\ length = None
    /\ step = "inject"
    /\ declared = 0 /\ remaining = 0 /\ body = "Preamble" /\ sent = 0
    /\ server = [is |-> "waiting", code |-> 0]
    /\ response = None /\ result = None

Init == image \in Images /\ Unpacked

-----------------------------------------------------------------------------
(* The conversion *)

End(r) == step' = "done" /\ result' = r
Failure(kind) == [is |-> kind, code |-> 0]
Go(s) == step' = s /\ UNCHANGED result

Inject ==
    /\ step = "inject"
    /\ LET injected == InjectInitScript(tree)
       IN \/ /\ injected # None
             /\ tree' = injected /\ written' = written \cup {Script}
             /\ Go("install")
          \/ /\ injected = None
             /\ End(Failure("ImageImport"))
             /\ UNCHANGED <<tree, written>>
    /\ UNCHANGED <<image, owners, length, upload, server, response>>

Install ==
    /\ step = "install"
    /\ LET init == ResolveInRootfs(tree, InitPath)
           installed == IF init = None THEN None ELSE InstallInit(tree, init)
       IN \/ /\ installed # None
             /\ tree' = installed /\ written' = written \cup {init}
             /\ Go("owners")
          \/ /\ installed = None
             /\ End(Failure("ImageImport"))
             /\ UNCHANGED <<tree, written>>
    /\ UNCHANGED <<image, owners, length, upload, server, response>>

WriteOwners ==
    /\ step = "owners"
    /\ owners' = PseudoFile(tree, image.records, Unnameable)
    /\ IF owners' = None THEN End(Failure("ImageImport")) ELSE Go("pack")
    /\ UNCHANGED <<image, tree, written, length, upload, server, response>>

(* mksquashfs, which may fail or take too long *)
Pack ==
    /\ step = "pack"
    /\ \/ length' \in image.lengths /\ Go("metadata")
       \/ End(Failure("ImageImport")) /\ UNCHANGED length
    /\ UNCHANGED <<image, rootfs, upload, server, response>>

(* create_metadata_tar_xz *)
AssembleMetadata ==
    /\ step = "metadata"
    /\ Go("measure") \/ End(Failure("ImageImport"))
    /\ UNCHANGED <<image, rootfs, length, upload, server, response>>

-----------------------------------------------------------------------------
(* The upload *)

(* The file is in a directory of the import's own; still the code counts   *)
(* with one that is cut short, and one that grows would not be noticed.    *)
FileChanges ==
    /\ step \in {"measure", "connect", "send"}
    /\ length' \in {n \in image.lengths : n + 1 = length \/ n = length + 1}
    /\ UNCHANGED <<image, rootfs, step, upload, server, response, result>>

(* create_image_from_split and SplitImageBody::new *)
Measure ==
    /\ step = "measure"
    /\ declared' = length /\ remaining' = length
    /\ Go("connect")
    /\ UNCHANGED <<image, rootfs, length, body, sent, server, response>>

Connect ==
    /\ step = "connect"
    /\ Go("send") \/ End(Failure("Io"))
    /\ UNCHANGED <<image, rootfs, length, upload, server, response>>

Frame(next) == body' = next /\ UNCHANGED <<image, rootfs, length, step, server, response, result>>

SendPreamble ==
    /\ step = "send" /\ body = "Preamble"
    /\ Frame("Rootfs")
    /\ UNCHANGED <<declared, remaining, sent>>

(* Whatever the read returns, at most a chunk and what remains. *)
ReadChunk ==
    /\ step = "send" /\ body = "Rootfs" /\ remaining > 0
    /\ \E n \in 1..Chunk :
        /\ n <= remaining /\ n <= length - sent
        /\ remaining' = remaining - n /\ sent' = sent + n
    /\ Frame("Rootfs")
    /\ UNCHANGED declared

(* Mutant: a file that was cut short ends the part. *)
EndOfFileEnds ==
    /\ step = "send" /\ body = "Rootfs"
    /\ remaining > 0 /\ length <= sent
    /\ Frame("Closing")
    /\ UNCHANGED <<declared, remaining, sent>>

(* The end of the file comes early, or a read fails: the connection breaks. *)
BodyFails ==
    /\ step = "send" /\ body = "Rootfs"
    /\ remaining > 0
    /\ Frame("Broken")
    /\ UNCHANGED <<declared, remaining, sent>>

SendClosing ==
    /\ step = "send"
    /\ body = "Closing" \/ (body = "Rootfs" /\ remaining = 0)
    /\ Frame("Done")
    /\ UNCHANGED <<declared, remaining, sent>>

(* LXD starts an operation on a body that it saw the end of, and refuses   *)
(* at any time; something else may answer in its place.                    *)
LxdTakes ==
    /\ step = "send" /\ server.is = "waiting" /\ body = "Done"
    /\ server' = [server EXCEPT !.is = "operation"]
    /\ response' = [status |-> 202, body |-> [type |-> "async", code |-> 0, metadata |-> TRUE]]
    /\ UNCHANGED <<image, rootfs, length, step, upload, result>>

LxdRefuses ==
    /\ step = "send" /\ server.is = "waiting" /\ body # "Broken"
    /\ response' \in {r \in Responses : Client!IsError(r.body)}
    /\ server' = [is |-> "refused", code |-> response'.body.code]
    /\ UNCHANGED <<image, rootfs, length, step, upload, result>>

ProxyAnswers ==
    /\ step = "send" /\ body # "Broken"
    /\ response' \in {r \in Responses : r.body = None}
    /\ UNCHANGED <<image, rootfs, length, step, upload, server, result>>

(* send_request returns: with a response, or without. *)
Receive ==
    /\ step = "send" /\ response # None
    /\ End(Client!Interpret(response))
    /\ UNCHANGED <<image, rootfs, length, upload, server, response>>

ConnectionFails ==
    /\ step = "send"
    /\ End(Failure("Io"))
    /\ UNCHANGED <<image, rootfs, length, upload, server, response>>

-----------------------------------------------------------------------------
Convert == Inject \/ Install \/ WriteOwners \/ Pack \/ AssembleMetadata
Send == SendPreamble \/ ReadChunk \/ BodyFails \/ SendClosing
Upload == Measure \/ Connect \/ Send \/ Receive \/ ConnectionFails
Environment == FileChanges \/ LxdTakes \/ LxdRefuses \/ ProxyAnswers

Next == Convert \/ Upload \/ Environment

Spec == Init /\ [][Next]_vars

-----------------------------------------------------------------------------
(* An image in which the driver has installed its init goes to LXD. *)
Installed == step \in {"pack", "metadata", "measure", "connect", "send"}

EndsAtScript(walk) ==
    /\ walk.end = None /\ walk.pending = <<>>
    /\ walk.resolved = Script /\ At(tree, Script) = Driver(File)

(* What install_init says, "a sandbox's init is always the script": the    *)
(* kernel's lookup of the init in an image that goes to LXD ends there.    *)
InitIsTheScript == Installed => EndsAtScript(Lookup(tree, InitPath))

(* In an image that goes to LXD, the kernel finds the driver's script and  *)
(* never another init, whatever links the image has; it finds none in      *)
(* three cases: a link goes up out of what is no directory, which the      *)
(* driver resolves and the kernel does not; the init's own link is the one *)
(* too many for the kernel; or sbin leads through the init itself, which   *)
(* is no directory now (inject_init_script, resolve_in_rootfs,             *)
(* install_init).                                                          *)
NoOtherInit ==
    Installed =>
        LET walk == Lookup(tree, InitPath)
        IN \/ EndsAtScript(walk)
           \/ walk.end # None /\ ".." \in ToSet(walk.pending)
           \/ walk.end = "loop" /\ Len(walk.pending) = 1
           \/ walk.end = "missing" /\ walk.resolved = <<>> /\ Head(walk.pending) = Head(Script)

(* Nothing is written through a link of the image: what the driver writes  *)
(* is below the rootfs on the host (inject_init_script, resolve_in_rootfs, *)
(* "its symlinks must never be followed on the host").                     *)
StaysInRootfs ==
    \A path \in written :
        /\ ".." \notin ToSet(path)
        /\ \A n \in 1..(Len(path) - 1) : At(tree, SubSeq(path, 1, n)).kind = "directory"

(* The packed image gives every entry of the image that can have a record  *)
(* the owner that the layers give it, root where they say "unchanged", and *)
(* every entry of the driver's to root; a name with a newline is excepted  *)
(* (decode_rootless_owner, write_ownership_pseudo_file).                   *)
OwnersAreRestored ==
    owners # None =>
        \A path \in DOMAIN tree : ToSet(path) \cap Unnameable = {} =>
            /\ path \in DOMAIN owners
            /\ owners[path] = IF tree[path].by = "driver" \/ tree[path].kind = "link"
                              THEN << 0, 0 >>
                              ELSE [n \in 1..2 |-> IF image.owners[path][n] = MaxId THEN 0
                                                   ELSE image.owners[path][n]]

(* An operation of LXD is on the whole file as it was measured, however    *)
(* the reads went and the file changed; the upload succeeds only if LXD    *)
(* has such an operation; and a refusal of LXD's that is not drowned by    *)
(* another answer is told with its own code, whatever the HTTP status was  *)
(* (SplitImageBody::poll_frame, post_streaming_response).                  *)
UploadIsTrue ==
    /\ server.is = "operation" => sent = declared
    /\ result # None /\ result.is = "ok" => server.is = "operation"
    /\ result # None /\ response # None /\ Client!IsError(response.body) /\ result.is = "Api" =>
            server.is = "refused" /\ result.code = server.code

=============================================================================
