---------------------------- MODULE GuestRootfs ----------------------------
(***************************************************************************)
(* What the driver does to an unpacked image before it is packed again:    *)
(* the init script and the link that makes it the container's init, and    *)
(* the owners that a rootless unpack only records.  The tree comes from an *)
(* arbitrary image, so its symbolic links must not be followed on the      *)
(* host.  Pure operators; ImageUpload uses them.                           *)
(*                                                                         *)
(* A path is a sequence of names below the rootfs; a tree is a function    *)
(* from the paths that exist to what is there.  Fields that an entry does  *)
(* not need are None.                                                      *)
(***************************************************************************)
EXTENDS Naturals, Sequences, SequencesExt, FiniteSetsExt

CONSTANTS
    None,       \* no value
    MaxHops,    \* links that a lookup follows, in the driver and in the kernel: 40
    MaxTarget,  \* bound: components that the target of a link has
    MaxId,      \* the largest owner id, which means "unchanged": 2^32 - 1 in the code
    Groups      \* bytes that an id may take: 6 in the code

Entry(kind) == [kind |-> kind, absolute |-> FALSE, target |-> <<>>, by |-> "image"]
Directory == Entry("directory")
File == Entry("file")
Link(absolute, target) == [Entry("link") EXCEPT !.absolute = absolute, !.target = target]

Script == << "openshell-init.sh" >>     \* GUEST_INIT_SCRIPT_PATH
InitPath == << "sbin", "init" >>           \* GUEST_INIT_PATH

At(tree, path) ==
    IF path = <<>> THEN Directory
    ELSE IF path \in DOMAIN tree THEN tree[path] ELSE Entry("nothing")

Put(tree, path, entry) ==
    [p \in DOMAIN tree \cup {path} |-> IF p = path THEN entry ELSE tree[p]]

Up(path) == IF path = <<>> THEN path ELSE Front(path)

-----------------------------------------------------------------------------
(* Following links *)

From(path) == [pending |-> path, resolved |-> <<>>, hops |-> 0, end |-> None]

(* A link is replaced by its target; an absolute one starts at the rootfs. *)
Follow(walk, link, rest) ==
    [walk EXCEPT !.hops = @ + 1, !.pending = link.target \o rest,
                 !.resolved = IF link.absolute THEN <<>> ELSE @]

(* One turn of resolve_in_rootfs' loop: what is not a link is taken as it  *)
(* is, also when it is not there.                                          *)
ResolveStep(tree, walk) ==
    LET part == Head(walk.pending)
        rest == Tail(walk.pending)
        here == Append(walk.resolved, part)
    IN CASE part = ".." -> [walk EXCEPT !.pending = rest, !.resolved = Up(@)]
         [] part # ".." /\ At(tree, here).kind = "link" -> Follow(walk, At(tree, here), rest)
         [] OTHER -> [walk EXCEPT !.pending = rest, !.resolved = here]

(* A walk ends when nothing is pending or a link is one too many; no link  *)
(* adds more than MaxTarget components, so that this many steps do.        *)
WalkSteps == 3 + MaxHops * MaxTarget

(* resolve_in_rootfs' loop *)
Resolving(tree, path) ==
    LET walk[n \in 0..WalkSteps] ==
            IF n = 0 THEN From(path)
            ELSE LET w == walk[n - 1]
                 IN IF w.pending = <<>> \/ w.hops > MaxHops THEN w ELSE ResolveStep(tree, w)
    IN walk[WalkSteps]

(* Mutant: the directories are taken as the path names them. *)
ResolveAsNamed(tree, path) == path

(* resolve_in_rootfs: the last component is not followed. *)
ResolveInRootfs(tree, path) ==
    LET walk == Resolving(tree, Front(path))
    IN IF walk.hops > MaxHops THEN None ELSE Append(walk.resolved, Last(path))

(* The kernel's lookup in the container, which follows the last component. *)
LookupStep(tree, walk) ==
    LET part == Head(walk.pending)
        rest == Tail(walk.pending)
        here == Append(walk.resolved, part)
    IN CASE part = ".." -> [walk EXCEPT !.pending = rest, !.resolved = Up(@)]
         [] part # ".." /\ At(tree, here).kind = "nothing" -> [walk EXCEPT !.end = "missing"]
         [] part # ".." /\ At(tree, here).kind = "file" /\ rest # <<>> ->
                [walk EXCEPT !.end = "missing"]
         [] part # ".." /\ At(tree, here).kind = "link" ->
                IF walk.hops = MaxHops THEN [walk EXCEPT !.end = "loop"]
                ELSE Follow(walk, At(tree, here), rest)
         [] OTHER -> [walk EXCEPT !.pending = rest, !.resolved = here]

Lookup(tree, path) ==
    LET walk[n \in 0..WalkSteps] ==
            IF n = 0 THEN From(path)
            ELSE LET w == walk[n - 1]
                 IN IF w.pending = <<>> \/ w.end # None THEN w ELSE LookupStep(tree, w)
    IN walk[WalkSteps]

-----------------------------------------------------------------------------
(* The init *)

Driver(entry) == [entry EXCEPT !.by = "driver"]

(* inject_init_script: whatever is at the path is removed and not followed. *)
(* None if a directory is there.                                           *)
InjectInitScript(tree) ==
    IF At(tree, Script).kind = "directory" THEN None ELSE Put(tree, Script, Driver(File))

(* create_dir_all, which fails on a file. *)
CreateDirAll(tree, path) ==
    LET prefixes == {SubSeq(path, 1, n) : n \in 1..Len(path)}
    IN IF \E p \in prefixes : At(tree, p).kind = "file" THEN None
       ELSE [p \in DOMAIN tree \cup prefixes |->
                IF p \in DOMAIN tree THEN tree[p] ELSE Driver(Directory)]

(* Mutant: the link to the script is relative. *)
InstallRelative(tree, init) ==
    LET made == CreateDirAll(tree, Front(init))
    IN IF made = None THEN None
       ELSE IF At(made, init).kind = "directory" THEN None
       ELSE Put(made, init, Driver(Link(FALSE, Script)))

(* install_init at the resolved path: a link to the script in place of     *)
(* whatever init there was.                                                *)
InstallInit(tree, init) ==
    LET made == CreateDirAll(tree, Front(init))
    IN IF made = None THEN None
       ELSE IF At(made, init).kind = "directory" THEN None
       ELSE Put(made, init, Driver(Link(TRUE, Script)))

-----------------------------------------------------------------------------
(* The owners *)

(* decode_rootless_owner reads a message of varint fields: a key, whose    *)
(* low three bits say that a varint follows, and the varint, seven bits    *)
(* in a byte, the lowest first.                                            *)
VarintLength(bytes, from) ==
    LET ends == {n \in 1..(Len(bytes) - from + 1) : bytes[from + n - 1] < 128}
    IN IF ends = {} THEN 0 ELSE Min(ends)

Varint(bytes, from, length) ==
    LET value[n \in 0..length] ==       \* of the last n bytes
            IF n = 0 THEN 0 ELSE 128 * value[n - 1] + (bytes[from + length - n] % 128)
    IN value[length]

(* Mutant: the "unchanged" id is taken for an owner. *)
IdAsIs(id) == id

Id(id) == IF id = MaxId THEN 0 ELSE id

(* One field: the owner is None when it is malformed, or too large for an id. *)
ReadField(bytes, read) ==
    LET from == read.at + 1
        length == VarintLength(bytes, from)
        value == Varint(bytes, from, length)
    IN IF bytes[read.at] % 8 # 0 \/ length \notin 1..Groups \/ value > MaxId
       THEN [read EXCEPT !.owner = None]
       ELSE [at |-> from + length,
             owner |-> [n \in 1..2 |-> IF n = bytes[read.at] \div 8 THEN Id(value) ELSE read.owner[n]]]

(* The later of two fields of a kind wins; an id without a field is root's. *)
DecodeRootlessOwner(bytes) ==
    LET read[n \in 0..Len(bytes)] ==
            IF n = 0 THEN [at |-> 1, owner |-> << 0, 0 >>]
            ELSE LET r == read[n - 1]
                 IN IF r.at > Len(bytes) \/ r.owner = None THEN r ELSE ReadField(bytes, r)
    IN read[Len(bytes)].owner

(* The definitions of write_ownership_pseudo_file: an owner for every      *)
(* entry that the format can name, root's without a record; None when a    *)
(* record is malformed.                                                    *)
PseudoFile(tree, records, unnameable) ==
    LET owner(path) == IF path \in DOMAIN records /\ At(tree, path).by = "image"
                       THEN DecodeRootlessOwner(records[path]) ELSE << 0, 0 >>
        named == {p \in DOMAIN tree : ToSet(p) \cap unnameable = {}}
    IN IF \E p \in named : owner(p) = None THEN None
       ELSE [p \in named |-> owner(p)]

=============================================================================
