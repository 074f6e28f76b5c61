# Verification of openshell-driver-lxd

TLA+ specifications of `openshell-driver-lxd`, from its start-up to the sandboxes it creates,
watches, reports and deletes, model-checked with TLC on small instances; every safety property
that the passing runs check is also proved with TLAPS for every value of the constants.
`PROJECT.json` lists the components, the runs, the source lines each definition stands for, the
hazards, the findings and the theorems.

## 1. The system

The driver serves OpenShell's `compute_driver.proto` to a gateway over gRPC and realises
sandboxes as LXD containers over LXD's REST API and its WebSocket event stream. It keeps
almost nothing of its own: LXD is the database, and a sandbox is an instance whose
configuration carries the sandbox id. Every RPC is a future on a multi-threaded tokio
runtime; nothing but the locks below orders two of them. tonic drops a handler's future, at
whatever await it stands, when the caller goes away.

| Component | State | Operations | Talks to |
|---|---|---|---|
| Lifecycle lock registry (`driver.rs`) | map from name to `Arc<Mutex<()>>` | clone, lock, remove on delete | settle, stop, delete |
| Lifecycle RPCs (`driver.rs`, `instances.rs`) | none; LXD's instance, its status, the stop marker in its configuration | create, start, stop, delete, `settle_after_start` | LXD operations |
| Volume provisioning and clean-up (`driver.rs`, `storage.rs`, `image.rs`, `gc.rs`) | `volume_use` RwLock, per-digest mutexes, the host's binary cache, LXD's custom volumes | extract, provision, mount, collect | registry, LXD, host files |
| Watcher and `WatchSandboxes` (`watcher.rs`, `grpc.rs`, `events.rs`) | known names and ids, recent events, a broadcast channel of 64 events | list, subscribe, reconcile, publish, deliver | LXD events, gateway |
| Operation wait (`operations.rs`, `events.rs`) | none but its place in the loop | subscribe, look, drain, poll | LXD events and REST |
| gRPC service (`grpc.rs`) | none | RPC entry, `resolve_name` | all of the above |
| Status reporting (`mapping.rs`, `driver.rs`) | `StopSeen` | `ready_condition`, `confirm_runtime_restart` | LXD instance |
| Image cache and conversion (`image.rs`) | per-alias mutexes, LXD's images and aliases, an unpacked rootfs on the host | resolve, convert, upload, bind, undo | registry, external tools, LXD |
| Egress policy (`egress.rs`, `acls.rs`) | LXD's network ACL, shared by all sandboxes of a network | compute rules, reconcile | LXD, DNS |
| Create configuration and placement (`mapping.rs`, `driver.rs`) | none | check a request, map it to config and devices | - |
| DHCP client discovery (`dhcp_client.rs`) | none; the host's files | search, check, read | host files |
| Configuration and start-up (`config.rs`, `main.rs`) | the gateway's socket | parse, validate, bind, question LXD | LXD, host files |
| LXD HTTP client (`client.rs`, `split_image_body.rs`) | trust and identity; how much of a body is sent | connect, interpret a response, stream an upload | LXD |
| Guest init script (`assets/openshell-init.sh`) | inside the sandbox | - | - |

What is hard about it:

- **Interleaving.** Stop, delete and the restarts that settle a start meet on one name; the
  mutex they share is itself created and removed. Clean-up meets creates. DeleteSandbox and
  the watcher publish on one channel.
- **Time.** `wait_operation` is wrapped in a timeout: the handler goes on as after a failure
  while LXD goes on with the operation, which takes effect later.
- **Names.** LXD's API goes by name; the sandbox that has a name may be another one by the
  time a handler acts on it.
- **Events.** The stream breaks; what was in flight is lost; what happened between two
  subscriptions was never sent; a slow gateway lags.
- **Ending.** Handlers wait for LXD with locks held.
- **What others own.** TLS files, DNS, the DHCP client, networks and the ACL change while a create
  is between its reads of them, and several drivers write one ACL.
- **What an image says.** Its symbolic links and owner records decide where the driver writes and
  what the container boots.

What makes each part correct is stated in section 3, next to the runs.

## 2. Modules

| Module | Models | Composition |
|---|---|---|
| `NameMutex` | abstract specification: one mutex per name | implemented by `LifecycleLocks` |
| `LifecycleLocks` | the registry of lifecycle locks | its guarantee is the `lock` of `SandboxLifecycle` |
| `LifecycleLocksProofs` | theorems about it | |
| `SandboxLifecycle` | create, start, stop, delete and settle on one name, against LXD | its timeouts stand around `WaitOperation` |
| `SandboxLifecycleProofs` | theorems about it | |
| `VolumeUse` | supervisor binary, volume, instance; against `collect_garbage` | its `CreateInstance` is where `SandboxLifecycle`'s create begins |
| `VolumeUseProofs` | theorems about it | |
| `Watcher` | the watcher task, the channel, one `WatchSandboxes` stream | its `AnnounceDeletion` follows `SandboxLifecycle`'s `AwaitDelete` |
| `WatcherProofs` | theorems about it | |
| `SandboxStatus` | the reason reported for a sandbox that is down: stop marker, recorded power, `confirm_runtime_restart` | its start and stop are `SandboxLifecycle`'s, cut down to what touches the marker; its event reader is `Watcher`'s |
| `SandboxStatusProofs` | theorems about it | |
| `ImageCache` | `resolve_alias`, `import` with its undo, clean-up of stale images | `VolumeUse`'s `ResolveImage` |
| `ImageCacheProofs` | theorems about it | |
| `WaitOperation` | `LxdClient::wait_operation` and its REST fallback | |
| `WaitOperationProofs` | theorems about it | |
| `DriverOptions` | command line, `Config::validate`, the gateway endpoint | operators used by `NewSandbox` |
| `InstanceConfig` | checks on a request, placement, environment, limits, devices, profiles | operators used by `NewSandbox` |
| `EgressPolicy` | public addresses and the rules of the ACL | operators used by `NewSandbox` |
| `DhcpClient` | search order and static ELF check | operators used by `NewSandbox` |
| `LxdClient` | trust, identity, handshake; how a response becomes a result | operators used by `NewSandbox` and `ImageUpload` |
| `NewSandbox` | start-up, and `create_sandbox` up to the instance that LXD is asked for | its `Provision` stands for `ImageCache` and `VolumeUse`, its last step is where `SandboxLifecycle`'s create begins |
| `GuestRootfs` | links, the init script and owners in an unpacked rootfs | operators used by `ImageUpload` |
| `ImageUpload` | one import: inject, install, owners, pack, then the streaming upload | `ImageCache`'s conversion and `Upload` |
| `SandboxFromImage` | a create and the import it waits for | composes `NewSandbox` (EXTENDS) and `ImageUpload` (INSTANCE) |
| `SandboxFromImageProofs` | theorems about the create (`NewSandbox` and its operators), the import (`GuestRootfs`, `ImageUpload`) and their composition | |
| `MC*` | the finite sets and symmetries of the runs | |

In all of them a handler is a program counter with one label per stretch between two awaits
that another actor can tell apart, and one action per stretch, early returns and error paths
included. An action named `Await...` is the continuation after a `wait_operation`. Operators
marked `Mutant` are plausible mistakes in the definition that follows them; each is there to
show that a property can fail.

### LifecycleLocks

An `Arc` is a heap cell; the strong count is the number of map entries and clones that point
to it. `InstanceLifecycleLock` is one step because the map's own mutex is never held across an
await. Dropping a guard (`Unlock`) and dropping the Arc (`DropArc`) are two steps, as they are
two drops on a multi-threaded runtime. `Unlock` and `Abandon` also stand for a dropped future.
What a handler does under the lock is left to `SandboxLifecycle`.

### SandboxLifecycle

`sandbox`, `status` and `intent` are LXD's instance under the one name, its status and the stop
marker (`KEY_STOP_INTENT`). The id a create is given is unique to the call, so the creating task
stands for it. A request that LXD accepts becomes the task's `job`, which ends at any time with
any outcome; `GiveUp` is the timeout, `Cancel` the dropped future, and both leave the job behind
in `late`, where it may still take effect. `InitExits` and `Freeze` are the instance's own doing
and an administrator's. A request may fail at any time, except that a config patch is refused
only for a missing instance unless `PatchFails`. `expected` is the id that the handler has read
or created, which settle compares; `halted` and `gone` are history.

Abstracted: image, devices, files and placement (everything before `create_instance`, which
is `NewSandbox` and `VolumeUse`), and LXD's transient statuses. An instance the driver does
not manage can have the name at the start only.

### VolumeUse

A volume, a cached binary and a supervisor release are their digest. `volume_use` held shared
is `readers`, held exclusively is clean-up's label; the RwLock is tokio's and fair, so `ReadLock`
waits for a waiting writer. `Lookup` resolves the digest a second time on a miss, as the importer
does, under the lock of the first. `Fail` is any error, timeout or dropped future; it drops every
guard and leaves LXD's operation to finish. A deletion whose reply or wait is lost counts as failed
to clean-up and stays in `deleting`, from where LXD may come to it at any later time
(`LateDeletion`); `torn` is history, the volumes it took so and that were not provisioned since.
`Release` re-tags the supervisor image. Left out: the
DHCP client's volume (the same code under the same lock), the sandbox image, stale images (see `ImageCache`) and
scratch directories.

### Watcher

LXD's events carry a name only; the id in the model's event is history. The watcher's phases are
`run_once`: list, subscribe, list again and reconcile, report the gap, then take events, reading
the instance in one step and publishing in a later one. `Send` is tokio's broadcast channel: full,
it forgets its oldest event, and the receiver gets an error for it. `view` is what the stream has
told the gateway of each sandbox. A name is given out again at any time. Two history variables
say where the code falls short of its comments: `missed` has the sandboxes whose last change escaped
the watcher (its event was lost with the stream or fell into the time without one, or the read it
caused failed) until they are noticed or listed again; `mixed` has those that got a name of which
the watcher, its feed or a listing still held another owner. A snapshot is abstracted to up or down. Left out: the filter
of repeated events and events of actions that are not watched.

### SandboxStatus

One sandbox, which keeps its name, and an LXD that may shut down and come back. `power` is
`volatile.last_state.power`, `intent` the stop marker. LXD records a stop some time after the
status says Stopped (`FinishStop`), except when it stops the instance with itself: telling the two
apart is what the driver's second read is for. `GetSandbox` stands for ListSandboxes too, which
does the same for each sandbox with one wait for all. Its second read (`ConfirmRuntimeRestart`)
assumes what `RUNTIME_RESTART_SETTLE` is chosen for: the wait outlasts LXD's finishing of the
stop that was seen. A stop that comes after it may still be unfinished. An LXD that shuts down
finishes the stops it has carried out. A StopSandbox reads (`StopRead`), sets the marker
(`StopMark`, best-effort) and asks for the stop in three steps, between which the sandbox may exit
or be started. `cause`, `wanted` and `stops` are history, and travel with a read
so that a report can be compared with what was true when it was read. Left out: messages,
identity fields, the graceful stop before the forced one, and the restarts that settle a start.

### ImageCache

Tasks are creates, each in a driver process; processes share LXD's project and no lock. `home` and
`revision` give each task its process and each process its conversion revision, and never change.
An alias is a revision and a digest. The metadata of an upload holds its time and alias, so no
two uploads have a fingerprint in common, and an image is the task that uploaded it; `Legacy` is
one that was there before. Who holds an alias's lock is read off the labels. An upload and a
deletion are LXD's operations, and end at any time, also after the task has given up on them.
`Bind` may fail although LXD has bound the alias. `cut` is history: the tasks whose import was
left to itself by a deadline, a dropped request or a failing undo. The conversion by skopeo, umoci
and mksquashfs is one step that may fail; clean-up runs once per process.

### WaitOperation

One operation, an event stream that may break and lose what is in flight, REST requests that fail,
and an LXD that forgets a finished operation after a while. `Reconcile` is used at the three places
where the code asks for the status; a transport error counts as pending there, and `blind` is
history, that the look after the last subscription met one. Malformed frames,
events of other operations and the description of a failure are left out, as is an operation that
reports an error text while it runs.

### NewSandbox and its operators

`given` is the scenario: the drivers' command lines, the requests, and what LXD and the host hold
at first. It never changes. A driver goes through the steps of `main` (`phase`); a create through
those of `create_sandbox` (`task[t].pc`), one step per request to LXD or read of the host, since
each is an await. `acl` is the egress ACL of the project's network, with the gateway it was written
for as history; a PUT is an operation of LXD's that ends on its own (`job`), a POST takes the name
at once. A create whose wait for the PUT fails, or is dropped, leaves it to LXD, which may still
carry it out. The operator rotates TLS files, changes DNS, edits or deletes the ACL, replaces the DHCP
client and removes networks, whichever of these a scenario lists (`changing`). `swept`, `changed`
and `swapped` are history, and name what others did between two steps of a create.
`ScenariosAssumption` says what a scenario is: a driver that serves at the start has passed its
checks (`Admitted`), hosts and ports are what the parsers make of them (`HostIs`), and no ACL that
is there at the start claims to be for a gateway.

- `DriverOptions`: a command line is the set of flags that were given, and the values of the ones
  that matter; a URL is a record of its parts. `Parse`, `Validate` and `ResolveGatewayEndpoint`
  keep every refusal of the code.
- `InstanceConfig`: an environment maps a variable to who set it and to its value; the driver's
  variables are set last, so they override those of the request (`DriverSets`).
- `EgressPolicy`: addresses are `0..Size[Width] - 1`, where `Size[k]` is the k-th power of two;
  `Subtract` and `Blocks` are the code's interval arithmetic, with sets of spans and blocks where
  the code has lists; `Promised` is the definition they are compared with, `Reachable` what LXD
  makes of the rules.
- `DhcpClient`: a file has the fields of an ELF header and a table of program headers; offsets
  count words of which only `ReadLimit` are read.
- `LxdClient`: the options choose the trust (fingerprint, pinned certificate, CA, public roots)
  and the identity; `Connects` is the handshake; `Interpret` turns a status, a body and an envelope
  into a result.

Left out: the syntax of quantities and URLs, descriptive keys, the wording of errors.

### GuestRootfs, ImageUpload and SandboxFromImage

A rootfs maps paths (sequences of names) to directories, files and links. `ResolveInRootfs` is the
driver's walk, `Lookup` the kernel's (external), as the container makes it: `InitIsTheScript`
and `NoOtherInit` compare the two. Both are recursive functions over the number of turns of the loop; `WalkSteps`
turns are enough, since a link adds at most `MaxTarget` components and at most `MaxHops` are
followed. `written` records where the driver wrote on the host. An owner record is a sequence of
bytes with varint fields, read field by field as `decode_rootless_owner` does; an id has 15 bits
and may take three bytes (`MaxId`, `Groups`) where the code has 32 bits and six bytes. The upload is the state machine of
`SplitImageBody` (`body`, `declared`, `remaining`) against a server that may answer, refuse or
break at any frame and a file that may shrink while it is read. skopeo, umoci, mksquashfs and tar
are steps that may fail. `SandboxFromImage` lets the import run while a create stands at its
provisioning, which ends only with the import's result.

## 3. Runs

| Run | Bounds | Checks |
|---|---|---|
| `lifecycle_locks` | 3 tasks, 2 names, 4 cells | `MutualExclusion`, `ClonesAreCurrent`, and that the registry implements `NameMutex` |
| `lifecycle` | 2 RPCs of any kind, 2 settle attempts | `MarkedStopStands`, `DeletedIsGone`, `ForeignUntouched`, `MarkerHasAuthor`, `EveryRpcEnds` |
| `watcher` | 2 names, 2 ids, channel of 2, 5 changes, 1 broken stream, failing reads | `CatchesUp`, `ToldDeletedAreGone` |
| `volume_use` | 2 creates, 2 digests, 1 release, 1 collection | `VolumeStays`, `EveryCreateEnds` |
| `sandbox_status` | the sandbox goes down twice | `RestartIsConfirmed`, `RuntimeStopsAreTold`, `RequestedStopsAreTold` |
| `image_cache` | 2 creates, 2 processes, 2 revisions, 1 digest, an image imported earlier | `ResolvedStays`, `ImportsAreNeeded`, `NothingIsLeftBehind`, `EveryResolveEnds` |
| `wait_operation` | 3 faults, 2 queued progress events | `AnswersAreTrue`, `AnsweredUnlessStranded` |
| `sandbox_from_image` | 2 drivers, 2 creates, the scenarios and images of `MCSandboxFromImage`; 2 changes by the operator; 8 addresses; 6 words of a file read; 2 link hops, targets of up to 3 components; chunks of 2, files of 0 to 5 | `PeersAreTrusted`, `EgressIsConfined`, `GatewayIsAllowed`, `RacesEndWell`, `DhcpClientIsStatic`, `NoOtherInit`, `StaysInRootfs`, `OwnersAreRestored`, `UploadIsTrue` |

Each also checks its module's `TypeOK`.

- **lifecycle_locks.** Two lifecycle operations never work on one name at once, although the
  mutex they share is replaced when a delete removes the entry. Three tasks are one deleting, one
  waiting and one arriving; a second name lets a freed cell be used for another; four cells leave
  one for each task and one more. The system never stops, and deadlock is checked.
- **lifecycle.** After an acknowledged stop that set the marker, no settling start brings the
  sandbox up; what was reported deleted does not come back, whatever late operations do; an
  instance that the driver does not manage is not touched; and a marker was set by a stop that
  did not fail; and every RPC is answered. Two RPCs are a start or create that settles and the
  stop or delete it races; two attempts make the settle loop take its guard twice. `ThreeRpcs.cfg`
  is the same without liveness and with one attempt for three RPCs, the third of which changes the
  name's owner (1 759 400 states up to symmetry, no error); the theorems hold for any number.
- **watcher.** Once nothing is under way, the gateway has been told the latest state of every
  sandbox but those in `missed` and `mixed`, and a sandbox that it was told is deleted does not
  exist unless it is in `mixed`. The exceptions are as narrow as the code allows, and what they
  leave out is shown by `LastSnapshotIsLatest.cfg` and by a finding, `deleted_are_gone`: what remains
  is that a channel that overflows, a gateway that reconnects, a deletion in the time without a
  stream and an event overtaken by a newer state cost nothing. A channel of two overflows within
  five changes, which are enough to delete a sandbox, give its name to another and change that one;
  one broken stream gives two subscriptions, so that reconciliation has something to compare.
- **volume_use.** No provisioned volume disappears before the instance that mounts it exists, but
  by a deletion that LXD ends late, and clean-up, creates and volume locks never wait in a circle.
  Two digests are the current and the previous release; two creates can share a digest or differ.
  What a late deletion and clean-up of the host's cache can take is shown by
  `CleanupSparesVolumes.cfg` and `BinaryStays.cfg`.
- **sandbox_status.** A stop by LXD is told as such and not as an exit; an exit or a requested
  stop is told as a stop by LXD only if the second read failed or saw a later stop; from when
  its marker is set, while the sandbox goes down and after the stop was acknowledged, a requested
  stop is told as one until a StartSandbox is made or the stop fails. Going down twice lets a second
  stop, of any kind, come while the driver waits to confirm the first.
- **image_cache.** A resolved alias names an image until the instance is created, whatever
  another process undoes or collects, unless that process is of a newer revision; a process
  imports only what is missing; an import that is not cut off leaves nothing unnamed; every
  resolution ends. The run covers every way to spread two creates over two processes of two
  revisions: one lock or none in common, one alias or two. A second digest would be a second
  lock and a second alias that nothing shares with the first.
- **wait_operation.** The answer is true and comes once the operation is over, unless the wait is
  stranded for good: the look right after a subscription met a transport error, which
  `reconcile_operation` counts as pending, and the wait drains a stream on which the end was
  announced before it began (a finding, `finished_is_answered`). Three faults
  are enough to break a stream, fail the look after it and fail once more in the fallback.
- **sandbox_from_image.** A driver that serves has reached the LXD that its options name (the
  certificate of the fingerprint or the file, or the URL's name and an issuer of the CA file that
  was given, or a public one where none was), and a sandbox is sent to its driver's endpoint, in plaintext only if that was allowed
  (`PeersAreTrusted`); restricted sandboxes reach their gateway and public addresses and nothing
  else (`EgressIsConfined`), from the moment they exist until somebody else changes the ACL
  (`GatewayIsAllowed`); creates that race for the ACL do not make each other fail
  (`RacesEndWell`); the DHCP client needs no interpreter (`DhcpClientIsStatic`); the container
  boots the driver's script or finds no init, and never another one (`NoOtherInit`), the driver writes nowhere else on the host
  (`StaysInRootfs`), files keep their owners (`OwnersAreRestored`), and LXD works on whole files
  only (`UploadIsTrue`). The scenarios differ in one concern each: options and trust, start-up of
  two drivers on one socket, restricted egress with two creates and an operator, DHCP clients,
  TLS rotation, and an import. Two changes let the operator undo what a create
  saw and then what it wrote. Eight addresses have ranges at both ends, adjacent and nested, and
  every alignment; six words put a header table before, across and after the limit; two hops
  against a kernel limit of two give the chain at the limit, past it and looping; targets of three
  go up, down and through the script or the init itself; a file of five in
  chunks of two ends in a whole and in a part chunk. The two creates are not symmetric (they belong
  to different drivers), so no symmetry is used.

The runs of all modules but `LifecycleLocks` do not check deadlock:
their RPCs, changes, stops and faults are finite, so a behaviour ends when all of them are used up.
Symmetry (tasks, names, cells, ids) is used in safety runs only.

**Fairness.** `SandboxLifecycle`: the runtime keeps polling each handler and fires its timeouts, and LXD
answers requests; it need never finish an operation, nor need an init exit. `VolumeUse`: the runtime
polls each task and LXD ends each operation it accepted, because the waits for a volume have no
deadline; an error the code is bound to meet (a binary or a volume that is not there) is met.
`ImageCache`: the runtime polls each create, whose waits have deadlines; LXD need not end an
operation. `WaitOperation`: the runtime polls the wait; LXD need not finish the operation.

### Findings

Four runs check what a comment, a test or the documentation says, and find that the code does
otherwise. `PROJECT.json` quotes the lines.

| Run | What the code does |
|---|---|
| `stop_stands` | StopSandbox on a sandbox that is down answers without a marker; a start that is still settling then restarts it. |
| `deleted_are_gone` | Events name an instance and not a sandbox; a name given to a second sandbox before the listing after the subscription makes the first one's queued deletion that of the second, which lives. |
| `finished_is_answered` | A transport error of the look after the subscription counts as pending; nothing retries, and the wait drains a stream on which no event will come until it breaks or the caller's deadline fires. |
| `init_is_the_script` | The driver and the kernel follow links differently in three cases: `..` out of what is no directory; the init's own link after as many as the kernel follows; and a `sbin` that leads through the init, which the driver has replaced. The kernel then finds no init, and the image is uploaded all the same. |

Five more claims fail in the same way. They are not among the runs of `PROJECT.json`, whose number
is kept small, but each has a configuration of the name of its property:
`tlc -config BinaryStays.cfg MCVolumeUse`, and likewise with the other modules.

| Property | Claim | What the code does |
|---|---|---|
| `LastSnapshotIsLatest` (`MCWatcher`) | `grpc.rs:276-279`: "Every LXD state change publishes its own event, so the last snapshot a watcher receives for a sandbox is always its latest state." | A change whose event is lost with LXD's stream, that falls into the time without one, or whose read fails, is not published: after a new subscription only deletions are. A gateway that stays connected keeps the older state. |
| `NoSnapshotAfterDeletion` (`MCWatcher`) | `grpc.rs:40`: an exit snapshot is never delivered after a deletion | DeleteSandbox publishes between the watcher's read of the instance and its publication; a snapshot follows the deletion. |
| `BinaryStays` (`MCVolumeUse`) | `gc.rs:12`: "The collector only removes what nothing can still use" | Clean-up of the host's cache runs with a digest resolved before it waited for `volume_use`, and after dropping it: once the image is re-tagged, it removes a binary that a create has resolved and not read. |
| `CleanupSparesVolumes` (`MCVolumeUse`) | `driver.rs:71-73`: held "exclusively by clean-up, which would otherwise see those volumes unused and remove them" | A DELETE that clean-up has given up on (`storage.rs:59-65`) takes effect after `volume_use` was dropped, and takes a volume that a create found in place. |
| `CleanupIsOwn` (`MCSandboxLifecycle`) | `tests/driver_lxd/lifecycle.rs:663`: "Creating over an existing sandbox must fail without touching it." | The clean-up of a failed create (`driver.rs:594`) goes by name, without lock or id, and can delete the sandbox of a later create. |

Behaviour that the runs except, because nothing in the repository promises otherwise:

- A start that was given up on and that LXD carries out after a stop was acknowledged
  (`MarkedStopStands` speaks of settling restarts).
- The ACL is shared: a driver with another endpoint, or a create with an older DNS answer, replaces
  the rules of sandboxes that run (`changed` in `GatewayIsAllowed`).
- A DHCP client that is replaced between its check and its read is mounted unchecked (`swapped`).
- The three TLS files are read one by one, and may be of two generations.
- A driver that starts removes the socket of one that serves, and may exit in a later check.

## 4. Proofs

The theorems hold for every value of the constants that satisfies the modules' assumptions, which
TLC evaluates in the runs. Where a theorem needs more, it says so as a hypothesis of its own:

- `PatchFails = FALSE` (only `MarkersAreAuthored`): LXD refuses a config patch only for a missing
  instance. Without it a marker may outlive the stop that failed to take it back.
- `NoneIsApart` (`SandboxFromImageProofs`): the value for what is absent is none of the answers and
  results, and no function; TLC's model value is such a value.
- `\A i \in Images : Recorded(i)` (only `OwnersAreRestoredAlways`): the records of an image are
  those that umoci makes: a field for each id that is not 0, in base 128, and none on a link.

Each inductive invariant was first checked by TLC as an invariant of the corresponding run.

- **LifecycleLocksProofs** (from `LocksAssumption`: finitely many tasks and names; finiteness gives
  the strong count its meaning). `MutualExclusion` is not inductive: a clone that outlived its map
  entry would break it a step later. `LocksInv` adds that a non-idle task holds a clone for a name,
  that a mutex is owned by exactly the task whose guard lives, that a cell serves one name, and
  `ClonesAreCurrent`. The key lemma, `LastUserIsAlone`, is what `strong_count <= 2` means: map
  and deleting task account for both references, so nobody else has one. Theorems:
  `LocksTypeCorrect`, `ClonesStayCurrent`, `LocksExclude`, and `LocksImplementMutex`, the refinement
  of `NameMutex`.
- **SandboxLifecycleProofs** (from `LifecycleAssumption`; any number of RPCs and of settle attempts).
  `LifeInv` (checked with three RPCs and `PatchFails = TRUE`, 1 959 229 states) is one invariant for
  three promises. For `DeletedIsGone`: a creation is asked for once, by the task whose id it is
  (`CreatedOnce`), so an id whose creation has ended is never used again (`IdsAreSpent`), and a
  deletion that LXD has finished leaves the sandbox that DeleteSandbox read gone, even if it deleted
  another (`DeletionIsOfExpected`). For `MarkedStopStands`: whoever stands under the lock holds it
  (`LockIsHeld`), and an acknowledged, marked stop keeps its marker while no start of that sandbox is
  with LXD or about to be asked for (`StopIsKept`). For `ForeignUntouched`: no handler is let near a
  foreign instance (`ForeignIsLeft`). `MarkerInv` adds who set the marker. Theorems:
  `LifecycleTyped`, `MarkedStopHolds`, `DeletionIsFinal`, `ForeignIsUntouched`,
  `MarkersAreAuthored`.
- **WatcherProofs** (from the module's assumptions; any channel, any number of names, changes and
  broken streams, names given out again). `WatcherInv` (2 290 439 states, with `CaughtUpInv`) says that
  a name stands for one owner in LXD, in its events and in what the watcher holds, unless the owners
  are `mixed` (`OneOwner`), and that what is told deleted, or about to be, is gone or mixed
  (`DeletionsAreTrue`). `CaughtUpInv` says for each sandbox that is neither missed nor mixed that
  the gateway will have the right word once the channel is drained, or that the watcher owes it the
  state or the deletion (`Informed`), and that a snapshot which is out of date is followed by another
  event (`SnapshotIsFollowed`). Theorems: `WatcherTyped`, `DeletionsToldAreTrue`, `GatewayCatchesUp`.
- **VolumeUseProofs** (from `VolumeAssumption`; the sets may be infinite). `VolumeStays` needs that
  clean-up deletes with `volume_use` to itself (`CollectsAlone`), that a create past its resolution
  has a digest (`DigestsAreKnown`) and that only the two waits have an operation pending
  (`JobsAreAwaited`). Theorems: `VolumeTypeCorrect`,
  `ProvisionedVolumesStay`.
- **ImageCacheProofs** (from `ImageAssumption`; any number of creates, processes, revisions and
  digests). `CacheInv` (270 594 states) adds that a process's lock excludes (`LocksExclude`), that an
  image is named only by its own task's alias (`NamedByOwner`), that whoever may still have to
  bind or to undo an image is at work on it (`UnnamedIsPursued`), and that clean-up has listed only
  what older revisions name (`DoomedAreOld`, `DyingAreOld`). Theorems: `CacheTyped`,
  `ResolvedImageStays`, `OneImportPerProcess`, `UndoIsComplete`.
- **WaitOperationProofs** (from `WaitAssumption`). `AnswersAreTrue` needs that an unread event tells
  the truth about the operation, which has one end, and that the fetch after a success event is
  of a success (`EventsAreTrue`). Theorems: `WaitTypeCorrect`, `WaitAnswersTruly`.
- **SandboxStatusProofs** (from `StatusAssumption`). The strengthening `StatusInv` says that LXD
  keeps the power RUNNING while the instance is up and after it stopped it with itself
  (`RunningIsRecorded`), that the marker stands from before the stop is asked for until a start or
  a failure (`MarkerIsKept`), and that a driver waiting for its second read has first read a
  sandbox without a marked stop (`SleepsOnARestart`), which it reports if that read fails.
  `ReasonsMean` says what each reason implies. Theorems: `StatusTypeCorrect`,
  `RestartsAreConfirmed`, `RuntimeStopsTold`, `RequestedStopsTold`.
- **SandboxFromImageProofs** (from `ScenariosAssumption`, `ImportAssumption`, `ImagesAssumption`; any
  drivers, creates, scenarios, images, widths, limits and chunks). Its invariants were checked over
  the 332 975 states of the run.
  - *The create.* `CreateInv` adds to `RacesEndWell` that whoever is about to PUT the ACL has seen
    one, which only the operator can have removed (`AclStays`); and to `DhcpClientIsStatic` that what
    was checked is what is read, and what was read is what is mounted, unless it was replaced
    (`ClientStays`). `PromiseInv` says what a driver has found out at each phase (`PhasesAreEarned`),
    what a create has found out at each step (`TasksFit`), and that a create past its wait left the
    ACL right unless others have changed it since, while a write under way is that of a create that
    waits for it or has given it up (`AclInv`). Theorems: `AclRacesEndWell`,
    `DhcpClientsAreStatic`, `PeersAreTrustedAlways`, `ConfinementHolds`, `GatewaysAreAllowed`.
  - *The public addresses.* `CidrsAreComplement`: whatever the width and the ranges, the blocks that
    `public_ipv4_cidrs` computes are aligned and have exactly the addresses that are in no range.
    `ConfinementHolds` rests on it.
  - *The rootfs.* `RootfsInv`: every entry is in a directory, and the driver has written only to paths
    on which nothing is a link, since a walk keeps to what it has looked at (`Rooted`). Theorem:
    `WritesStayInRootfs`.
  - *The init.* `NoInitButTheScript` simulates the kernel's lookup of `/sbin/init` in the
    finished tree by the driver's walk in the tree before: as long as the driver goes on, the kernel
    stands at the same place with `init` still to come (`Beside`), and when the driver is done the
    kernel meets the link and then the script (`AtScript`, `Found`). Where the two part, the lookup
    ends at nothing, in one of the three excepted cases (`NotFound`). `DriverWalkEnds` shows that
    `WalkSteps` turns are enough. `ScriptInv` carries this through the steps of the import.
  - *The owners.* `RecordIsDecoded`: what `decode_rootless_owner` reads from a record of umoci's is
    the owner that was recorded, with root for "unchanged", for ids of any size. `OwnersInv` says
    that an entry is the driver's or the image's as it was, and that the pseudo file is that of the
    tree. Theorem: `OwnersAreRestoredAlways`.
  - *The upload.* `UploadInv`: what was sent and what remains add up to the declared length, which
    was the file's (`BodyCounts`, `FileIsPacked`), and a response and the result derived from it
    say what the server did (`ResponseIsTrue`, `ResultIsTrue`). Theorem: `UploadsAreTrue`.
  - *Both.* The composition implements the create alone (`JointImplementsCreate`) and the import alone
    (`JointImplementsImport`) by the way it is put together, so the theorems about either hold of it (`JointPromises`, `JointTyped`).

Induction over data is done by hand: a recursive operator of these modules is a recursive function
over a number of turns, and `Induction` is the least-element principle for a set of numbers,
from the library's `NatLessThanWellFounded`. Each such function has a lemma that says that it exists
(`SizeDefined`, `SpansDefined`, `BlocksDefined`, `ResolvingDefined`, `LookupDefined`,
`VarintDefined`, `ReadDefined`), since a recursive definition is a CHOOSE to the prover.

Only model-checked: the liveness properties (`EveryRpcEnds`, `EveryCreateEnds`,
`EveryResolveEnds`, `AnsweredUnlessStranded`), since liveness under fairness is out of TLAPS's reach;
and what section 3 shows to fail. That umoci makes records as `Recorded` says is an
assumption about an external program.

## 5. Not modelled

- `resolve_name`, `RecentEvents` and the guest files pushed after the creation: planned below.
- skopeo, umoci, mksquashfs, tar: external programs; each is a step that may fail.
- HTTP framing, sockets, JSON, URL and quantity syntax, metadata.yaml, log and error texts.
- Generated protocol code.
- The guest init script: it runs outside the driver; its exit is `InitExits`.

## 6. Plan

In order of importance:

1. `SandboxLifecycle`: `resolve_name` as a step before each RPC (an id resolved to a name that
   belongs to another sandbox by the time it is used), and a run with `PatchFails = TRUE`.
   `LifeInv` holds there already; what a lost marker allows is a hazard without a property.
2. Proved action properties where the runs check invariants: that a marker is taken back only by a
   start or by its own stop, and that a deletion is of the instance that was read or of a later one
   of its name.
3. `Watcher`: `RecentEvents` against an LXD that repeats events.
4. `VolumeUse`: the DHCP client's volume, and the run in which LXD never ends an operation.
5. `SandboxLifecycle`: the guest files that `start_sandbox` writes anew, against a rotation.
