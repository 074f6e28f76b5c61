------------------------------ MODULE Watcher ------------------------------
(***************************************************************************)
(* How the gateway learns what happens to sandboxes: LXD's lifecycle       *)
(* events, the driver's watcher task that turns them into snapshots and    *)
(* deletions, the broadcast channel the watcher shares with DeleteSandbox, *)
(* and a WatchSandboxes stream that lists and then follows the channel.    *)
(*                                                                         *)
(* A sandbox is up or down; what else a snapshot says is left out, and so  *)
(* is the watcher's filter for events that a clustered LXD delivers twice. *)
(***************************************************************************)
EXTENDS Naturals, Sequences

CONSTANTS
    Names,      \* instance names
    Ids,        \* sandbox ids; each is given to one instance only
    NoId,       \* no instance, or a name the watcher knows no id for
    Unmanaged,  \* the id of an instance the driver does not manage
    Capacity,   \* of the broadcast channel
    MaxEvents,  \* bound: how often LXD's instances change
    MaxGaps     \* bound: how often the event stream breaks

ASSUME WatcherAssumption ==
    /\ NoId \notin Ids /\ Unmanaged \notin Ids /\ NoId # Unmanaged
    /\ Capacity \in Nat \ {0}
    /\ MaxEvents \in Nat /\ MaxGaps \in Nat

Owners == Ids \cup {Unmanaged}
Instances == [id : Owners \cup {NoId}, up : BOOLEAN]
NoInstance == [id |-> NoId, up |-> FALSE]

(* The id is history: LXD's events name the instance only. *)
LxdEvents == [action : {"changed", "deleted"}, name : Names, id : Owners]
WatchEvents == [kind : {"up", "down", "deleted"}, id : Ids]

VARIABLES
    inst,     \* name -> the LXD instance that has it
    minted,   \* ids given out so far
    changes,  \* number of changes LXD has made
    feed,     \* events sent on the watcher's subscription, not yet taken
    phase,    \* where the watcher task is
    known,    \* name -> sandbox id, known_sandbox_ids
    pre,      \* name -> sandbox id, the listing before the subscription
    gap,      \* ids found deleted while the watcher was not subscribed
    event,    \* the name in the event the watcher is handling
    snapshot, \* the instance the watcher has read for it
    gaps,     \* number of times the event stream broke
    unsaid,   \* ids that DeleteSandbox has deleted and not yet announced
    stream,   \* the gateway's WatchSandboxes call: off, subscribed or live
    queue,    \* events the channel holds for it
    lagged,   \* whether the channel has dropped one of them
    view,     \* id -> what the stream has told the gateway of it
    missed,   \* history: ids whose last change no event or listing can show
    mixed     \* history: ids that met in the watcher under one name

lxd == <<inst, minted, changes, mixed>>
watcher == <<phase, known, pre, gap, event, snapshot, gaps>>
channel == <<queue, lagged>>
vars == <<inst, minted, changes, mixed, feed, phase, known, pre, gap, event, snapshot, gaps,
          unsaid, stream, queue, lagged, view, missed>>

Phases == {"listing", "subscribing", "relisting", "reporting", "idle", "reading", "publishing"}

TypeOK ==
    /\ inst \in [Names -> Instances]
    /\ minted \subseteq Ids /\ mixed \subseteq Ids
    /\ changes \in 0..MaxEvents /\ gaps \in 0..MaxGaps
    /\ feed \in Seq(LxdEvents)
    /\ phase \in Phases
    /\ known \in [Names -> Ids \cup {NoId}] /\ pre \in [Names -> Ids \cup {NoId}]
    /\ gap \subseteq Ids /\ unsaid \subseteq Ids /\ missed \subseteq Ids
    /\ event \in Names \cup {NoId}
    /\ snapshot \in Instances
    /\ stream \in {"off", "subscribed", "live"}
    /\ queue \in Seq(WatchEvents) /\ Len(queue) <= Capacity
    /\ lagged \in BOOLEAN
    /\ view \in [Ids -> {"none", "up", "down", "deleted"}]

Nothing == [n \in Names |-> NoId]

Init ==
    /\ inst = [n \in Names |-> NoInstance]
    /\ minted = {} /\ mixed = {} /\ changes = 0
    /\ feed = <<>>
    /\ phase = "listing"
    /\ known = Nothing /\ pre = Nothing
    /\ gap = {}
    /\ event = NoId
    /\ snapshot = NoInstance
    /\ gaps = 0
    /\ unsaid = {}
    /\ stream = "off"
    /\ queue = <<>> /\ lagged = FALSE
    /\ view = [i \in Ids |-> "none"]
    /\ missed = {}

-----------------------------------------------------------------------------
(* The watcher is subscribed from the moment LXD has accepted its          *)
(* subscription until the stream breaks.                                   *)
Subscribed == phase \notin {"listing", "subscribing"}

StateOf(up) == IF up THEN "up" ELSE "down"

(* managed_sandbox_ids *)
ManagedIds == [n \in Names |-> IF inst[n].id \in Ids THEN inst[n].id ELSE NoId]

(* Mutant: the channel never forgets. *)
SendUnbounded(e) ==
    IF stream = "off" THEN UNCHANGED channel
    ELSE queue' = Append(queue, e) /\ UNCHANGED lagged

(* broadcast::Sender::send: a channel that is full forgets its oldest      *)
(* event, which its receiver learns as a lag.                              *)
Send(e) ==
    IF stream = "off" THEN UNCHANGED channel
    ELSE /\ queue' = IF Len(queue) < Capacity THEN Append(queue, e)
                                              ELSE Append(Tail(queue), e)
         /\ lagged' = (lagged \/ Len(queue) = Capacity)

-----------------------------------------------------------------------------
(* LXD.  Every change of an instance is announced to the subscriber.       *)

(* History: the watcher has read this instance or found it in a listing.   *)
Seen(n, id) == id \in {known[n], pre[n], snapshot.id}

(* History: a change is noticed when its event reaches the watcher, which  *)
(* must know the sandbox if it is a deletion; or when it is a deletion     *)
(* that the next two listings will show.                                   *)
Noticed(action, n, id) ==
    \/ Subscribed /\ (action = "deleted" => Seen(n, id))
    \/ action = "deleted" /\ phase = "listing" /\ known[n] = id

Announce(action, n, id) ==
    /\ changes < MaxEvents
    /\ changes' = changes + 1
    /\ feed' = IF Subscribed THEN Append(feed, [action |-> action, name |-> n, id |-> id])
                             ELSE feed
    /\ missed' = IF Noticed(action, n, id) THEN missed \ {id}
                                           ELSE missed \cup ({id} \cap Ids)

(* History: the instances that the watcher still holds something of under  *)
(* a name, in its tables, in its hands or in unread events.                *)
Trace(n) ==
    ({known[n], pre[n]} \cup (IF event = n THEN {snapshot.id} ELSE {})
        \cup {feed[k].id : k \in {j \in DOMAIN feed : feed[j].name = n}}) \ {NoId}

(* A name may be given out again while the watcher has not done with the   *)
(* instance that had it before.                                            *)
CreateInstance(n, id) ==
    /\ inst[n] = NoInstance
    /\ id \in Owners \ minted
    /\ inst' = [inst EXCEPT ![n] = [id |-> id, up |-> FALSE]]
    /\ minted' = minted \cup ({id} \cap Ids)
    /\ mixed' = IF Trace(n) = {} THEN mixed ELSE mixed \cup ((Trace(n) \cup {id}) \cap Ids)
    /\ Announce("changed", n, id)
    /\ UNCHANGED <<watcher, unsaid, stream, channel, view>>

StartOrStop(n) ==
    /\ inst[n] # NoInstance
    /\ inst' = [inst EXCEPT ![n].up = ~ @]
    /\ Announce("changed", n, inst[n].id)
    /\ UNCHANGED <<minted, mixed, watcher, unsaid, stream, channel, view>>

(* Somebody deletes the instance with LXD's own tools; or DeleteSandbox    *)
(* does, which has to announce it yet.                                     *)
DeleteInstance(n, byDriver) ==
    /\ inst[n] # NoInstance
    /\ ~ inst[n].up
    /\ byDriver => inst[n].id \in Ids
    /\ inst' = [inst EXCEPT ![n] = NoInstance]
    /\ unsaid' = IF byDriver THEN unsaid \cup {inst[n].id} ELSE unsaid
    /\ Announce("deleted", n, inst[n].id)
    /\ UNCHANGED <<minted, mixed, watcher, stream, channel, view>>

-----------------------------------------------------------------------------
(* DeleteSandbox, once the driver has deleted the instance: publish the    *)
(* deletion, unless the RPC was dropped before it could.                   *)
AnnounceDeletion(id) ==
    /\ id \in unsaid
    /\ unsaid' = unsaid \ {id}
    /\ \/ Send([kind |-> "deleted", id |-> id])
       \/ UNCHANGED channel
    /\ UNCHANGED <<lxd, feed, watcher, stream, view, missed>>

-----------------------------------------------------------------------------
(* The watcher task: run_once, again and again *)

ListBefore ==
    /\ phase = "listing"
    /\ pre' = ManagedIds
    /\ phase' = "subscribing"
    /\ UNCHANGED <<lxd, feed, known, gap, event, snapshot, gaps, unsaid, stream, channel,
                   view, missed>>

Subscribe ==
    /\ phase = "subscribing"
    /\ feed' = <<>>
    /\ phase' = "relisting"
    /\ UNCHANGED <<lxd, known, pre, gap, event, snapshot, gaps, unsaid, stream, channel,
                   view, missed>>

(* reconcile_and_seed_sandbox_ids: a known name that neither listing has   *)
(* was deleted; the ids both listings hold are known from now on.          *)
GoneFromBoth(n, post) == pre[n] = NoId /\ post[n] = NoId

(* Mutant: only the second listing is kept. *)
SecondListing(post) == post

BothListings(post) == [n \in Names |-> IF post[n] # NoId THEN post[n] ELSE pre[n]]

ListAfter ==
    /\ phase = "relisting"
    /\ LET post == ManagedIds
       IN  /\ gap' = {known[n] : n \in {m \in Names : known[m] # NoId /\ GoneFromBoth(m, post)}}
           /\ known' = BothListings(post)
    /\ pre' = Nothing
    /\ phase' = "reporting"
    /\ UNCHANGED <<lxd, feed, event, snapshot, gaps, unsaid, stream, channel, view, missed>>

ReportGap ==
    /\ phase = "reporting"
    /\ IF gap = {}
       THEN phase' = "idle" /\ UNCHANGED <<gap, channel>>
       ELSE \E id \in gap :
               /\ gap' = gap \ {id}
               /\ Send([kind |-> "deleted", id |-> id])
               /\ UNCHANGED phase
    /\ UNCHANGED <<lxd, feed, known, pre, event, snapshot, gaps, unsaid, stream, view, missed>>

(* A deletion is told of the sandbox last known under the name. *)
TakeDeletion ==
    /\ phase = "idle" /\ feed # <<>>
    /\ Head(feed).action = "deleted"
    /\ feed' = Tail(feed)
    /\ LET n == Head(feed).name
       IN  /\ known' = [known EXCEPT ![n] = NoId]
           /\ IF known[n] # NoId THEN Send([kind |-> "deleted", id |-> known[n]])
                                 ELSE UNCHANGED channel
    /\ UNCHANGED <<lxd, phase, pre, gap, event, snapshot, gaps, unsaid, stream, view, missed>>

(* Any other watched event makes the watcher read the instance, ... *)
TakeChange ==
    /\ phase = "idle" /\ feed # <<>>
    /\ Head(feed).action = "changed"
    /\ feed' = Tail(feed)
    /\ event' = Head(feed).name
    /\ phase' = "reading"
    /\ UNCHANGED <<lxd, known, pre, gap, snapshot, gaps, unsaid, stream, channel, view, missed>>

(* Mutant: an instance that cannot be read is taken for deleted. *)
FailedReadIsDeletion ==
    /\ phase = "reading"
    /\ \/ inst[event].id \in Ids /\ snapshot' = inst[event] /\ phase' = "publishing"
                               /\ UNCHANGED <<known, channel>>
       \/ phase' = "idle" /\ known[event] # NoId
             /\ known' = [known EXCEPT ![event] = NoId]
             /\ Send([kind |-> "deleted", id |-> known[event]])
             /\ UNCHANGED snapshot
    /\ UNCHANGED <<lxd, feed, pre, gap, event, gaps, unsaid, stream, view, missed>>

(* ... skip it if that fails or the instance is not a sandbox, ... *)
ReadInstance ==
    /\ phase = "reading"
    /\ LET i == inst[event]
       IN  IF i.id \in Ids
           THEN \/ snapshot' = i /\ phase' = "publishing" /\ missed' = missed \ {i.id}
                \/ phase' = "idle" /\ missed' = missed \cup {i.id} /\ UNCHANGED snapshot
           ELSE phase' = "idle" /\ UNCHANGED <<snapshot, missed>>
    /\ UNCHANGED <<lxd, feed, known, pre, gap, event, gaps, unsaid, stream, channel, view>>

(* ... and publish what it read. *)
PublishSnapshot ==
    /\ phase = "publishing"
    /\ known' = [known EXCEPT ![event] = snapshot.id]
    /\ Send([kind |-> StateOf(snapshot.up), id |-> snapshot.id])
    /\ event' = NoId /\ snapshot' = NoInstance
    /\ phase' = "idle"
    /\ UNCHANGED <<lxd, feed, pre, gap, gaps, unsaid, stream, view, missed>>

(* The event stream ends or fails, or a listing does; the task starts over *)
(* with what it knows.  What LXD sent on the old stream is lost.           *)
LoseStream ==
    /\ gaps < MaxGaps
    /\ gaps' = gaps + 1
    /\ phase \in {"subscribing", "relisting", "idle"}
    /\ phase' = "listing"
    /\ feed' = <<>> /\ pre' = Nothing
    /\ missed' = missed \cup
                 {i \in Ids : \E k \in DOMAIN feed :
                     /\ feed[k].id = i
                     /\ inst[feed[k].name].id = i \/ known[feed[k].name] # i}
    /\ UNCHANGED <<lxd, known, gap, event, snapshot, unsaid, stream, channel, view>>

-----------------------------------------------------------------------------
(* WatchSandboxes: subscribe to the channel, list, deliver the listing,    *)
(* then follow the channel; a lag ends the stream with an error.           *)

WatchSubscribe ==
    /\ stream = "off"
    /\ stream' = "subscribed"
    /\ queue' = <<>> /\ lagged' = FALSE
    /\ missed' = {}
    /\ UNCHANGED <<lxd, feed, watcher, unsaid, view>>

WatchList ==
    /\ stream = "subscribed"
    /\ stream' = "live"
    /\ view' = [i \in Ids |->
                  IF \E n \in Names : inst[n].id = i
                  THEN StateOf(inst[CHOOSE n \in Names : inst[n].id = i].up)
                  ELSE "none"]
    /\ missed' = {i \in missed : \E k \in DOMAIN queue : queue[k].id = i}
    /\ UNCHANGED <<lxd, feed, watcher, unsaid, channel>>

Deliver ==
    /\ stream = "live" /\ ~ lagged /\ queue # <<>>
    /\ view' = [view EXCEPT ![Head(queue).id] = Head(queue).kind]
    /\ queue' = Tail(queue)
    /\ UNCHANGED <<lxd, feed, watcher, unsaid, stream, lagged, missed>>

(* The listing fails, the channel has lagged, or the gateway hangs up. *)
WatchFails ==
    /\ stream # "off"
    /\ stream' = "off"
    /\ queue' = <<>> /\ lagged' = FALSE
    /\ view' = [i \in Ids |-> "none"]
    /\ UNCHANGED <<lxd, feed, watcher, unsaid, missed>>

-----------------------------------------------------------------------------
Environment ==
    \/ \E n \in Names :
          \/ \E id \in Owners : CreateInstance(n, id)
          \/ StartOrStop(n)
          \/ \E byDriver \in BOOLEAN : DeleteInstance(n, byDriver)
    \/ LoseStream

Driver ==
    \/ \E id \in unsaid : AnnounceDeletion(id)
    \/ ListBefore \/ Subscribe \/ ListAfter \/ ReportGap
    \/ TakeDeletion \/ TakeChange \/ ReadInstance \/ PublishSnapshot

Gateway == WatchSubscribe \/ WatchList \/ Deliver \/ WatchFails

Next == Environment \/ Driver \/ Gateway

Spec == Init /\ [][Next]_vars

-----------------------------------------------------------------------------
(* Nothing is on its way to the gateway: LXD's events are handled, the     *)
(* channel is drained, every DeleteSandbox has spoken.                     *)
Quiet ==
    /\ phase = "idle" /\ feed = <<>> /\ unsaid = {}
    /\ stream = "live" /\ queue = <<>> /\ ~ lagged

ShowsLatest(i) ==
    \/ \E n \in Names : inst[n].id = i /\ view[i] = StateOf(inst[n].up)
    \/ (\A n \in Names : inst[n].id # i) /\ view[i] \in {"none", "deleted"}

(* What grpc.rs says of a WatchSandboxes stream, "Every LXD state change   *)
(* publishes its own event, so the last snapshot a watcher receives for a  *)
(* sandbox is always its latest state": once everything under way has      *)
(* arrived, the gateway has been told the latest state of every sandbox.   *)
LastSnapshotIsLatest == Quiet => \A i \in Ids : ShowsLatest(i)

(* The gateway catches up, through the listing of its stream and the       *)
(* events after it, with the latest state of every sandbox, except one     *)
(* whose last change since that listing escaped the watcher (its event was *)
(* lost with LXD's stream or fell into the time without one, or the read   *)
(* it caused failed) or that shared its name with another while the        *)
(* watcher was behind.  Deletions in the time without a stream do not      *)
(* escape it: reconcile_and_seed_sandbox_ids finds them.                   *)
CatchesUp == Quiet => \A i \in Ids \ (missed \cup mixed) : ShowsLatest(i)

Gone(i) == \A n \in Names : inst[n].id # i

(* What watcher.rs says of the two listings, "if an instance present       *)
(* before subscribing was deleted while listing, its queued deletion event *)
(* will still match the retained entry": a deletion is told of the sandbox *)
(* that was deleted, so one that the gateway was told is deleted does not  *)
(* exist.                                                                  *)
DeletedAreGone == \A i \in Ids : view[i] = "deleted" => Gone(i)

(* A sandbox that the gateway was told is deleted does not exist, whoever  *)
(* deleted it and however often names are given out again, unless its name *)
(* was given to it while the watcher still held something of the instance  *)
(* that had it before (TakeDeletion tells by name).                        *)
ToldDeletedAreGone == \A i \in Ids \ mixed : view[i] = "deleted" => Gone(i)

(* The stream keeps the order of lifecycle events: after a sandbox's       *)
(* deletion it never shows a snapshot of it again.                         *)
NoSnapshotAfterDeletion ==
    [][\A i \in Ids : view[i] = "deleted" => view'[i] \in {"deleted", "none"}]_view

=============================================================================
