--------------------------- MODULE WatcherProofs ---------------------------
(***************************************************************************)
(* The gateway is never told that a sandbox is deleted which exists, and   *)
(* it catches up with every sandbox whose last change did not happen       *)
(* behind the watcher's back, but for sandboxes that met in the watcher    *)
(* under one name: for any number of names and sandboxes, any capacity of  *)
(* the channel, and any number of changes and of breaks of the stream.     *)
(***************************************************************************)
EXTENDS Watcher, SequenceTheorems, TLAPS

Elements(s) == {s[k] : k \in DOMAIN s}

(* What the task holds fits its phase, it takes events only while it is    *)
(* subscribed, and an instance has an owner.                               *)
PhaseFits ==
    /\ phase \notin {"subscribing", "relisting"} => pre = Nothing
    /\ phase = "publishing" => event \in Names /\ snapshot.id \in Ids
    /\ phase # "publishing" => snapshot = NoInstance
    /\ phase = "reading" => event \in Names
    /\ phase # "reporting" => gap = {}
    /\ ~ Subscribed => feed = <<>>
    /\ \A n \in Names : inst[n].id = NoId => inst[n] = NoInstance

(* In all of LXD, its events and what the watcher holds a sandbox's id     *)
(* stands for one name, and a name for one owner unless some were mixed.   *)
Held(n, i) ==
    \/ i \in {inst[n].id, known[n], pre[n]}
    \/ phase = "publishing" /\ event = n /\ snapshot.id = i
    \/ \E e \in Elements(feed) : e.name = n /\ e.id = i

OneOwner ==
    \A n \in Names : \A i \in Owners : Held(n, i) =>
        /\ i \in Ids => i \in minted /\ \A m \in Names : Held(m, i) => m = n
        /\ \A j \in Owners : Held(n, j) => i = j \/ {i, j} \cap Ids \subseteq mixed

(* The id was given to an instance that is no more. *)
WasDeleted(i) == i \in minted /\ \A n \in Names : inst[n].id # i

Announced(n) == \E e \in Elements(feed) : e.name = n
DeletionSent(n) == \E e \in Elements(feed) : e.name = n /\ e.action = "deleted"

(* Whatever is about to be told deleted, or was, is gone or was mixed with *)
(* another; nothing is told of a sandbox that never was.                   *)
TrueWord(e) == e.id \in minted /\ (e.kind = "deleted" => e.id \in mixed \/ WasDeleted(e.id))

DeletionsAreTrue ==
    /\ \A e \in Elements(feed) : e.action = "deleted" /\ e.id \in Ids => WasDeleted(e.id)
    /\ \A i \in gap \cup unsaid : WasDeleted(i)
    /\ \A e \in Elements(queue) : TrueWord(e)
    /\ \A i \in Ids : view[i] # "none" => i \in minted
    /\ \A i \in Ids \ mixed : view[i] = "deleted" => WasDeleted(i)

(* A snapshot that is out of date is followed by another event. *)
SnapshotIsFollowed ==
    phase = "publishing" =>
        \/ inst[event] = snapshot
        \/ inst[event].id = snapshot.id /\ Announced(event)
        \/ DeletionSent(event)

(* What the stream will have told of a sandbox once the channel is drained. *)
Silent(q, i) == \A e \in Elements(q) : e.id # i
LastWord(q, i, word) ==
    \E k \in DOMAIN q :
       /\ q[k].id = i /\ q[k].kind = word
       /\ \A l \in DOMAIN q : l > k => q[l].id # i
Says(i, word) ==
    \/ LastWord(queue, i, word)
    \/ Silent(queue, i) /\ stream = "live" /\ view[i] = word

Fits(i, word) ==
    \/ \E n \in Names : inst[n].id = i /\ word = StateOf(inst[n].up)
    \/ (\A n \in Names : inst[n].id # i) /\ word \in {"none", "deleted"}

ToldRight(i) ==
    \/ Silent(queue, i) /\ stream = "subscribed"
    \/ \E word \in {"none", "up", "down", "deleted"} : Says(i, word) /\ Fits(i, word)

(* The watcher has yet to tell the latest state of a sandbox: of one that  *)
(* exists, or of one that is gone.                                         *)
OwesState(i) ==
    \E n \in Names :
        /\ inst[n].id = i
        /\ \/ Announced(n)
           \/ phase = "reading" /\ event = n
           \/ phase = "publishing" /\ event = n /\ snapshot = inst[n]

DeletionIsDue(n, i) ==
    \/ /\ DeletionSent(n)
       /\ \/ i \in {known[n], pre[n]}
          \/ phase = "publishing" /\ event = n /\ snapshot.id = i
    \/ /\ known[n] = i /\ pre[n] = NoId
       /\ phase \in {"listing", "subscribing", "relisting"}

OwesDeletion(i) ==
    /\ \A n \in Names : inst[n].id # i
    /\ i \in gap \/ \E n \in Names : DeletionIsDue(n, i)

Served(i) == ToldRight(i) \/ OwesState(i) \/ OwesDeletion(i)

Informed == stream # "off" /\ ~ lagged => \A i \in Ids \ (missed \cup mixed) : Served(i)

(* The inductive invariants: of the types, of the deletions, of the rest. *)
Typed == TypeOK /\ PhaseFits
WatcherInv == Typed /\ OneOwner /\ DeletionsAreTrue
CaughtUpInv == SnapshotIsFollowed /\ Informed

-----------------------------------------------------------------------------
(* Sequences *)

(* Append adds one element, at the end. *)
LEMMA AppendElements ==
    ASSUME NEW S, NEW s \in Seq(S), NEW e \in S
    PROVE  /\ Append(s, e) \in Seq(S)
           /\ Len(Append(s, e)) = Len(s) + 1
           /\ Elements(Append(s, e)) = Elements(s) \cup {e}
<1>1. /\ Append(s, e) \in Seq(S) /\ Len(Append(s, e)) = Len(s) + 1
      /\ \A k \in 1..Len(s) : Append(s, e)[k] = s[k]
      /\ Append(s, e)[Len(s) + 1] = e
    BY AppendProperties
<1>2. Len(s) \in Nat /\ DOMAIN s = 1..Len(s)
    BY LenProperties
<1>3. DOMAIN Append(s, e) = 1..(Len(s) + 1)
    BY <1>1, LenProperties
<1>4. \A k : k \in 1..(Len(s) + 1) <=> k \in 1..Len(s) \/ k = Len(s) + 1
    BY <1>2
<1> QED
    BY <1>1, <1>2, <1>3, <1>4 DEF Elements

(* Tail takes the first element away. *)
LEMMA TailElements ==
    ASSUME NEW S, NEW s \in Seq(S), s # <<>>
    PROVE  /\ Tail(s) \in Seq(S) /\ Head(s) \in S
           /\ Len(Tail(s)) = Len(s) - 1 /\ Len(s) > 0
           /\ Elements(s) = {Head(s)} \cup Elements(Tail(s))
<1>1. /\ Tail(s) \in Seq(S) /\ Head(s) \in S
      /\ Len(Tail(s)) = Len(s) - 1
      /\ \A k \in 1..Len(Tail(s)) : Tail(s)[k] = s[k + 1]
    BY HeadTailProperties
<1>2. Len(s) \in Nat /\ DOMAIN s = 1..Len(s) /\ Len(s) > 0
    BY LenProperties, EmptySeq
<1>3. DOMAIN Tail(s) = 1..(Len(s) - 1)
    BY <1>1, LenProperties
<1>4. Head(s) = s[1]
    OBVIOUS
<1>5. \A k \in 1..Len(s) : k = 1 \/ (k - 1 \in 1..(Len(s) - 1) /\ (k - 1) + 1 = k)
    BY <1>2
<1>6. \A k \in 1..(Len(s) - 1) : k + 1 \in 1..Len(s)
    BY <1>2
<1>7. ASSUME NEW e \in Elements(s)
      PROVE  e = Head(s) \/ e \in Elements(Tail(s))
    <2>1. PICK k \in 1..Len(s) : e = s[k]
        BY <1>2 DEF Elements
    <2>2. CASE k = 1
        BY <2>1, <2>2, <1>4
    <2>3. CASE k - 1 \in 1..(Len(s) - 1) /\ (k - 1) + 1 = k
        <3>1. Tail(s)[k - 1] = s[k]
            BY <1>1, <2>3
        <3> QED
            BY <2>1, <2>3, <3>1, <1>3 DEF Elements
    <2> QED
        BY <2>2, <2>3, <1>5
<1>8. Elements(Tail(s)) \subseteq Elements(s)
    BY <1>1, <1>2, <1>3, <1>6 DEF Elements
<1>9. Head(s) \in Elements(s)
    BY <1>2, <1>4 DEF Elements
<1> QED
    BY <1>1, <1>2, <1>7, <1>8, <1>9

LEMMA EmptyElements == Elements(<<>>) = {}
    BY DEF Elements

LEMMA TypedElements ==
    ASSUME NEW S, NEW s \in Seq(S)
    PROVE  Elements(s) \subseteq S
    BY LenProperties, ElementOfSeq DEF Elements

(* The last word of a queue on i, once e is appended. *)
LEMMA AppendLastWord ==
    ASSUME NEW q \in Seq(WatchEvents), NEW e \in WatchEvents, NEW i, NEW word
    PROVE  /\ e.id = i => LastWord(Append(q, e), i, e.kind)
           /\ e.id # i => (LastWord(q, i, word) => LastWord(Append(q, e), i, word))
<1>1. /\ Append(q, e) \in Seq(WatchEvents) /\ Len(Append(q, e)) = Len(q) + 1
      /\ \A k \in 1..Len(q) : Append(q, e)[k] = q[k]
      /\ Append(q, e)[Len(q) + 1] = e
    BY AppendProperties
<1>2. Len(q) \in Nat /\ DOMAIN q = 1..Len(q) /\ DOMAIN Append(q, e) = 1..(Len(q) + 1)
    BY <1>1, LenProperties
<1>3. \A k : k \in 1..(Len(q) + 1) <=> k \in 1..Len(q) \/ k = Len(q) + 1
    BY <1>2
<1>4. \A k \in 1..(Len(q) + 1) : ~ (k > Len(q) + 1)
    BY <1>2
<1>5. ASSUME e.id = i
      PROVE  LastWord(Append(q, e), i, e.kind)
    BY <1>1, <1>2, <1>3, <1>4, <1>5 DEF LastWord
<1>6. ASSUME e.id # i, LastWord(q, i, word)
      PROVE  LastWord(Append(q, e), i, word)
    BY <1>1, <1>2, <1>3, <1>6 DEF LastWord
<1> QED
    BY <1>5, <1>6

(* The last word of a queue on i stands in its tail, unless the tail does  *)
(* not speak of i.                                                         *)
LEMMA TailLastWord ==
    ASSUME NEW q \in Seq(WatchEvents), q # <<>>, NEW i, NEW word,
           LastWord(q, i, word)
    PROVE  \/ LastWord(Tail(q), i, word)
           \/ Head(q).id = i /\ Head(q).kind = word /\ Silent(Tail(q), i)
<1>1. /\ Tail(q) \in Seq(WatchEvents) /\ Len(Tail(q)) = Len(q) - 1
      /\ \A k \in 1..Len(Tail(q)) : Tail(q)[k] = q[k + 1]
    BY HeadTailProperties
<1>2. Len(q) \in Nat /\ DOMAIN q = 1..Len(q) /\ DOMAIN Tail(q) = 1..(Len(q) - 1)
    BY <1>1, LenProperties
<1>3. PICK k \in 1..Len(q) :
         /\ q[k].id = i /\ q[k].kind = word
         /\ \A l \in 1..Len(q) : l > k => q[l].id # i
    BY <1>2 DEF LastWord
<1>4. CASE k = 1
    <2>1. Head(q) = q[1]
        OBVIOUS
    <2>2. \A l \in 1..(Len(q) - 1) : l + 1 \in 1..Len(q) /\ l + 1 > 1
        BY <1>2
    <2> QED
        BY <1>1, <1>2, <1>3, <1>4, <2>1, <2>2 DEF Silent, Elements
<1>5. CASE k # 1
    <2>1. k - 1 \in 1..(Len(q) - 1) /\ (k - 1) + 1 = k
        BY <1>2, <1>5
    <2>2. Tail(q)[k - 1] = q[k]
        BY <1>1, <2>1
    <2>3. \A l \in 1..(Len(q) - 1) : l > k - 1 => Tail(q)[l].id # i
        <3>1. \A l \in 1..(Len(q) - 1) : l + 1 \in 1..Len(q) /\ (l > k - 1 => l + 1 > k)
            BY <1>2
        <3> QED
            BY <1>1, <1>3, <3>1
    <2> QED
        BY <1>2, <1>3, <2>1, <2>2, <2>3 DEF LastWord
<1> QED
    BY <1>4, <1>5

-----------------------------------------------------------------------------
(* Types *)

(* What broadcast::Sender::send does to the channel: it adds the event,    *)
(* and drops another only if the receiver will learn it.                   *)
LEMMA SendEffect ==
    ASSUME TypeOK, NEW e \in WatchEvents, Send(e)
    PROVE  /\ queue' \in Seq(WatchEvents) /\ Len(queue') <= Capacity
           /\ lagged' \in BOOLEAN
           /\ Elements(queue') \subseteq Elements(queue) \cup {e}
           /\ stream # "off" /\ ~ lagged' => ~ lagged /\ queue' = Append(queue, e)
<1>1. queue \in Seq(WatchEvents) /\ Len(queue) <= Capacity /\ lagged \in BOOLEAN
    BY DEF TypeOK
<1>2. Capacity \in Nat /\ Capacity # 0 /\ Len(queue) \in Nat
    BY WatcherAssumption, <1>1, LenProperties
<1>3. CASE stream = "off"
    BY <1>1, <1>3 DEF Send, channel
<1>4. CASE stream # "off" /\ Len(queue) < Capacity
    <2>1. queue' = Append(queue, e) /\ lagged' = (lagged \/ Len(queue) = Capacity)
        BY <1>4 DEF Send
    <2>2. lagged' = lagged
        BY <2>1, <1>1, <1>2, <1>4
    <2>3. Len(queue) + 1 <= Capacity
        BY <1>2, <1>4
    <2> QED
        BY <1>1, <2>1, <2>2, <2>3, AppendElements
<1>5. CASE stream # "off" /\ ~ (Len(queue) < Capacity)
    <2>1. /\ queue' = Append(Tail(queue), e)
          /\ lagged' = (lagged \/ Len(queue) = Capacity)
        BY <1>5 DEF Send
    <2>2. Len(queue) = Capacity /\ queue # <<>>
        BY <1>1, <1>2, <1>5, EmptySeq
    <2>3. lagged'
        BY <2>1, <2>2
    <2>4. PICK rest \in Seq(WatchEvents) :
             /\ rest = Tail(queue)
             /\ Len(rest) = Capacity - 1
             /\ Elements(rest) \subseteq Elements(queue)
        BY <1>1, <2>2, TailElements
    <2>5. /\ queue' \in Seq(WatchEvents) /\ Len(queue') = Len(rest) + 1
          /\ Elements(queue') = Elements(rest) \cup {e}
        <3>1. queue' = Append(rest, e)
            BY <2>1, <2>4
        <3>2. /\ Append(rest, e) \in Seq(WatchEvents)
              /\ Len(Append(rest, e)) = Len(rest) + 1
              /\ Elements(Append(rest, e)) = Elements(rest) \cup {e}
            BY AppendElements
        <3> QED
            BY <3>1, <3>2
    <2>6. Len(queue') <= Capacity
        BY <2>4, <2>5, <1>2
    <2>7. lagged' = TRUE
        BY <2>1, <2>2
    <2> QED
        BY <2>4, <2>5, <2>6, <2>7
<1> QED
    BY <1>3, <1>4, <1>5

(* What LXD's announcement of a change does. *)
LEMMA AnnounceEffect ==
    ASSUME TypeOK, NEW action \in {"changed", "deleted"}, NEW n \in Names, NEW id \in Owners,
           Announce(action, n, id)
    PROVE  /\ changes' \in 0..MaxEvents
           /\ feed' \in Seq(LxdEvents)
           /\ ~ Subscribed => feed' = feed
           /\ Subscribed => Elements(feed') =
                 Elements(feed) \cup {[action |-> action, name |-> n, id |-> id]}
           /\ missed' \subseteq Ids
           /\ \A i \in Ids : i # id => (i \in missed <=> i \in missed')
           /\ id \in Ids => (id \in missed' <=> ~ Noticed(action, n, id))
<1>1. feed \in Seq(LxdEvents) /\ changes \in 0..MaxEvents /\ missed \subseteq Ids
    BY DEF TypeOK
<1>2. changes' \in 0..MaxEvents
    BY <1>1, WatcherAssumption DEF Announce
<1>3. [action |-> action, name |-> n, id |-> id] \in LxdEvents
    BY DEF LxdEvents
<1>4. CASE Subscribed
    <2>1. feed' = Append(feed, [action |-> action, name |-> n, id |-> id])
        BY <1>4 DEF Announce
    <2> QED
        BY <1>1, <1>2, <1>3, <1>4, <2>1, AppendElements DEF Announce
<1>5. CASE ~ Subscribed
    BY <1>1, <1>2, <1>5 DEF Announce
<1> QED
    BY <1>4, <1>5

(* Every handler keeps the types, and every phase finds what it needs. *)
LEMMA TypedStep == Typed /\ [Next]_vars => Typed'
<1> SUFFICES ASSUME TypeOK, PhaseFits, [Next]_vars
             PROVE  TypeOK' /\ PhaseFits'
    BY DEF Typed
<1> USE WatcherAssumption
<1>own. \A n \in Names : inst[n] # NoInstance => inst[n].id \in Owners
    BY DEF TypeOK, PhaseFits, Instances
<1>1. ASSUME NEW n \in Names, NEW id \in Owners, CreateInstance(n, id)
      PROVE  TypeOK' /\ PhaseFits'
    <2>1. "changed" \in {"changed", "deleted"} /\ Announce("changed", n, id)
        BY <1>1 DEF CreateInstance
    <2>2. changes' \in 0..MaxEvents /\ feed' \in Seq(LxdEvents) /\ missed' \subseteq Ids
          /\ (~ Subscribed => feed' = feed)
        BY <2>1, AnnounceEffect
    <2>3. inst' \in [Names -> Instances] /\ minted' \subseteq Ids /\ mixed' \subseteq Ids
        BY <1>1 DEF CreateInstance, TypeOK, Instances
    <2>4. \A m \in Names : inst'[m].id = NoId => inst'[m] = NoInstance
        BY <1>1 DEF CreateInstance, TypeOK, PhaseFits, Owners
    <2> QED
        BY <1>1, <2>2, <2>3, <2>4
           DEF CreateInstance, TypeOK, PhaseFits, watcher, channel, Subscribed
<1>2. ASSUME NEW n \in Names, StartOrStop(n)
      PROVE  TypeOK' /\ PhaseFits'
    <2>1. "changed" \in {"changed", "deleted"} /\ Announce("changed", n, inst[n].id)
          /\ inst[n].id \in Owners
        BY <1>2, <1>own DEF StartOrStop
    <2>2. changes' \in 0..MaxEvents /\ feed' \in Seq(LxdEvents) /\ missed' \subseteq Ids
          /\ (~ Subscribed => feed' = feed)
        BY <2>1, AnnounceEffect
    <2>3. /\ inst' \in [Names -> Instances]
          /\ inst'[n].id = inst[n].id /\ \A m \in Names \ {n} : inst'[m] = inst[m]
        BY <1>2 DEF StartOrStop, TypeOK, Instances
    <2>4. \A m \in Names : inst'[m].id = NoId => inst'[m] = NoInstance
        BY <2>1, <2>3 DEF PhaseFits, Owners
    <2> QED
        BY <1>2, <2>2, <2>3, <2>4
           DEF StartOrStop, TypeOK, PhaseFits, watcher, channel, Subscribed
<1>3. ASSUME NEW n \in Names, NEW byDriver \in BOOLEAN, DeleteInstance(n, byDriver)
      PROVE  TypeOK' /\ PhaseFits'
    <2>1. "deleted" \in {"changed", "deleted"} /\ Announce("deleted", n, inst[n].id)
          /\ inst[n].id \in Owners
        BY <1>3, <1>own DEF DeleteInstance
    <2>2. changes' \in 0..MaxEvents /\ feed' \in Seq(LxdEvents) /\ missed' \subseteq Ids
          /\ (~ Subscribed => feed' = feed)
        BY <2>1, AnnounceEffect
    <2>3. inst' \in [Names -> Instances] /\ unsaid' \subseteq Ids
        BY <1>3 DEF DeleteInstance, TypeOK, Instances, NoInstance
    <2>4. \A m \in Names : inst'[m].id = NoId => inst'[m] = NoInstance
        BY <1>3 DEF DeleteInstance, TypeOK, PhaseFits
    <2> QED
        BY <1>3, <2>2, <2>3, <2>4
           DEF DeleteInstance, TypeOK, PhaseFits, watcher, channel, Subscribed
<1>4. ASSUME LoseStream
      PROVE  TypeOK' /\ PhaseFits'
    <2>1. <<>> \in Seq(LxdEvents) /\ Nothing \in [Names -> Ids \cup {NoId}]
        BY EmptySeq DEF Nothing
    <2>2. gaps' \in 0..MaxGaps
        BY <1>4 DEF LoseStream, TypeOK
    <2> QED
        BY <1>4, <2>1, <2>2
           DEF LoseStream, TypeOK, PhaseFits, lxd, channel, Subscribed, Phases
<1>5. ASSUME NEW id \in unsaid, AnnounceDeletion(id)
      PROVE  TypeOK' /\ PhaseFits'
    <2>1. [kind |-> "deleted", id |-> id] \in WatchEvents
        BY DEF TypeOK, WatchEvents
    <2>2. queue' \in Seq(WatchEvents) /\ Len(queue') <= Capacity /\ lagged' \in BOOLEAN
        BY <1>5, <2>1, SendEffect DEF AnnounceDeletion, TypeOK, channel
    <2> QED
        BY <1>5, <2>2 DEF AnnounceDeletion, TypeOK, PhaseFits, lxd, watcher, Subscribed
<1>6. ASSUME ListBefore
      PROVE  TypeOK' /\ PhaseFits'
    <2>1. ManagedIds \in [Names -> Ids \cup {NoId}]
        BY DEF ManagedIds
    <2> QED
        BY <1>6, <2>1 DEF ListBefore, TypeOK, PhaseFits, lxd, channel, Subscribed, Phases
<1>7. ASSUME Subscribe
      PROVE  TypeOK' /\ PhaseFits'
    <2>1. <<>> \in Seq(LxdEvents)
        BY EmptySeq
    <2> QED
        BY <1>7, <2>1 DEF Subscribe, TypeOK, PhaseFits, lxd, channel, Subscribed, Phases
<1>8. ASSUME ListAfter
      PROVE  TypeOK' /\ PhaseFits'
    <2>1. ManagedIds \in [Names -> Ids \cup {NoId}] /\ Nothing \in [Names -> Ids \cup {NoId}]
        BY DEF ManagedIds, Nothing
    <2>2. known' \in [Names -> Ids \cup {NoId}] /\ gap' \subseteq Ids
        BY <1>8, <2>1 DEF ListAfter, BothListings, TypeOK
    <2> QED
        BY <1>8, <2>1, <2>2 DEF ListAfter, TypeOK, PhaseFits, lxd, channel, Subscribed, Phases
<1>9. ASSUME ReportGap
      PROVE  TypeOK' /\ PhaseFits'
    <2>1. CASE gap = {}
        BY <1>9, <2>1 DEF ReportGap, TypeOK, PhaseFits, lxd, channel, Subscribed, Phases
    <2>2. CASE gap # {}
        <3>1. PICK id \in gap : gap' = gap \ {id} /\ Send([kind |-> "deleted", id |-> id])
                                /\ UNCHANGED phase
            BY <1>9, <2>2 DEF ReportGap
        <3>2. [kind |-> "deleted", id |-> id] \in WatchEvents
            BY DEF TypeOK, WatchEvents
        <3>3. queue' \in Seq(WatchEvents) /\ Len(queue') <= Capacity /\ lagged' \in BOOLEAN
            BY <3>1, <3>2, SendEffect
        <3> QED
            BY <1>9, <3>1, <3>3 DEF ReportGap, TypeOK, PhaseFits, lxd, Subscribed
    <2> QED
        BY <2>1, <2>2
<1>10. ASSUME TakeDeletion
       PROVE  TypeOK' /\ PhaseFits'
    <2>1. Head(feed) \in LxdEvents /\ Tail(feed) \in Seq(LxdEvents)
        BY <1>10, TailElements DEF TakeDeletion, TypeOK
    <2>2. Head(feed).name \in Names
        BY <2>1 DEF LxdEvents
    <2>3. known' \in [Names -> Ids \cup {NoId}]
        BY <1>10 DEF TakeDeletion, TypeOK
    <2>4. queue' \in Seq(WatchEvents) /\ Len(queue') <= Capacity /\ lagged' \in BOOLEAN
        <3>1. CASE known[Head(feed).name] = NoId
            BY <1>10, <3>1 DEF TakeDeletion, TypeOK, channel
        <3>2. CASE known[Head(feed).name] # NoId
            <4>1. [kind |-> "deleted", id |-> known[Head(feed).name]] \in WatchEvents
                BY <3>2, <2>2 DEF TypeOK, WatchEvents
            <4> QED
                BY <1>10, <3>2, <4>1, SendEffect DEF TakeDeletion
        <3> QED
            BY <3>1, <3>2
    <2> QED
        BY <1>10, <2>1, <2>3, <2>4 DEF TakeDeletion, TypeOK, PhaseFits, lxd, Subscribed
<1>11. ASSUME TakeChange
       PROVE  TypeOK' /\ PhaseFits'
    <2>1. Head(feed) \in LxdEvents /\ Tail(feed) \in Seq(LxdEvents)
        BY <1>11, TailElements DEF TakeChange, TypeOK
    <2>2. Head(feed).name \in Names
        BY <2>1 DEF LxdEvents
    <2> QED
        BY <1>11, <2>1, <2>2 DEF TakeChange, TypeOK, PhaseFits, lxd, channel, Subscribed, Phases
<1>12. ASSUME ReadInstance
       PROVE  TypeOK' /\ PhaseFits'
    <2>1. event \in Names /\ inst[event] \in Instances
        BY <1>12 DEF ReadInstance, PhaseFits, TypeOK
    <2> QED
        BY <1>12, <2>1
           DEF ReadInstance, TypeOK, PhaseFits, lxd, channel, Subscribed, Phases
<1>13. ASSUME PublishSnapshot
       PROVE  TypeOK' /\ PhaseFits'
    <2>1. event \in Names /\ snapshot.id \in Ids
        BY <1>13 DEF PublishSnapshot, PhaseFits
    <2>2. [kind |-> StateOf(snapshot.up), id |-> snapshot.id] \in WatchEvents
        BY <2>1 DEF WatchEvents, StateOf
    <2>3. queue' \in Seq(WatchEvents) /\ Len(queue') <= Capacity /\ lagged' \in BOOLEAN
        BY <1>13, <2>2, SendEffect DEF PublishSnapshot
    <2>4. NoInstance \in Instances
        BY DEF NoInstance, Instances
    <2> QED
        BY <1>13, <2>1, <2>3, <2>4
           DEF PublishSnapshot, TypeOK, PhaseFits, lxd, Subscribed, Phases
<1>14. ASSUME Gateway
       PROVE  TypeOK' /\ PhaseFits'
    <2>1. <<>> \in Seq(WatchEvents) /\ Len(<<>>) <= Capacity
        BY EmptySeq
    <2>2. PhaseFits'
        BY <1>14 DEF Gateway, WatchSubscribe, WatchList, Deliver, WatchFails, PhaseFits,
                     lxd, watcher, Subscribed
    <2> DEFINE StreamTyped ==
                 /\ stream \in {"off", "subscribed", "live"}
                 /\ queue \in Seq(WatchEvents) /\ Len(queue) <= Capacity
                 /\ lagged \in BOOLEAN
                 /\ view \in [Ids -> {"none", "up", "down", "deleted"}]
    <2>0. StreamTyped
        BY DEF TypeOK
    <2>3. CASE WatchSubscribe
        <3>1. StreamTyped'
            BY <2>0, <2>1, <2>3 DEF WatchSubscribe
        <3> QED
            BY <2>2, <2>3, <3>1 DEF WatchSubscribe, TypeOK, lxd, watcher
    <2>4. CASE WatchList
        <3>1. StreamTyped'
            BY <2>0, <2>4 DEF WatchList, channel, StateOf
        <3> QED
            BY <2>2, <2>4, <3>1 DEF WatchList, TypeOK, lxd, watcher
    <2>5. CASE Deliver
        <3>1. queue' \in Seq(WatchEvents) /\ Head(queue) \in WatchEvents
              /\ Len(queue') = Len(queue) - 1
            BY <2>5, TailElements DEF Deliver, TypeOK
        <3>2. Len(queue') <= Capacity
            BY <3>1, LenProperties DEF TypeOK
        <3>3. view' \in [Ids -> {"none", "up", "down", "deleted"}]
            BY <2>5, <3>1 DEF Deliver, TypeOK, WatchEvents
        <3>4. StreamTyped'
            BY <2>0, <2>5, <3>1, <3>2, <3>3 DEF Deliver
        <3> QED
            BY <2>2, <2>5, <3>4 DEF Deliver, TypeOK, lxd, watcher
    <2>6. CASE WatchFails
        <3>1. StreamTyped'
            BY <2>1, <2>6 DEF WatchFails
        <3> QED
            BY <2>2, <2>6, <3>1 DEF WatchFails, TypeOK, lxd, watcher
    <2> QED
        BY <1>14, <2>2, <2>3, <2>4, <2>5, <2>6 DEF Gateway
<1>15. ASSUME UNCHANGED vars
       PROVE  TypeOK' /\ PhaseFits'
    BY <1>15 DEF vars, TypeOK, PhaseFits, Subscribed
<1> QED
    BY <1>1, <1>2, <1>3, <1>4, <1>5, <1>6, <1>7, <1>8, <1>9, <1>10, <1>11, <1>12, <1>13,
       <1>14, <1>15 DEF Next, Environment, Driver

LEMMA TypedInit == Init => Typed
<1> SUFFICES ASSUME Init PROVE TypeOK /\ PhaseFits
    BY DEF Typed
<1>1. <<>> \in Seq(LxdEvents) /\ <<>> \in Seq(WatchEvents) /\ Len(<<>>) = 0
    BY EmptySeq
<1>2. inst \in [Names -> Instances] /\ snapshot \in Instances
    BY DEF Init, NoInstance, Instances
<1>3. known \in [Names -> Ids \cup {NoId}] /\ pre \in [Names -> Ids \cup {NoId}]
    BY DEF Init, Nothing
<1>4. changes \in 0..MaxEvents /\ gaps \in 0..MaxGaps /\ Len(queue) <= Capacity
    BY <1>1, WatcherAssumption DEF Init
<1>5. view \in [Ids -> {"none", "up", "down", "deleted"}] /\ lagged \in BOOLEAN
    BY DEF Init
<1>6. TypeOK
    BY <1>1, <1>2, <1>3, <1>4, <1>5 DEF Init, TypeOK, Phases
<1>7. PhaseFits
    BY DEF Init, PhaseFits, Subscribed
<1> QED
    BY <1>6, <1>7

-----------------------------------------------------------------------------
(* Owners and deletions *)

LEMMA OwnersStay ==
    ASSUME OneOwner, minted \subseteq minted', mixed \subseteq mixed',
           \A n \in Names : \A i \in Owners : Held(n, i)' => Held(n, i)
    PROVE  OneOwner'
    BY DEF OneOwner

(* No step gives a second name to an owner, or an unmixed one to a name. *)
LEMMA OwnersStep ==
    ASSUME Typed, OneOwner, [Next]_vars
    PROVE  OneOwner'
<1> USE WatcherAssumption
<1>typ. TypeOK /\ PhaseFits
    BY DEF Typed
<1>own. \A n \in Names : inst[n] # NoInstance => inst[n].id \in Owners
    BY <1>typ DEF TypeOK, PhaseFits, Instances
<1>1. ASSUME NEW n \in Names, NEW id \in Owners, CreateInstance(n, id)
      PROVE  OneOwner'
    <2>1. Announce("changed", n, id) /\ "changed" \in {"changed", "deleted"}
        BY <1>1 DEF CreateInstance
    <2>2. \A e \in Elements(feed') :
             e \in Elements(feed) \/ e = [action |-> "changed", name |-> n, id |-> id]
        BY <1>typ, <2>1, AnnounceEffect
    <2>3. \A m \in Names : \A i \in Owners :
             Held(m, i)' => Held(m, i) \/ (m = n /\ i = id)
        BY <1>1, <1>typ, <2>2 DEF CreateInstance, Held, watcher, TypeOK
    <2>4. /\ id \notin minted /\ inst[n].id = NoId
          /\ minted' = minted \cup ({id} \cap Ids)
          /\ mixed' = IF Trace(n) = {} THEN mixed ELSE mixed \cup ((Trace(n) \cup {id}) \cap Ids)
        BY <1>1 DEF CreateInstance, NoInstance
    <2>5. \A j \in Owners : Held(n, j) => j \in Trace(n)
        BY <2>4 DEF Held, Trace, Elements, Owners
    <2>6. \A j \in Owners : Held(n, j) => {j, id} \cap Ids \subseteq mixed'
        BY <2>4, <2>5
    <2>7. mixed \subseteq mixed' /\ minted \subseteq minted'
        BY <2>4
    <2>8. id \in Ids => \A m \in Names : ~ Held(m, id)
        BY <2>4, <1>typ DEF OneOwner
    <2> SUFFICES ASSUME NEW m \in Names, NEW i \in Owners, Held(m, i)'
                 PROVE  /\ i \in Ids => i \in minted' /\ \A l \in Names : Held(l, i)' => l = m
                        /\ \A j \in Owners :
                              Held(m, j)' => i = j \/ {i, j} \cap Ids \subseteq mixed'
        BY DEF OneOwner
    <2>9. CASE Held(m, i) /\ i # id
        <3>1. i \in Ids => i \in minted /\ \A l \in Names : Held(l, i) => l = m
            BY <2>9 DEF OneOwner
        <3>2. ASSUME NEW j \in Owners, Held(m, j)'
              PROVE  i = j \/ {i, j} \cap Ids \subseteq mixed'
            <4>1. CASE Held(m, j)
                BY <4>1, <2>7, <2>9 DEF OneOwner
            <4>2. CASE m = n /\ j = id
                BY <4>2, <2>6, <2>9
            <4> QED
                BY <3>2, <2>3, <4>1, <4>2
        <3> QED
            BY <3>1, <3>2, <2>3, <2>7, <2>9
    <2>10. CASE i = id /\ m = n
        <3>1. i \in Ids => i \in minted' /\ \A l \in Names : Held(l, i)' => l = m
            BY <2>3, <2>4, <2>8, <2>10
        <3>2. ASSUME NEW j \in Owners, Held(m, j)'
              PROVE  i = j \/ {i, j} \cap Ids \subseteq mixed'
            BY <3>2, <2>3, <2>6, <2>10
        <3> QED
            BY <3>1, <3>2
    <2>11. CASE Held(m, i) /\ i = id
        <3>1. i \notin Ids
            BY <2>8, <2>11
        <3>2. ASSUME NEW j \in Owners, Held(m, j)'
              PROVE  i = j \/ {i, j} \cap Ids \subseteq mixed'
            <4>1. CASE Held(m, j)
                BY <4>1, <2>7, <2>11 DEF OneOwner
            <4>2. CASE m = n /\ j = id
                BY <4>2, <2>11
            <4> QED
                BY <3>2, <2>3, <4>1, <4>2
        <3> QED
            BY <3>1, <3>2
    <2> QED
        BY <2>3, <2>9, <2>10, <2>11
<1>2. ASSUME NEW n \in Names, StartOrStop(n)
      PROVE  OneOwner'
    <2>1. Announce("changed", n, inst[n].id) /\ inst[n].id \in Owners
          /\ "changed" \in {"changed", "deleted"}
        BY <1>2, <1>own DEF StartOrStop
    <2>2. \A e \in Elements(feed') :
             e \in Elements(feed) \/ e = [action |-> "changed", name |-> n, id |-> inst[n].id]
        BY <1>typ, <2>1, AnnounceEffect
    <2>3. \A m \in Names : inst'[m].id = inst[m].id
        BY <1>2, <1>typ DEF StartOrStop, TypeOK, Instances
    <2> QED
        BY <1>2, <2>2, <2>3, OwnersStay DEF StartOrStop, Held, watcher
<1>3. ASSUME NEW n \in Names, NEW byDriver \in BOOLEAN, DeleteInstance(n, byDriver)
      PROVE  OneOwner'
    <2>1. Announce("deleted", n, inst[n].id) /\ inst[n].id \in Owners
          /\ "deleted" \in {"changed", "deleted"}
        BY <1>3, <1>own DEF DeleteInstance
    <2>2. \A e \in Elements(feed') :
             e \in Elements(feed) \/ e = [action |-> "deleted", name |-> n, id |-> inst[n].id]
        BY <1>typ, <2>1, AnnounceEffect
    <2>3. \A m \in Names : inst'[m].id = inst[m].id \/ inst'[m].id = NoId
        BY <1>3, <1>typ DEF DeleteInstance, TypeOK, NoInstance
    <2> QED
        BY <1>3, <2>2, <2>3, OwnersStay DEF DeleteInstance, Held, watcher, Owners
<1>4. ASSUME LoseStream
      PROVE  OneOwner'
    BY <1>4, EmptyElements, OwnersStay DEF LoseStream, Held, lxd, Nothing, Owners
<1>5. ASSUME NEW id \in unsaid, AnnounceDeletion(id)
      PROVE  OneOwner'
    BY <1>5, OwnersStay DEF AnnounceDeletion, Held, lxd, watcher
<1>6. ASSUME ListBefore
      PROVE  OneOwner'
    BY <1>6, OwnersStay DEF ListBefore, Held, lxd, ManagedIds, Owners
<1>7. ASSUME Subscribe
      PROVE  OneOwner'
    BY <1>7, EmptyElements, OwnersStay DEF Subscribe, Held, lxd
<1>8. ASSUME ListAfter
      PROVE  OneOwner'
    <2>1. \A n \in Names : known'[n] \in {inst[n].id, pre[n], NoId} /\ pre'[n] = NoId
        BY <1>8 DEF ListAfter, BothListings, ManagedIds, Nothing
    <2> QED
        BY <1>8, <2>1, OwnersStay DEF ListAfter, Held, lxd, Owners
<1>9. ASSUME ReportGap
      PROVE  OneOwner'
    BY <1>9, OwnersStay DEF ReportGap, Held, lxd
<1>10. ASSUME TakeDeletion
       PROVE  OneOwner'
    <2>1. Elements(feed') \subseteq Elements(feed)
        BY <1>10, <1>typ, TailElements DEF TakeDeletion, TypeOK
    <2>2. \A n \in Names : known'[n] = known[n] \/ known'[n] = NoId
        BY <1>10, <1>typ DEF TakeDeletion, TypeOK
    <2> QED
        BY <1>10, <2>1, <2>2, OwnersStay DEF TakeDeletion, Held, lxd, Owners
<1>11. ASSUME TakeChange
       PROVE  OneOwner'
    <2>1. Elements(feed') \subseteq Elements(feed)
        BY <1>11, <1>typ, TailElements DEF TakeChange, TypeOK
    <2> QED
        BY <1>11, <2>1, OwnersStay DEF TakeChange, Held, lxd
<1>12. ASSUME ReadInstance
       PROVE  OneOwner'
    BY <1>12, OwnersStay DEF ReadInstance, Held, lxd
<1>13. ASSUME PublishSnapshot
       PROVE  OneOwner'
    <2>1. \A n \in Names : known'[n] = known[n] \/ (n = event /\ known'[n] = snapshot.id)
        BY <1>13, <1>typ DEF PublishSnapshot, TypeOK
    <2> QED
        BY <1>13, <2>1, OwnersStay DEF PublishSnapshot, Held, lxd
<1>14. ASSUME Gateway
       PROVE  OneOwner'
    <2>1. UNCHANGED <<lxd, watcher, feed>>
        BY <1>14 DEF Gateway, WatchSubscribe, WatchList, Deliver, WatchFails
    <2> QED
        BY <2>1, OwnersStay DEF Held, lxd, watcher
<1>15. ASSUME UNCHANGED vars
       PROVE  OneOwner'
    BY <1>15, OwnersStay DEF vars, Held
<1> QED
    BY <1>1, <1>2, <1>3, <1>4, <1>5, <1>6, <1>7, <1>8, <1>9, <1>10, <1>11, <1>12, <1>13,
       <1>14, <1>15 DEF Next, Environment, Driver

(* A sandbox that is gone stays gone: LXD gives no id twice. *)
LEMMA GoneStep ==
    ASSUME Typed, [Next]_vars
    PROVE  /\ minted \subseteq minted' /\ mixed \subseteq mixed'
           /\ \A i \in Ids : WasDeleted(i) => WasDeleted(i)'
<1>typ. TypeOK
    BY DEF Typed
<1>1. ASSUME NEW n \in Names, NEW id \in Owners, CreateInstance(n, id)
      PROVE  minted \subseteq minted' /\ mixed \subseteq mixed' /\ \A i \in Ids : WasDeleted(i) => WasDeleted(i)'
    BY <1>1, <1>typ DEF CreateInstance, WasDeleted, TypeOK
<1>2. ASSUME NEW n \in Names, StartOrStop(n)
      PROVE  minted \subseteq minted' /\ mixed \subseteq mixed' /\ \A i \in Ids : WasDeleted(i) => WasDeleted(i)'
    <2>1. \A m \in Names : inst'[m].id = inst[m].id
        BY <1>2, <1>typ DEF StartOrStop, TypeOK, Instances
    <2> QED
        BY <1>2, <2>1 DEF StartOrStop, WasDeleted
<1>3. ASSUME NEW n \in Names, NEW byDriver \in BOOLEAN, DeleteInstance(n, byDriver)
      PROVE  minted \subseteq minted' /\ mixed \subseteq mixed' /\ \A i \in Ids : WasDeleted(i) => WasDeleted(i)'
    <2>1. \A m \in Names : inst'[m].id = inst[m].id \/ inst'[m].id = NoId
        BY <1>3, <1>typ DEF DeleteInstance, TypeOK, NoInstance
    <2> QED
        BY <1>3, <2>1, WatcherAssumption DEF DeleteInstance, WasDeleted
<1>4. ASSUME UNCHANGED <<inst, minted, mixed>>
      PROVE  minted \subseteq minted' /\ mixed \subseteq mixed' /\ \A i \in Ids : WasDeleted(i) => WasDeleted(i)'
    BY <1>4 DEF WasDeleted
<1>5. LoseStream \/ Driver \/ Gateway \/ UNCHANGED vars => UNCHANGED <<inst, minted, mixed>>
    BY DEF LoseStream, Driver, AnnounceDeletion, ListBefore, Subscribe, ListAfter, ReportGap,
           TakeDeletion, TakeChange, ReadInstance, PublishSnapshot, Gateway, WatchSubscribe,
           WatchList, Deliver, WatchFails, lxd, vars
<1> QED
    BY <1>1, <1>2, <1>3, <1>4, <1>5 DEF Next, Environment

(* A sandbox known or sent under one name is no other name's. *)
LEMMA OwnerIsAlone ==
    ASSUME OneOwner, NEW n \in Names, NEW i \in Ids, Held(n, i), inst[n].id # i
    PROVE  WasDeleted(i)
    BY DEF OneOwner, WasDeleted, Held, Owners

(* A deletion sent under a name is the deletion of what is held there. *)
LEMMA SentIsGone ==
    ASSUME Typed, OneOwner, DeletionsAreTrue, NEW n \in Names, NEW i \in Ids \ mixed,
           Held(n, i), DeletionSent(n)
    PROVE  WasDeleted(i)
<1>1. PICK e \in Elements(feed) : e.name = n /\ e.action = "deleted"
    BY DEF DeletionSent
<1>2. e.id \in Owners
    <2>1. Elements(feed) \subseteq LxdEvents
        BY TypedElements DEF Typed, TypeOK
    <2> QED
        BY <2>1 DEF LxdEvents
<1>3. Held(n, e.id)
    BY <1>1 DEF Held
<1>4. e.id = i
    BY <1>2, <1>3 DEF OneOwner, Owners
<1> QED
    BY <1>1, <1>4 DEF DeletionsAreTrue

(* What is put into the channel or stays there is true when it was. *)
LEMMA WordsStay ==
    ASSUME Typed, DeletionsAreTrue, [Next]_vars, NEW more,
           more \subseteq WatchEvents, \A e \in more : TrueWord(e),
           Elements(queue') \subseteq Elements(queue) \cup more
    PROVE  \A e \in Elements(queue') : TrueWord(e)'
<1>1. Elements(queue) \subseteq WatchEvents
    BY TypedElements DEF Typed, TypeOK
<1>2. \A e \in Elements(queue) \cup more : e.id \in Ids /\ TrueWord(e)
    BY <1>1 DEF DeletionsAreTrue, WatchEvents
<1> QED
    BY <1>2, GoneStep DEF TrueWord

(* No step makes a deletion untrue that is told or about to be. *)
LEMMA DeletionsStep ==
    ASSUME WatcherInv, [Next]_vars
    PROVE  DeletionsAreTrue'
<1> USE WatcherAssumption
<1>typ. TypeOK /\ PhaseFits /\ Typed /\ OneOwner /\ DeletionsAreTrue
    BY DEF WatcherInv, Typed
<1>own. \A n \in Names : inst[n] # NoInstance => inst[n].id \in Owners
    BY <1>typ DEF TypeOK, PhaseFits, Instances
<1>min. minted \subseteq minted' /\ mixed \subseteq mixed'
        /\ \A i \in Ids : WasDeleted(i) => WasDeleted(i)'
    BY <1>typ, GoneStep
<1>ids. gap \subseteq Ids /\ unsaid \subseteq Ids
    BY <1>typ DEF TypeOK
<1> DEFINE SentTrue == \A e \in Elements(feed) :
                         e.action = "deleted" /\ e.id \in Ids => WasDeleted(e.id)
           PendingTrue == \A i \in gap \cup unsaid : WasDeleted(i)
           QueueTrue == \A e \in Elements(queue) : TrueWord(e)
           ViewTrue == /\ \A i \in Ids : view[i] # "none" => i \in minted
                       /\ \A i \in Ids \ mixed : view[i] = "deleted" => WasDeleted(i)
<1>parts. SentTrue /\ PendingTrue /\ QueueTrue /\ ViewTrue
    BY <1>typ DEF DeletionsAreTrue
<1>all. SentTrue' /\ PendingTrue' /\ QueueTrue' /\ ViewTrue' => DeletionsAreTrue'
    BY DEF DeletionsAreTrue
<1>sent. Elements(feed') \subseteq Elements(feed) => SentTrue'
    BY <1>parts, <1>min
<1>pend. gap' \subseteq gap /\ unsaid' \subseteq unsaid => PendingTrue'
    BY <1>parts, <1>min, <1>ids
<1>less. Elements(queue') \subseteq Elements(queue) => QueueTrue'
    <2>1. Elements(queue) \subseteq WatchEvents
        BY <1>typ, TypedElements DEF TypeOK
    <2> QED
        BY <2>1, <1>typ, <1>parts, WordsStay
<1>que. UNCHANGED queue => QueueTrue'
    BY <1>less
<1>view. UNCHANGED view => ViewTrue'
    BY <1>parts, <1>min
<1>send. ASSUME NEW e \in WatchEvents, Send(e), TrueWord(e)
         PROVE  QueueTrue'
    <2>1. Elements(queue') \subseteq Elements(queue) \cup {e}
        BY <1>send, <1>typ, SendEffect
    <2> QED
        BY <2>1, <1>send, <1>typ, WordsStay
<1> HIDE DEF SentTrue, PendingTrue, QueueTrue, ViewTrue
<1>1. ASSUME NEW n \in Names, NEW id \in Owners, CreateInstance(n, id)
      PROVE  DeletionsAreTrue'
    <2>1. Announce("changed", n, id) /\ "changed" \in {"changed", "deleted"}
        BY <1>1 DEF CreateInstance
    <2>2. \A e \in Elements(feed') :
             e \in Elements(feed) \/ e = [action |-> "changed", name |-> n, id |-> id]
        BY <1>typ, <2>1, AnnounceEffect
    <2>3. SentTrue'
        BY <2>2, <1>parts, <1>min DEF SentTrue
    <2> QED
        BY <1>1, <2>3, <1>pend, <1>que, <1>view, <1>all DEF CreateInstance, watcher, channel
<1>2. ASSUME NEW n \in Names, StartOrStop(n)
      PROVE  DeletionsAreTrue'
    <2>1. Announce("changed", n, inst[n].id) /\ inst[n].id \in Owners
          /\ "changed" \in {"changed", "deleted"}
        BY <1>2, <1>own DEF StartOrStop
    <2>2. \A e \in Elements(feed') :
             e \in Elements(feed) \/ e = [action |-> "changed", name |-> n, id |-> inst[n].id]
        BY <1>typ, <2>1, AnnounceEffect
    <2>3. SentTrue'
        BY <2>2, <1>parts, <1>min DEF SentTrue
    <2> QED
        BY <1>2, <2>3, <1>pend, <1>que, <1>view, <1>all DEF StartOrStop, watcher, channel
<1>3. ASSUME NEW n \in Names, NEW byDriver \in BOOLEAN, DeleteInstance(n, byDriver)
      PROVE  DeletionsAreTrue'
    <2>1. Announce("deleted", n, inst[n].id) /\ inst[n].id \in Owners
          /\ "deleted" \in {"changed", "deleted"}
        BY <1>3, <1>own DEF DeleteInstance
    <2>2. \A e \in Elements(feed') :
             e \in Elements(feed) \/ e = [action |-> "deleted", name |-> n, id |-> inst[n].id]
        BY <1>typ, <2>1, AnnounceEffect
    <2>4. inst'[n].id = NoId /\ \A m \in Names \ {n} : inst'[m] = inst[m]
        BY <1>3, <1>typ DEF DeleteInstance, TypeOK, NoInstance
    <2>0. PICK id \in Owners : id = inst[n].id
        BY <2>1
    <2>6. id \in Ids => WasDeleted(id)'
        <3>1. Held(n, id) /\ minted' = minted
            BY <1>3, <2>0 DEF Held, DeleteInstance
        <3>2. id \in Ids => id \in minted /\ \A m \in Names \ {n} : inst[m].id # id
            BY <2>0, <3>1, <1>typ DEF OneOwner, Held
        <3> QED
            BY <3>1, <3>2, <2>4 DEF WasDeleted
    <2>5. SentTrue'
        BY <2>0, <2>2, <2>6, <1>parts, <1>min DEF SentTrue
    <2>7. PendingTrue'
        BY <1>3, <2>0, <2>6, <1>min, <1>ids, <1>parts DEF DeleteInstance, PendingTrue, watcher
    <2> QED
        BY <1>3, <2>5, <2>7, <1>que, <1>view, <1>all DEF DeleteInstance, watcher, channel
<1>4. ASSUME LoseStream
      PROVE  DeletionsAreTrue'
    BY <1>4, EmptyElements, <1>sent, <1>pend, <1>que, <1>view, <1>all
       DEF LoseStream, lxd, channel
<1>5. ASSUME NEW id \in unsaid, AnnounceDeletion(id)
      PROVE  DeletionsAreTrue'
    <2>1. [kind |-> "deleted", id |-> id] \in WatchEvents
          /\ TrueWord([kind |-> "deleted", id |-> id])
        BY <1>ids, <1>parts DEF WatchEvents, TrueWord, WasDeleted, PendingTrue
    <2>2. QueueTrue'
        BY <1>5, <2>1, <1>send, <1>que DEF AnnounceDeletion, channel
    <2> QED
        BY <1>5, <2>2, <1>sent, <1>pend, <1>view, <1>all DEF AnnounceDeletion, lxd, watcher
<1>6. ASSUME ListBefore \/ Subscribe
      PROVE  DeletionsAreTrue'
    BY <1>6, EmptyElements, <1>sent, <1>pend, <1>que, <1>view, <1>all
       DEF ListBefore, Subscribe, lxd, channel
<1>7. ASSUME ListAfter
      PROVE  DeletionsAreTrue'
    <2>1. ASSUME NEW i \in gap'
          PROVE  WasDeleted(i)
        <3>1. PICK n \in Names : known[n] = i /\ i # NoId /\ GoneFromBoth(n, ManagedIds)
            BY <1>7 DEF ListAfter
        <3>2. i \in Ids /\ inst[n].id # i
            BY <3>1, <1>typ DEF TypeOK, GoneFromBoth, ManagedIds
        <3> QED
            BY <3>1, <3>2, <1>typ, OwnerIsAlone DEF Held
    <2>2. gap' \subseteq Ids
        BY <1>7, <1>typ DEF ListAfter, TypeOK
    <2>3. PendingTrue'
        BY <1>7, <2>1, <2>2, <1>min, <1>ids, <1>parts DEF ListAfter, PendingTrue
    <2> QED
        BY <1>7, <2>3, <1>sent, <1>que, <1>view, <1>all DEF ListAfter, lxd, channel
<1>8. ASSUME ReportGap
      PROVE  DeletionsAreTrue'
    <2>1. CASE gap = {}
        BY <1>8, <2>1, <1>sent, <1>pend, <1>que, <1>view, <1>all DEF ReportGap, lxd, channel
    <2>2. CASE gap # {}
        <3>1. PICK id \in gap : gap' = gap \ {id} /\ Send([kind |-> "deleted", id |-> id])
            BY <1>8, <2>2 DEF ReportGap
        <3>2. [kind |-> "deleted", id |-> id] \in WatchEvents
              /\ TrueWord([kind |-> "deleted", id |-> id])
            BY <1>ids, <1>parts DEF WatchEvents, TrueWord, WasDeleted, PendingTrue
        <3>3. QueueTrue'
            BY <3>1, <3>2, <1>send
        <3> QED
            BY <1>8, <3>1, <3>3, <1>sent, <1>pend, <1>view, <1>all DEF ReportGap, lxd
    <2> QED
        BY <2>1, <2>2
<1>9. ASSUME TakeDeletion
      PROVE  DeletionsAreTrue'
    <2> DEFINE n == Head(feed).name
    <2>1. Elements(feed') \subseteq Elements(feed) /\ Head(feed) \in Elements(feed)
          /\ Head(feed) \in LxdEvents
        BY <1>9, <1>typ, TailElements DEF TakeDeletion, TypeOK
    <2>2. n \in Names /\ DeletionSent(n)
        BY <2>1, <1>9 DEF TakeDeletion, LxdEvents, DeletionSent
    <2>3. QueueTrue'
        <3>1. CASE known[n] = NoId
            BY <1>9, <3>1, <1>que DEF TakeDeletion, channel
        <3>2. CASE known[n] # NoId
            <4>1. known[n] \in Ids /\ Held(n, known[n])
                BY <2>2, <3>2, <1>typ DEF TypeOK, Held
            <4>2. known[n] \in minted /\ (known[n] \in mixed \/ WasDeleted(known[n]))
                BY <2>2, <4>1, <1>typ, SentIsGone DEF OneOwner, Owners
            <4>3. [kind |-> "deleted", id |-> known[n]] \in WatchEvents
                  /\ TrueWord([kind |-> "deleted", id |-> known[n]])
                BY <4>1, <4>2 DEF WatchEvents, TrueWord
            <4>4. Send([kind |-> "deleted", id |-> known[n]])
                BY <1>9, <3>2 DEF TakeDeletion
            <4> QED
                BY <4>3, <4>4, <1>send
        <3> QED
            BY <3>1, <3>2
    <2> QED
        BY <1>9, <2>1, <2>3, <1>sent, <1>pend, <1>view, <1>all DEF TakeDeletion, lxd
<1>10. ASSUME TakeChange
       PROVE  DeletionsAreTrue'
    <2>1. Elements(feed') \subseteq Elements(feed)
        BY <1>10, <1>typ, TailElements DEF TakeChange, TypeOK
    <2> QED
        BY <1>10, <2>1, <1>sent, <1>pend, <1>que, <1>view, <1>all DEF TakeChange, lxd, channel
<1>11. ASSUME ReadInstance
       PROVE  DeletionsAreTrue'
    BY <1>11, <1>sent, <1>pend, <1>que, <1>view, <1>all DEF ReadInstance, lxd, channel
<1>12. ASSUME PublishSnapshot
       PROVE  DeletionsAreTrue'
    <2>1. event \in Names /\ snapshot.id \in Ids /\ Held(event, snapshot.id)
        BY <1>12, <1>typ DEF PublishSnapshot, PhaseFits, Held
    <2>2. snapshot.id \in minted
        BY <2>1, <1>typ DEF OneOwner, Owners
    <2>3. [kind |-> StateOf(snapshot.up), id |-> snapshot.id] \in WatchEvents
          /\ TrueWord([kind |-> StateOf(snapshot.up), id |-> snapshot.id])
        BY <2>1, <2>2 DEF WatchEvents, TrueWord, StateOf
    <2>4. QueueTrue'
        BY <1>12, <2>3, <1>send DEF PublishSnapshot
    <2> QED
        BY <1>12, <2>4, <1>sent, <1>pend, <1>view, <1>all DEF PublishSnapshot, lxd
<1>13. ASSUME Gateway
       PROVE  DeletionsAreTrue'
    <2>0. SentTrue' /\ PendingTrue'
        BY <1>13, <1>sent, <1>pend
           DEF Gateway, WatchSubscribe, WatchList, Deliver, WatchFails, lxd, watcher
    <2>none. queue' = <<>> => QueueTrue'
        BY EmptyElements DEF QueueTrue
    <2>1. CASE WatchSubscribe
        BY <2>0, <2>1, <2>none, <1>view, <1>all DEF WatchSubscribe
    <2>2. CASE WatchList
        <3>1. \A i \in Ids : view'[i] # "none" => i \in minted /\ view'[i] # "deleted"
            <4> SUFFICES ASSUME NEW i \in Ids, view'[i] # "none"
                         PROVE  i \in minted /\ view'[i] # "deleted"
                OBVIOUS
            <4>1. PICK n \in Names : inst[n].id = i
                BY <2>2 DEF WatchList
            <4>2. view'[i] = StateOf(inst[CHOOSE m \in Names : inst[m].id = i].up)
                BY <2>2, <4>1 DEF WatchList
            <4> QED
                BY <4>1, <4>2, <1>typ DEF StateOf, OneOwner, Held, Owners
        <3>2. ViewTrue'
            BY <3>1, <1>min DEF ViewTrue
        <3> QED
            BY <2>0, <2>2, <3>2, <1>que, <1>all DEF WatchList, channel
    <2>3. CASE Deliver
        <3>1. /\ queue # <<>> /\ queue \in Seq(WatchEvents)
              /\ queue' = Tail(queue)
              /\ view' = [view EXCEPT ![Head(queue).id] = Head(queue).kind]
            BY <2>3, <1>typ DEF Deliver, TypeOK
        <3>2. /\ Elements(queue') \subseteq Elements(queue)
              /\ Head(queue) \in Elements(queue) /\ Head(queue) \in WatchEvents
            BY <3>1, TailElements
        <3>3. QueueTrue'
            BY <3>2, <1>less
        <3>4. TrueWord(Head(queue))
            BY <3>2, <1>parts DEF QueueTrue
        <3>5. PICK h \in WatchEvents : h = Head(queue)
            BY <3>2
        <3>6. \A i \in Ids : view'[i] = IF i = h.id THEN h.kind ELSE view[i]
            BY <3>1, <3>5, <1>typ DEF TypeOK
        <3>7. ViewTrue'
            BY <3>4, <3>5, <3>6, <1>min, <1>parts DEF ViewTrue, TrueWord, WatchEvents
        <3> QED
            BY <2>0, <3>3, <3>7, <1>all
    <2>4. CASE WatchFails
        <3>1. ViewTrue'
            BY <2>4 DEF WatchFails, ViewTrue
        <3> QED
            BY <2>0, <2>4, <2>none, <3>1, <1>all DEF WatchFails
    <2> QED
        BY <1>13, <2>1, <2>2, <2>3, <2>4 DEF Gateway
<1>14. ASSUME UNCHANGED vars
       PROVE  DeletionsAreTrue'
    BY <1>14, <1>sent, <1>pend, <1>que, <1>view, <1>all DEF vars
<1> QED
    BY <1>1, <1>2, <1>3, <1>4, <1>5, <1>6, <1>7, <1>8, <1>9, <1>10, <1>11, <1>12, <1>13,
       <1>14 DEF Next, Environment, Driver

LEMMA WatcherInit == Init => OneOwner /\ DeletionsAreTrue
<1> SUFFICES ASSUME Init PROVE OneOwner /\ DeletionsAreTrue
    OBVIOUS
<1>1. Elements(feed) = {} /\ Elements(queue) = {}
    BY EmptyElements DEF Init
<1>2. \A n \in Names : \A i \in Owners : ~ Held(n, i)
    BY <1>1, WatcherAssumption DEF Init, Held, NoInstance, Nothing, Owners
<1> QED
    BY <1>1, <1>2 DEF Init, OneOwner, DeletionsAreTrue, DeletionSent

LEMMA WatcherStep ==
    WatcherInv /\ [Next]_vars => WatcherInv'
    BY TypedStep, OwnersStep, DeletionsStep DEF WatcherInv

(* The state of the watcher, the channel and the streams is of its types,  *)
(* with every phase of the watcher's task finding what it needs.           *)
THEOREM WatcherTyped == Spec => []TypeOK
<1>1. Typed => TypeOK
    BY DEF Typed
<1> QED
    BY <1>1, TypedInit, TypedStep, PTL DEF Spec

(* The inductive invariant holds throughout: what the watcher, the channel *)
(* and the stream say of a deletion is true, unless names were mixed.      *)
THEOREM WatcherInvHolds == Spec => []WatcherInv
<1>1. Init => WatcherInv
    BY TypedInit, WatcherInit DEF WatcherInv
<1>2. WatcherInv /\ [Next]_vars => WatcherInv'
    BY WatcherStep
<1> QED
    BY <1>1, <1>2, PTL DEF Spec

(* A sandbox that the gateway was told is deleted does not exist, whoever  *)
(* published the deletion (DeleteSandbox, an event or a reconciliation)    *)
(* and whatever the names, unless its name was given to it while the       *)
(* watcher still held something of the instance that had it before         *)
(* (run_once, watch_sandboxes).                                            *)
THEOREM DeletionsToldAreTrue == Spec => []ToldDeletedAreGone
<1>1. WatcherInv => ToldDeletedAreGone
    BY DEF WatcherInv, DeletionsAreTrue, ToldDeletedAreGone, WasDeleted, Gone
<1> QED
    BY <1>1, WatcherInvHolds, PTL

-----------------------------------------------------------------------------
(* Catching up *)

(* A step leaves a sandbox alone. *)
Untouched(i) ==
    \A n \in Names : /\ inst'[n].id = i <=> inst[n].id = i
                     /\ inst[n].id = i => inst'[n] = inst[n]

LEMMA FitsStays ==
    ASSUME NEW i, Untouched(i), NEW word
    PROVE  Fits(i, word) => Fits(i, word)'
    BY DEF Untouched, Fits

LEMMA ToldStays ==
    ASSUME NEW i, Untouched(i), UNCHANGED <<queue, stream, view>>
    PROVE  ToldRight(i) => ToldRight(i)'
    BY FitsStays DEF ToldRight, Says

(* What the watcher owes it still owes while it holds what it held and     *)
(* its subscription grows.                                                 *)
LEMMA DebtStays ==
    ASSUME NEW i, Untouched(i), Elements(feed) \subseteq Elements(feed'), UNCHANGED watcher
    PROVE  OwesState(i) \/ OwesDeletion(i) => (OwesState(i) \/ OwesDeletion(i))'
<1>1. \A n \in Names : (Announced(n) => Announced(n)') /\ (DeletionSent(n) => DeletionSent(n)')
    BY DEF Announced, DeletionSent
<1>2. OwesState(i) => OwesState(i)'
    BY <1>1 DEF OwesState, Untouched, watcher
<1>3. OwesDeletion(i) => OwesDeletion(i)'
    BY <1>1 DEF OwesDeletion, DeletionIsDue, Untouched, watcher
<1> QED
    BY <1>2, <1>3

(* A word sent is the last the stream will hear of its sandbox, and leaves *)
(* the last word on the others.                                            *)
LEMMA SendTells ==
    ASSUME TypeOK, NEW e \in WatchEvents, Send(e), stream # "off", ~ lagged',
           UNCHANGED <<inst, stream, view>>, NEW i \in Ids
    PROVE  /\ e.id = i /\ Fits(i, e.kind) => ToldRight(i)'
           /\ e.id # i /\ ToldRight(i) => ToldRight(i)'
<1>1. queue' = Append(queue, e) /\ queue \in Seq(WatchEvents)
    BY SendEffect DEF TypeOK
<1>2. Untouched(i)
    BY DEF Untouched
<1>3. e.kind \in {"none", "up", "down", "deleted"}
    BY DEF WatchEvents
<1>4. ASSUME e.id = i, Fits(i, e.kind)
      PROVE  ToldRight(i)'
    <2>1. LastWord(queue', i, e.kind)
        BY <1>1, <1>4, AppendLastWord
    <2>2. Fits(i, e.kind)'
        BY <1>2, <1>4, FitsStays
    <2> QED
        BY <1>3, <2>1, <2>2 DEF ToldRight, Says
<1>5. ASSUME e.id # i, ToldRight(i)
      PROVE  ToldRight(i)'
    <2>1. Silent(queue, i) => Silent(queue', i)
        BY <1>1, <1>5, AppendElements DEF Silent
    <2>2. \A word : LastWord(queue, i, word) => LastWord(queue', i, word)
        BY <1>1, <1>5, AppendLastWord
    <2>3. \A word : Says(i, word) => Says(i, word)'
        BY <2>1, <2>2 DEF Says
    <2> QED
        BY <1>2, <1>5, <2>1, <2>3, FitsStays DEF ToldRight
<1> QED
    BY <1>4, <1>5

LEMMA EventIsSent ==
    ASSUME NEW action, NEW n, NEW id,
           Elements(feed') = Elements(feed) \cup {[action |-> action, name |-> n, id |-> id]}
    PROVE  Announced(n)' /\ (action = "deleted" => DeletionSent(n)')
<1>1. PICK e : e = [action |-> action, name |-> n, id |-> id]
    OBVIOUS
<1>2. e \in Elements(feed') /\ e.name = n /\ e.action = action
    BY <1>1
<1> QED
    BY <1>2 DEF Announced, DeletionSent

(* A snapshot that goes out of date while it is published is followed. *)
LEMMA SnapshotStep ==
    ASSUME WatcherInv, SnapshotIsFollowed, [Next]_vars
    PROVE  SnapshotIsFollowed'
<1> USE WatcherAssumption
<1>typ. TypeOK /\ PhaseFits
    BY DEF WatcherInv, Typed
<1>own. \A n \in Names : inst[n] # NoInstance => inst[n].id \in Owners
    BY <1>typ DEF TypeOK, PhaseFits, Instances
<1>pub. phase = "publishing" => Subscribed /\ event \in Names /\ snapshot.id \in Ids
    BY <1>typ DEF PhaseFits, Subscribed
<1>1. ASSUME NEW n \in Names, NEW action \in {"changed", "deleted"}, NEW id \in Owners,
             Announce(action, n, id), UNCHANGED watcher,
             \A m \in Names \ {n} : inst'[m] = inst[m],
             action = "changed" => inst[n].id \in {NoId, id} /\ inst'[n].id = id
      PROVE  SnapshotIsFollowed'
    <2> SUFFICES ASSUME phase = "publishing"
                 PROVE  \/ inst'[event] = snapshot
                        \/ inst'[event].id = snapshot.id /\ Announced(event)'
                        \/ DeletionSent(event)'
        BY <1>1 DEF SnapshotIsFollowed, watcher, Announced, DeletionSent
    <2>1. Elements(feed') = Elements(feed) \cup {[action |-> action, name |-> n, id |-> id]}
        BY <1>1, <1>pub, <1>typ, AnnounceEffect
    <2>2. event' = event
        BY <1>1 DEF watcher
    <2>3. (Announced(event) => Announced(event)') /\ (DeletionSent(event) => DeletionSent(event)')
        BY <2>1, <2>2 DEF Announced, DeletionSent
    <2>4. CASE event # n
        BY <2>3, <2>4, <1>1, <1>pub DEF SnapshotIsFollowed
    <2>5. CASE event = n /\ action = "changed"
        <3>1. Announced(event)'
            BY <2>1, <2>2, <2>5, EventIsSent DEF Announced
        <3> QED
            BY <3>1, <2>3, <2>5, <1>1, <1>pub DEF SnapshotIsFollowed
    <2>6. CASE event = n /\ action = "deleted"
        BY <2>1, <2>2, <2>6, EventIsSent DEF DeletionSent
    <2> QED
        BY <2>4, <2>5, <2>6
<1>2. ASSUME NEW n \in Names, NEW id \in Owners, CreateInstance(n, id)
      PROVE  SnapshotIsFollowed'
    <2>1. Announce("changed", n, id) /\ UNCHANGED watcher /\ inst[n].id = NoId /\ inst'[n].id = id
          /\ \A m \in Names \ {n} : inst'[m] = inst[m]
        BY <1>2, <1>typ DEF CreateInstance, TypeOK, NoInstance
    <2> QED
        BY <2>1, <1>1
<1>3. ASSUME NEW n \in Names, StartOrStop(n)
      PROVE  SnapshotIsFollowed'
    <2>1. Announce("changed", n, inst[n].id) /\ UNCHANGED watcher /\ inst'[n].id = inst[n].id
          /\ \A m \in Names \ {n} : inst'[m] = inst[m]
        BY <1>3, <1>typ DEF StartOrStop, TypeOK, Instances
    <2>2. inst[n].id \in Owners
        BY <1>3, <1>own DEF StartOrStop
    <2> QED
        BY <2>1, <2>2, <1>1
<1>4. ASSUME NEW n \in Names, NEW byDriver \in BOOLEAN, DeleteInstance(n, byDriver)
      PROVE  SnapshotIsFollowed'
    <2>1. Announce("deleted", n, inst[n].id) /\ UNCHANGED watcher
          /\ \A m \in Names \ {n} : inst'[m] = inst[m]
        BY <1>4, <1>typ DEF DeleteInstance, TypeOK
    <2>2. inst[n].id \in Owners
        BY <1>4, <1>own DEF DeleteInstance
    <2> QED
        BY <2>1, <2>2, <1>1
<1>5. ASSUME UNCHANGED <<inst, phase, event, snapshot, feed>>
      PROVE  SnapshotIsFollowed'
    BY <1>5 DEF SnapshotIsFollowed, Announced, DeletionSent
<1>6. ASSUME phase' # "publishing"
      PROVE  SnapshotIsFollowed'
    BY <1>6 DEF SnapshotIsFollowed
<1>7. ASSUME ReadInstance
      PROVE  SnapshotIsFollowed'
    BY <1>7 DEF ReadInstance, SnapshotIsFollowed, lxd
<1>8. LoseStream \/ ListBefore \/ Subscribe \/ ListAfter \/ ReportGap \/ TakeDeletion \/ TakeChange
      \/ PublishSnapshot => phase' # "publishing"
    BY DEF LoseStream, ListBefore, Subscribe, ListAfter, ReportGap, TakeDeletion, TakeChange,
           PublishSnapshot
<1>9. (\E id \in unsaid : AnnounceDeletion(id)) \/ Gateway \/ UNCHANGED vars
         => UNCHANGED <<inst, phase, event, snapshot, feed>>
    BY DEF AnnounceDeletion, Gateway, WatchSubscribe, WatchList, Deliver, WatchFails, lxd,
           watcher, vars
<1> QED
    BY <1>2, <1>3, <1>4, <1>5, <1>6, <1>7, <1>8, <1>9 DEF Next, Environment, Driver

(* LXD's changes: of a sandbox that was noticed the watcher owes a word,   *)
(* and the others are as they were.                                        *)
LEMMA ServedByLxd ==
    ASSUME WatcherInv, CaughtUpInv, NEW i \in Ids, i \notin missed' \cup mixed',
           stream' # "off", ~ lagged', Environment
    PROVE  Served(i)'
<1> USE WatcherAssumption
<1>typ. TypeOK /\ PhaseFits /\ OneOwner /\ DeletionsAreTrue
    BY DEF WatcherInv, Typed
<1>own. \A n \in Names : inst[n] # NoInstance => inst[n].id \in Owners
    BY <1>typ DEF TypeOK, PhaseFits, Instances
<1>mix. i \notin mixed
    BY GoneStep DEF WatcherInv, Next
<1>srv. stream # "off" /\ ~ lagged /\ i \notin missed => Served(i)
    BY <1>mix DEF CaughtUpInv, Informed, Served
<1>1. ASSUME NEW n \in Names, NEW action \in {"changed", "deleted"}, NEW id \in Owners, id # i,
             Announce(action, n, id), UNCHANGED <<watcher, stream, channel, view>>,
             \A m \in Names \ {n} : inst'[m] = inst[m],
             inst[n].id # i /\ inst'[n].id # i
      PROVE  Served(i)'
    <2>1. Elements(feed) \subseteq Elements(feed') /\ i \notin missed
        BY <1>1, <1>typ, AnnounceEffect
    <2>2. Untouched(i)
        BY <1>1 DEF Untouched
    <2>3. Served(i)
        BY <1>1, <1>srv, <2>1 DEF channel
    <2> QED
        BY <1>1, <2>1, <2>2, <2>3, ToldStays, DebtStays DEF Served, channel
<1>2. ASSUME NEW n \in Names, Announce("changed", n, i), inst'[n].id = i, UNCHANGED watcher
      PROVE  Served(i)'
    <2>1. i \in Owners /\ "changed" \in {"changed", "deleted"}
        BY DEF Owners
    <2>2. Noticed("changed", n, i)
        BY <1>2, <1>typ, <2>1, AnnounceEffect
    <2>3. Subscribed
        BY <2>2 DEF Noticed
    <2>4. Elements(feed') =
             Elements(feed) \cup {[action |-> "changed", name |-> n, id |-> i]}
        BY <1>2, <1>typ, <2>1, <2>3, AnnounceEffect
    <2>5. Announced(n)'
        BY <2>4, EventIsSent
    <2> QED
        BY <1>2, <2>5 DEF Served, OwesState
<1>3. ASSUME NEW n \in Names, NEW id \in Owners, CreateInstance(n, id)
      PROVE  Served(i)'
    <2>1. /\ Announce("changed", n, id) /\ UNCHANGED <<watcher, stream, channel, view>>
          /\ inst[n].id = NoId /\ inst'[n].id = id
          /\ \A m \in Names \ {n} : inst'[m] = inst[m]
        BY <1>3, <1>typ DEF CreateInstance, TypeOK, NoInstance
    <2>2. CASE id = i
        BY <2>1, <2>2, <1>2
    <2>3. CASE id # i
        BY <2>1, <2>3, <1>1
    <2> QED
        BY <2>2, <2>3
<1>4. ASSUME NEW n \in Names, StartOrStop(n)
      PROVE  Served(i)'
    <2>1. /\ Announce("changed", n, inst[n].id) /\ UNCHANGED <<watcher, stream, channel, view>>
          /\ inst'[n].id = inst[n].id
          /\ \A m \in Names \ {n} : inst'[m] = inst[m]
        BY <1>4, <1>typ DEF StartOrStop, TypeOK, Instances
    <2>2. inst[n].id \in Owners
        BY <1>4, <1>own DEF StartOrStop
    <2>3. CASE inst[n].id = i
        BY <2>1, <2>3, <1>2
    <2>4. CASE inst[n].id # i
        BY <2>1, <2>2, <2>4, <1>1
    <2> QED
        BY <2>3, <2>4
<1>5. ASSUME NEW n \in Names, NEW byDriver \in BOOLEAN, DeleteInstance(n, byDriver)
      PROVE  Served(i)'
    <2>1. /\ Announce("deleted", n, inst[n].id) /\ UNCHANGED <<watcher, stream, channel, view>>
          /\ inst'[n].id = NoId
          /\ \A m \in Names \ {n} : inst'[m] = inst[m]
        BY <1>5, <1>typ DEF DeleteInstance, TypeOK, NoInstance
    <2>2. inst[n].id \in Owners
        BY <1>5, <1>own DEF DeleteInstance
    <2>3. CASE inst[n].id # i
        BY <2>1, <2>2, <2>3, <1>1
    <2>4. CASE inst[n].id = i
        <3>1. Noticed("deleted", n, i) /\ i \in Owners /\ "deleted" \in {"changed", "deleted"}
            BY <2>1, <2>2, <2>4, <1>typ, AnnounceEffect
        <3>2. \A m \in Names : inst'[m].id # i
            BY <2>1, <2>4, <1>typ DEF OneOwner, Held, Owners
        <3>3. CASE Subscribed /\ Seen(n, i)
            <4>1. Elements(feed') =
                     Elements(feed) \cup {[action |-> "deleted", name |-> n, id |-> i]}
                BY <2>1, <2>4, <3>1, <3>3, <1>typ, AnnounceEffect
            <4>2. DeletionSent(n)'
                BY <4>1, EventIsSent
            <4>3. snapshot.id = i => phase = "publishing" /\ event \in Names
                BY <1>typ DEF PhaseFits, NoInstance
            <4>4. snapshot.id = i => event = n
                BY <4>3, <2>4, <1>typ DEF OneOwner, Held, Owners
            <4>5. DeletionIsDue(n, i)'
                BY <2>1, <3>3, <4>2, <4>3, <4>4 DEF DeletionIsDue, Seen, watcher
            <4> QED
                BY <3>2, <4>5 DEF Served, OwesDeletion
        <3>4. CASE phase = "listing" /\ known[n] = i
            <4>1. pre[n] = NoId
                BY <3>4, <1>typ DEF PhaseFits, Nothing
            <4>2. DeletionIsDue(n, i)'
                BY <2>1, <3>4, <4>1 DEF DeletionIsDue, watcher
            <4> QED
                BY <3>2, <4>2 DEF Served, OwesDeletion
        <3> QED
            BY <3>1, <3>3, <3>4 DEF Noticed
    <2> QED
        BY <2>3, <2>4
<1>6. ASSUME LoseStream
      PROVE  Served(i)'
    <2>1. /\ UNCHANGED <<inst, known, gap, event, snapshot, stream, queue, lagged, view>>
          /\ phase \in {"subscribing", "relisting", "idle"} /\ phase' = "listing"
          /\ pre' = Nothing
          /\ missed \subseteq missed'
        BY <1>6 DEF LoseStream, lxd, channel
    <2>2. \A e \in Elements(feed) : e.id = i => inst[e.name].id # i /\ known[e.name] = i
        BY <1>6 DEF LoseStream, Elements
    <2>3. Elements(feed) \subseteq LxdEvents
        BY <1>typ, TypedElements DEF TypeOK
    <2>4. ASSUME NEW n \in Names, NEW e \in Elements(feed), e.name = n, Held(n, i)
          PROVE  e.id = i
        <3>1. e.id \in Owners /\ Held(n, e.id)
            BY <2>3, <2>4 DEF LxdEvents, Held
        <3> QED
            BY <2>4, <3>1, <1>typ, <1>mix DEF OneOwner, Owners
    <2>5. Untouched(i)
        BY <2>1 DEF Untouched
    <2>6. Served(i)
        BY <2>1, <1>srv
    <2>7. ~ OwesState(i)
        <3> SUFFICES ASSUME NEW n \in Names, inst[n].id = i, Announced(n) PROVE FALSE
            BY <2>1 DEF OwesState
        <3>1. PICK e \in Elements(feed) : e.name = n
            BY DEF Announced
        <3>2. e.id = i
            BY <3>1, <2>4 DEF Held
        <3> QED
            BY <3>1, <3>2, <2>2
    <2>8. OwesDeletion(i) => OwesDeletion(i)'
        <3> SUFFICES ASSUME OwesDeletion(i) PROVE OwesDeletion(i)'
            OBVIOUS
        <3>1. gap = {}
            BY <2>1, <1>typ DEF PhaseFits
        <3>2. PICK n \in Names : DeletionIsDue(n, i)
            BY <3>1 DEF OwesDeletion
        <3>3. CASE DeletionSent(n) /\ i \in {known[n], pre[n]}
            <4>1. PICK e \in Elements(feed) : e.name = n
                BY <3>3 DEF DeletionSent
            <4>2. known[n] = i
                BY <4>1, <3>3, <2>2, <2>4 DEF Held
            <4>3. DeletionIsDue(n, i)'
                BY <4>2, <2>1 DEF DeletionIsDue, Nothing
            <4> QED
                BY <4>3, <2>1 DEF OwesDeletion
        <3>4. CASE known[n] = i
            <4>1. DeletionIsDue(n, i)'
                BY <3>4, <2>1 DEF DeletionIsDue, Nothing
            <4> QED
                BY <4>1, <2>1 DEF OwesDeletion
        <3> QED
            BY <3>2, <3>3, <3>4, <2>1 DEF DeletionIsDue
    <2> QED
        BY <2>1, <2>5, <2>6, <2>7, <2>8, ToldStays DEF Served
<1> QED
    BY <1>3, <1>4, <1>5, <1>6 DEF Environment

(* The watcher's steps, and DeleteSandbox's: what was owed is told or      *)
(* still owed.                                                             *)
LEMMA ServedByDriver ==
    ASSUME WatcherInv, CaughtUpInv, NEW i \in Ids, i \notin missed' \cup mixed',
           stream' # "off", ~ lagged', Driver
    PROVE  Served(i)'
<1> USE WatcherAssumption
<1>typ. TypeOK /\ PhaseFits /\ OneOwner /\ DeletionsAreTrue /\ SnapshotIsFollowed
    BY DEF WatcherInv, Typed, CaughtUpInv
<1>typed. Typed
    BY DEF WatcherInv
<1>all. /\ inst' = inst /\ stream' = stream /\ view' = view /\ mixed' = mixed
        /\ ReadInstance \/ missed' = missed
    BY DEF Driver, AnnounceDeletion, ListBefore, Subscribe, ListAfter, ReportGap, TakeDeletion,
           TakeChange, ReadInstance, PublishSnapshot, lxd
<1>unt. Untouched(i)
    BY <1>all DEF Untouched
<1>8. ASSUME ReadInstance
      PROVE  Served(i)'
    <2>1. phase = "reading" /\ UNCHANGED <<feed, known, pre, gap, event, channel>>
          /\ phase' \in {"idle", "publishing"} /\ event \in Names
        BY <1>8, <1>typ DEF ReadInstance, PhaseFits
    <2>2. CASE inst[event].id = i
        <3>1. phase' = "publishing" /\ snapshot' = inst[event]
            BY <1>8, <2>2 DEF ReadInstance
        <3> QED
            BY <3>1, <2>1, <2>2, <1>all DEF Served, OwesState
    <2>3. CASE inst[event].id # i
        <3>1. i \notin missed
            BY <1>8, <2>3 DEF ReadInstance
        <3>2. Served(i)
            BY <3>1, <2>1, <1>all DEF CaughtUpInv, Informed, Served, channel
        <3>3. ToldRight(i) => ToldRight(i)'
            BY <2>1, <1>all, <1>unt, ToldStays DEF channel
        <3>4. OwesState(i) => OwesState(i)'
            BY <2>1, <2>3, <1>all DEF OwesState, Announced
        <3>5. OwesDeletion(i) => OwesDeletion(i)'
            BY <2>1, <1>all DEF OwesDeletion, DeletionIsDue, DeletionSent
        <3> QED
            BY <3>2, <3>3, <3>4, <3>5 DEF Served
    <2> QED
        BY <2>2, <2>3
<1> SUFFICES ASSUME ~ ReadInstance PROVE Served(i)'
    BY <1>8
<1>same. inst' = inst /\ stream' = stream /\ view' = view /\ i \notin missed \cup mixed
    BY <1>all
<1>srv. ~ lagged => Served(i)
    BY <1>same DEF CaughtUpInv, Informed, Served
<1>calm. UNCHANGED channel => (Served(i) /\ (ToldRight(i) => ToldRight(i)'))
    BY <1>same, <1>unt, <1>srv, ToldStays DEF channel
<1>send. ASSUME NEW e \in WatchEvents, Send(e)
         PROVE  /\ Served(i)
                /\ e.id = i /\ Fits(i, e.kind) => ToldRight(i)'
                /\ e.id # i /\ ToldRight(i) => ToldRight(i)'
    <2>1. ~ lagged
        BY <1>send, <1>same, <1>typ, SendEffect
    <2> QED
        BY <2>1, <1>send, <1>same, <1>srv, <1>typ, SendTells
<1>bye. ASSUME WasDeleted(i)
        PROVE  Fits(i, "deleted")
    BY <1>bye DEF WasDeleted, Fits
<1>1. ASSUME NEW id \in unsaid, AnnounceDeletion(id)
      PROVE  Served(i)'
    <2>1. [kind |-> "deleted", id |-> id] \in WatchEvents /\ WasDeleted(id)
        BY <1>typ DEF TypeOK, WatchEvents, DeletionsAreTrue
    <2>2. OwesState(i) \/ OwesDeletion(i) => (OwesState(i) \/ OwesDeletion(i))'
        BY <1>1, <1>unt, DebtStays DEF AnnounceDeletion
    <2>3. CASE UNCHANGED channel
        BY <2>2, <2>3, <1>calm DEF Served
    <2>4. CASE Send([kind |-> "deleted", id |-> id])
        <3>1. PICK e \in WatchEvents : e = [kind |-> "deleted", id |-> id]
            BY <2>1
        <3>2. Send(e) /\ e.id = id /\ e.kind = "deleted"
            BY <2>4, <3>1
        <3>3. /\ Served(i)
              /\ id = i => ToldRight(i)'
              /\ id # i /\ ToldRight(i) => ToldRight(i)'
            BY <3>2, <2>1, <1>send, <1>bye
        <3> QED
            BY <3>3, <2>2 DEF Served
    <2> QED
        BY <1>1, <2>3, <2>4 DEF AnnounceDeletion
<1>2. ASSUME ListBefore
      PROVE  Served(i)'
    <2>1. Served(i) /\ (ToldRight(i) => ToldRight(i)')
        BY <1>2, <1>calm DEF ListBefore
    <2>2. phase = "listing" /\ gap = {} /\ Elements(feed) = {}
        BY <1>2, <1>typ, EmptyElements DEF ListBefore, PhaseFits, Subscribed
    <2>3. ~ OwesState(i)
        BY <2>2 DEF OwesState, Announced
    <2>4. ASSUME OwesDeletion(i)
          PROVE  OwesDeletion(i)'
        <3>1. PICK n \in Names : known[n] = i /\ inst[n].id # i
            BY <2>2, <2>4 DEF OwesDeletion, DeletionIsDue, DeletionSent
        <3>2. inst[n].id \notin Ids
            BY <3>1, <1>typ, <1>same DEF OneOwner, Held, Owners
        <3>3. DeletionIsDue(n, i)'
            BY <1>2, <3>1, <3>2 DEF ListBefore, DeletionIsDue, ManagedIds
        <3> QED
            BY <2>4, <3>3, <1>same DEF OwesDeletion
    <2> QED
        BY <2>1, <2>3, <2>4 DEF Served
<1>3. ASSUME Subscribe
      PROVE  Served(i)'
    <2>1. Served(i) /\ (ToldRight(i) => ToldRight(i)')
        BY <1>3, <1>calm DEF Subscribe
    <2>2. phase = "subscribing" /\ feed' = feed
        BY <1>3, <1>typ DEF Subscribe, PhaseFits, Subscribed
    <2>3. Elements(feed) = {}
        BY <1>3, <2>2, EmptyElements DEF Subscribe
    <2>4. ~ OwesState(i)
        BY <2>2, <2>3 DEF OwesState, Announced
    <2>5. OwesDeletion(i) => OwesDeletion(i)'
        BY <1>3, <1>same, <2>2, <2>3 DEF Subscribe, OwesDeletion, DeletionIsDue, DeletionSent
    <2> QED
        BY <2>1, <2>4, <2>5 DEF Served
<1>4. ASSUME ListAfter
      PROVE  Served(i)'
    <2>1. Served(i) /\ (ToldRight(i) => ToldRight(i)')
        BY <1>4, <1>calm DEF ListAfter
    <2>2. /\ phase = "relisting" /\ phase' = "reporting" /\ gap = {} /\ feed' = feed
          /\ event' = event /\ snapshot' = snapshot
        BY <1>4, <1>typ DEF ListAfter, PhaseFits
    <2>3. OwesState(i) => OwesState(i)'
        BY <2>2, <1>same DEF OwesState, Announced
    <2>4. ASSUME OwesDeletion(i)
          PROVE  OwesDeletion(i)'
        <3>1. PICK n \in Names : DeletionIsDue(n, i)
            BY <2>2, <2>4 DEF OwesDeletion
        <3>2. i \in {known[n], pre[n]} /\ inst[n].id # i
            BY <2>2, <2>4, <3>1 DEF DeletionIsDue, OwesDeletion
        <3>3. inst[n].id \notin Ids
            BY <3>2, <1>typ, <1>same DEF OneOwner, Held, Owners
        <3>4. pre[n] \in {NoId, i}
            BY <3>2, <1>typ, <1>same DEF OneOwner, Held, Owners, TypeOK
        <3>5. ManagedIds[n] = NoId
            BY <3>3 DEF ManagedIds
        <3>6. CASE pre[n] = i
            <4>1. known'[n] = i
                BY <1>4, <3>5, <3>6 DEF ListAfter, BothListings
            <4>2. DeletionSent(n)
                BY <3>1, <3>6 DEF DeletionIsDue
            <4>3. DeletionIsDue(n, i)'
                BY <4>1, <4>2, <2>2 DEF DeletionIsDue, DeletionSent
            <4> QED
                BY <4>3, <2>4, <1>same DEF OwesDeletion
        <3>7. CASE pre[n] = NoId
            <4>1. known[n] = i
                BY <3>2, <3>7
            <4>2. i \in gap'
                BY <1>4, <3>5, <3>7, <4>1 DEF ListAfter, GoneFromBoth
            <4> QED
                BY <4>2, <2>4, <1>same DEF OwesDeletion
        <3> QED
            BY <3>4, <3>6, <3>7
    <2> QED
        BY <2>1, <2>3, <2>4 DEF Served
<1>5. ASSUME ReportGap
      PROVE  Served(i)'
    <2>1. /\ phase = "reporting" /\ phase' \in {"reporting", "idle"}
          /\ UNCHANGED <<known, pre, event, snapshot, feed>>
        BY <1>5 DEF ReportGap
    <2>2. OwesState(i) => OwesState(i)'
        BY <2>1, <1>same DEF OwesState, Announced
    <2>3. OwesDeletion(i) => (i \in gap /\ i \notin gap') \/ OwesDeletion(i)'
        BY <2>1, <1>same DEF OwesDeletion, DeletionIsDue, DeletionSent
    <2>4. CASE gap = {}
        <3>1. Served(i) /\ (ToldRight(i) => ToldRight(i)')
            BY <1>5, <2>4, <1>calm DEF ReportGap
        <3> QED
            BY <3>1, <2>2, <2>3, <2>4 DEF Served
    <2>5. CASE gap # {}
        <3>1. PICK id \in gap : gap' = gap \ {id} /\ Send([kind |-> "deleted", id |-> id])
            BY <1>5, <2>5 DEF ReportGap
        <3>2. [kind |-> "deleted", id |-> id] \in WatchEvents /\ WasDeleted(id)
            BY <1>typ DEF TypeOK, WatchEvents, DeletionsAreTrue
        <3>3. PICK e \in WatchEvents : e = [kind |-> "deleted", id |-> id]
            BY <3>2
        <3>4. Send(e) /\ e.id = id /\ e.kind = "deleted"
            BY <3>1, <3>3
        <3>5. /\ Served(i)
              /\ id = i => ToldRight(i)'
              /\ id # i /\ ToldRight(i) => ToldRight(i)'
            BY <3>4, <3>2, <1>send, <1>bye
        <3> QED
            BY <3>1, <3>5, <2>2, <2>3 DEF Served
    <2> QED
        BY <2>4, <2>5
<1>6. ASSUME TakeDeletion
      PROVE  Served(i)'
    <2>0. PICK h \in LxdEvents :
             /\ h = Head(feed) /\ h.action = "deleted"
             /\ Elements(feed) = {h} \cup Elements(feed')
        BY <1>6, <1>typ, TailElements DEF TakeDeletion, TypeOK
    <2>1. PICK n \in Names : n = h.name
        BY <2>0 DEF LxdEvents
    <2>2. /\ phase = "idle" /\ phase' = "idle" /\ gap = {} /\ pre = Nothing
          /\ known' = [known EXCEPT ![n] = NoId]
          /\ UNCHANGED <<pre, gap, event, snapshot>>
          /\ known[n] # NoId => Send([kind |-> "deleted", id |-> known[n]])
          /\ known[n] = NoId => UNCHANGED channel
        BY <1>6, <1>typ, <2>0, <2>1 DEF TakeDeletion, PhaseFits
    <2>3. Held(n, i) => WasDeleted(i)
        <3>1. DeletionSent(n)
            BY <2>0, <2>1 DEF DeletionSent
        <3> QED
            BY <3>1, <1>typ, <1>typed, <1>same, SentIsGone
    <2>9. inst[n].id # i
        BY <2>3 DEF Held, WasDeleted
    <2>4. OwesState(i) => OwesState(i)'
        <3>1. \A m \in Names \ {n} : Announced(m) => Announced(m)'
            BY <2>0, <2>1 DEF Announced
        <3> QED
            BY <3>1, <2>2, <2>9, <1>same DEF OwesState
    <2>5. ASSUME OwesDeletion(i), known[n] # i
          PROVE  OwesDeletion(i)'
        <3>1. PICK m \in Names : DeletionSent(m) /\ known[m] = i
            BY <2>2, <2>5 DEF OwesDeletion, DeletionIsDue, Nothing
        <3>2. DeletionSent(m)' /\ known'[m] = i
            BY <3>1, <2>0, <2>1, <2>2, <2>5, <1>typ DEF DeletionSent, TypeOK
        <3>3. DeletionIsDue(m, i)'
            BY <3>2 DEF DeletionIsDue
        <3> QED
            BY <3>3, <2>5, <1>same DEF OwesDeletion
    <2>6. CASE known[n] = NoId
        BY <2>2, <2>4, <2>5, <2>6, <1>calm DEF Served
    <2>7. CASE known[n] # NoId
        <3>1. known[n] \in Ids
            BY <2>7, <1>typ DEF TypeOK
        <3>2. known[n] = i => WasDeleted(i)
            BY <2>3 DEF Held
        <3>3. PICK e \in WatchEvents : e = [kind |-> "deleted", id |-> known[n]]
            BY <3>1 DEF WatchEvents
        <3>4. Send(e) /\ e.id = known[n] /\ e.kind = "deleted"
            BY <3>3, <2>2, <2>7
        <3>5. /\ Served(i)
              /\ known[n] = i => ToldRight(i)'
              /\ known[n] # i /\ ToldRight(i) => ToldRight(i)'
            BY <3>4, <3>2, <1>send, <1>bye
        <3> QED
            BY <3>5, <2>4, <2>5 DEF Served
    <2> QED
        BY <2>6, <2>7
<1>7. ASSUME TakeChange
      PROVE  Served(i)'
    <2>0. PICK h \in LxdEvents :
             /\ h = Head(feed) /\ h.action = "changed"
             /\ Elements(feed) = {h} \cup Elements(feed')
        BY <1>7, <1>typ, TailElements DEF TakeChange, TypeOK
    <2>1. /\ phase = "idle" /\ phase' = "reading" /\ event' = h.name
          /\ UNCHANGED <<known, pre, gap, snapshot>>
        BY <1>7, <2>0 DEF TakeChange
    <2>2. Served(i) /\ (ToldRight(i) => ToldRight(i)')
        BY <1>7, <1>calm DEF TakeChange
    <2>3. OwesState(i) => OwesState(i)'
        <3>1. \A m \in Names : Announced(m) => Announced(m)' \/ event' = m
            BY <2>0, <2>1 DEF Announced
        <3> QED
            BY <3>1, <2>1, <1>same DEF OwesState
    <2>4. OwesDeletion(i) => OwesDeletion(i)'
        <3>1. \A m \in Names : DeletionSent(m) => DeletionSent(m)'
            BY <2>0 DEF DeletionSent
        <3> QED
            BY <3>1, <2>1, <1>same DEF OwesDeletion, DeletionIsDue
    <2> QED
        BY <2>2, <2>3, <2>4 DEF Served
<1>9. ASSUME PublishSnapshot
      PROVE  Served(i)'
    <2>1. /\ phase = "publishing" /\ phase' = "idle" /\ event \in Names /\ snapshot.id \in Ids
          /\ gap = {} /\ pre = Nothing
          /\ UNCHANGED <<feed, pre, gap>>
          /\ known' = [known EXCEPT ![event] = snapshot.id]
        BY <1>9, <1>typ DEF PublishSnapshot, PhaseFits
    <2>2. PICK e \in WatchEvents : e = [kind |-> StateOf(snapshot.up), id |-> snapshot.id]
        <3>1. [kind |-> StateOf(snapshot.up), id |-> snapshot.id] \in WatchEvents
            BY <2>1 DEF WatchEvents, StateOf
        <3> QED
            BY <3>1
    <2>3. Send(e) /\ e.id = snapshot.id /\ e.kind = StateOf(snapshot.up)
        BY <1>9, <2>2 DEF PublishSnapshot
    <2>4. /\ Served(i)
          /\ snapshot.id = i /\ Fits(i, StateOf(snapshot.up)) => ToldRight(i)'
          /\ snapshot.id # i /\ ToldRight(i) => ToldRight(i)'
        BY <2>3, <1>send
    <2>5. Held(event, snapshot.id)
        BY <2>1 DEF Held
    <2>6. known'[event] = snapshot.id
        BY <2>1, <1>typ DEF TypeOK
    <2>7. CASE snapshot.id = i
        <3>1. CASE inst[event] = snapshot
            <4>1. Fits(i, StateOf(snapshot.up))
                BY <2>1, <2>7, <3>1 DEF Fits
            <4> QED
                BY <4>1, <2>4, <2>7 DEF Served
        <3>2. CASE inst[event].id = snapshot.id /\ Announced(event)
            <4>1. \E n \in Names : inst'[n].id = i /\ Announced(n)'
                BY <2>1, <2>7, <3>2, <1>same DEF Announced
            <4> QED
                BY <4>1 DEF Served, OwesState
        <3>3. CASE DeletionSent(event)
            <4>2. WasDeleted(i)
                BY <2>1, <2>5, <2>7, <3>3, <1>typ, <1>typed, <1>same, SentIsGone
            <4>3. \E n \in Names : DeletionIsDue(n, i)'
                BY <2>1, <2>6, <2>7, <3>3 DEF DeletionIsDue, DeletionSent
            <4> QED
                BY <4>2, <4>3, <1>same DEF Served, OwesDeletion, WasDeleted
        <3> QED
            BY <3>1, <3>2, <3>3, <2>1, <1>typ DEF SnapshotIsFollowed
    <2>8. CASE snapshot.id # i
        <3>1. OwesState(i) => OwesState(i)'
            BY <2>1, <2>8, <1>same DEF OwesState, Announced
        <3>2. ASSUME OwesDeletion(i)
              PROVE  OwesDeletion(i)'
            <4>1. PICK n \in Names : DeletionSent(n) /\ known[n] = i
                BY <2>1, <2>8, <3>2 DEF OwesDeletion, DeletionIsDue, Nothing
            <4>2. n # event
                BY <4>1, <2>1, <2>5, <2>8, <1>typ, <1>same DEF OneOwner, Held, Owners
            <4>3. known'[n] = i
                BY <4>1, <4>2, <2>1, <1>typ DEF TypeOK
            <4>4. DeletionIsDue(n, i)'
                BY <4>1, <4>3, <2>1 DEF DeletionIsDue, DeletionSent
            <4> QED
                BY <4>4, <3>2, <1>same DEF OwesDeletion
        <3> QED
            BY <3>1, <3>2, <2>4, <2>8 DEF Served
    <2> QED
        BY <2>7, <2>8
<1> QED
    BY <1>1, <1>2, <1>3, <1>4, <1>5, <1>6, <1>7, <1>8, <1>9 DEF Driver

(* The gateway's side: a listing is right when it is taken, and the word   *)
(* delivered last is the one the stream has told.                          *)
LEMMA ServedByStream ==
    ASSUME WatcherInv, CaughtUpInv, NEW i \in Ids, i \notin missed' \cup mixed',
           stream' # "off", ~ lagged', Gateway
    PROVE  Served(i)'
<1>typ. TypeOK /\ OneOwner
    BY DEF WatcherInv, Typed
<1>same. UNCHANGED <<lxd, feed, watcher>> /\ mixed' = mixed
    BY DEF lxd, Gateway, WatchSubscribe, WatchList, Deliver, WatchFails
<1>unt. Untouched(i)
    BY <1>same DEF Untouched, lxd
<1>srv. stream # "off" /\ ~ lagged /\ i \notin missed => Served(i)
    BY <1>same DEF CaughtUpInv, Informed, Served
<1>debt. OwesState(i) \/ OwesDeletion(i) => (OwesState(i) \/ OwesDeletion(i))'
    BY <1>same, <1>unt, DebtStays
<1>fits. \A word : Fits(i, word) => Fits(i, word)'
    BY <1>unt, FitsStays
<1>1. CASE WatchSubscribe
    BY <1>1, EmptyElements DEF WatchSubscribe, Served, ToldRight, Silent
<1>2. CASE WatchList
    <2>1. queue' = queue /\ lagged' = lagged /\ stream = "subscribed" /\ stream' = "live"
        BY <1>2 DEF WatchList, channel
    <2>2. CASE Silent(queue, i)
        <3>1. Fits(i, view'[i]) /\ view'[i] \in {"none", "up", "down", "deleted"}
            <4>1. CASE \E n \in Names : inst[n].id = i
                <5>1. PICK n \in Names : n = CHOOSE m \in Names : inst[m].id = i
                    BY <4>1
                <5>2. inst[n].id = i
                    BY <4>1, <5>1
                <5>3. view'[i] = StateOf(inst[n].up)
                    BY <1>2, <4>1, <5>1 DEF WatchList
                <5> QED
                    BY <5>2, <5>3 DEF Fits, StateOf
            <4>2. CASE ~ \E n \in Names : inst[n].id = i
                BY <1>2, <4>2 DEF WatchList, Fits
            <4> QED
                BY <4>1, <4>2
        <3>2. PICK word \in {"none", "up", "down", "deleted"} : word = view'[i]
            BY <3>1
        <3>3. Says(i, word)' /\ Fits(i, word)'
            BY <3>1, <3>2, <2>1, <2>2, <1>fits DEF Says
        <3> QED
            BY <3>3 DEF Served, ToldRight
    <2>3. CASE ~ Silent(queue, i)
        <3>1. i \notin missed
            BY <1>2, <2>3 DEF WatchList, Silent, Elements
        <3>2. Served(i)
            BY <3>1, <2>1, <1>srv
        <3> QED
            BY <3>2, <2>1, <2>3, <1>debt, <1>fits DEF Served, ToldRight, Says
    <2> QED
        BY <2>2, <2>3
<1>3. CASE Deliver
    <2>1. /\ Served(i) /\ stream = "live" /\ stream' = "live"
          /\ queue # <<>> /\ queue \in Seq(WatchEvents) /\ queue' = Tail(queue)
        BY <1>3, <1>srv, <1>typ DEF Deliver, TypeOK
    <2>2. PICK h \in WatchEvents : h = Head(queue) /\ Elements(queue) = {h} \cup Elements(queue')
        BY <2>1, TailElements
    <2>3. view'[i] = IF i = h.id THEN h.kind ELSE view[i]
        BY <1>3, <2>2, <1>typ DEF Deliver, TypeOK
    <2>4. ASSUME ToldRight(i)
          PROVE  ToldRight(i)'
        <3>1. PICK word \in {"none", "up", "down", "deleted"} : Says(i, word) /\ Fits(i, word)
            BY <2>1, <2>4 DEF ToldRight
        <3>2. CASE LastWord(queue, i, word)
            <4>1. \/ LastWord(queue', i, word)
                  \/ h.id = i /\ h.kind = word /\ Silent(queue', i)
                BY <3>2, <2>1, <2>2, TailLastWord
            <4>2. Says(i, word)'
                BY <4>1, <2>1, <2>3 DEF Says
            <4> QED
                BY <4>2, <3>1, <1>fits DEF ToldRight
        <3>3. CASE Silent(queue, i) /\ view[i] = word
            <4>1. Silent(queue', i) /\ view'[i] = word
                BY <3>3, <2>2, <2>3 DEF Silent
            <4> QED
                BY <4>1, <2>1, <3>1, <1>fits DEF ToldRight, Says
        <3> QED
            BY <3>1, <3>2, <3>3 DEF Says
    <2> QED
        BY <2>1, <2>4, <1>debt DEF Served
<1>4. CASE WatchFails
    BY <1>4 DEF WatchFails
<1> QED
    BY <1>1, <1>2, <1>3, <1>4 DEF Gateway

LEMMA CaughtUpStep ==
    WatcherInv /\ CaughtUpInv /\ [Next]_vars => CaughtUpInv'
<1> SUFFICES ASSUME WatcherInv, CaughtUpInv, [Next]_vars
             PROVE  CaughtUpInv'
    OBVIOUS
<1>1. SnapshotIsFollowed'
    BY SnapshotStep DEF CaughtUpInv
<1>2. ASSUME stream' # "off", ~ lagged', NEW i \in Ids, i \notin missed' \cup mixed'
      PROVE  Served(i)'
    <2>1. CASE Next
        BY <1>2, <2>1, ServedByLxd, ServedByDriver, ServedByStream DEF Next
    <2>2. CASE UNCHANGED vars
        <3>1. Untouched(i) /\ UNCHANGED <<queue, stream, view, watcher, feed>> /\ Served(i)
            BY <1>2, <2>2 DEF vars, Untouched, watcher, CaughtUpInv, Informed, Served
        <3> QED
            BY <3>1, ToldStays, DebtStays DEF Served
    <2> QED
        BY <2>1, <2>2
<1>3. Informed'
    BY <1>2 DEF Informed, Served
<1> QED
    BY <1>1, <1>3 DEF CaughtUpInv

LEMMA CaughtUpInit == Init => CaughtUpInv
    BY DEF Init, CaughtUpInv, SnapshotIsFollowed, Informed

(* The gateway catches up: once everything under way has arrived, the      *)
(* stream has told the latest state of every sandbox but one whose last    *)
(* change since the stream's listing escaped the watcher, or that shared   *)
(* its name with another while the watcher was behind (run_once,           *)
(* reconcile_and_seed_sandbox_ids, watch_sandboxes).                       *)
THEOREM GatewayCatchesUp == Spec => []CatchesUp
<1>1. WatcherInv /\ CaughtUpInv => CatchesUp
    <2> SUFFICES ASSUME WatcherInv, CaughtUpInv, Quiet,
                        NEW i \in Ids, i \notin missed \cup mixed
                 PROVE  ShowsLatest(i)
        BY DEF CatchesUp
    <2>1. ToldRight(i) \/ OwesState(i) \/ OwesDeletion(i)
        BY DEF CaughtUpInv, Informed, Served, Quiet
    <2>2. Elements(feed) = {} /\ queue = <<>> /\ gap = {} /\ phase = "idle" /\ stream = "live"
        BY EmptyElements DEF Quiet, WatcherInv, Typed, PhaseFits
    <2>3. ~ OwesState(i) /\ ~ OwesDeletion(i)
        BY <2>2 DEF OwesState, OwesDeletion, DeletionIsDue, Announced, DeletionSent
    <2>4. \A word : ~ LastWord(queue, i, word)
        BY <2>2 DEF LastWord
    <2> QED
        BY <2>1, <2>2, <2>3, <2>4 DEF ToldRight, Says, Fits, ShowsLatest
<1> QED
    BY <1>1, WatcherInvHolds, CaughtUpInit, CaughtUpStep, PTL DEF Spec

=============================================================================
