--------------------------- MODULE LifecycleLocks ---------------------------
(***************************************************************************)
(* The per-name lifecycle locks of LxdComputeDriver: a map from instance   *)
(* name to Arc<Mutex<()>> that settle_after_start, stop_sandbox and        *)
(* delete_sandbox share.  An entry is made by the first task that asks for *)
(* it and removed by a successful delete, when the strong count says that  *)
(* nobody else holds the Arc.                                              *)
(*                                                                         *)
(* The map is itself behind a Mutex that is never held across an await, so *)
(* each access to it is one step.  Everything else interleaves: the driver *)
(* runs on a multi-threaded runtime, where dropping a guard and dropping   *)
(* the Arc behind it are two steps, and the RPC framework drops a          *)
(* handler's future, guard and Arc included, when its caller goes away.    *)
(***************************************************************************)
EXTENDS Naturals, FiniteSets

CONSTANTS
    Tasks,   \* the RPC handlers that may run
    Names,   \* the instance names
    Arcs,    \* the heap cells an Arc<Mutex<()>> can live in
    NoTask,  \* the owner of an unlocked mutex
    NoName,  \* the name of a task that has none
    NoArc    \* no cell: an absent map entry, or a task without a clone

ASSUME LocksAssumption ==
    /\ IsFiniteSet(Tasks) /\ IsFiniteSet(Names)
    /\ NoTask \notin Tasks /\ NoName \notin Names /\ NoArc \notin Arcs

\* The operations that take a lifecycle lock.
Operations == {"settle", "stop", "delete"}

\* idle        not running, or not yet asked for the lock
\* registered  holds a clone of the Arc, not the mutex
\* locked      holds the mutex: reads and changes the instance
\* removed     delete only: the map entry has been dealt with, the guard lives
\* dropping    the guard is gone, the Arc is not
Stages == {"idle", "registered", "locked", "removed", "dropping"}

VARIABLES
    registry,  \* name -> the cell its map entry points to, or NoArc
    owner,     \* cell -> the task that holds its mutex, or NoTask
    stage,     \* task -> where it is
    op,        \* task -> its operation (kept after it ends)
    target,    \* task -> the name it works on
    arc        \* task -> the cell its clone points to, or NoArc

vars == <<registry, owner, stage, op, target, arc>>

(* Every field has its type, and a task has a clone of an Arc exactly      *)
(* while its operation is under way: the strong count counts operations,   *)
(* so an entry nobody uses any more can be seen to be unused.              *)
TypeOK ==
    /\ registry \in [Names -> Arcs \cup {NoArc}]
    /\ owner \in [Arcs -> Tasks \cup {NoTask}]
    /\ stage \in [Tasks -> Stages]
    /\ op \in [Tasks -> Operations]
    /\ target \in [Tasks -> Names \cup {NoName}]
    /\ arc \in [Tasks -> Arcs \cup {NoArc}]
    /\ \A t \in Tasks : stage[t] = "idle" <=> arc[t] = NoArc

Init ==
    /\ registry = [n \in Names |-> NoArc]
    /\ owner = [a \in Arcs |-> NoTask]
    /\ stage = [t \in Tasks |-> "idle"]
    /\ op = [t \in Tasks |-> "settle"]
    /\ target = [t \in Tasks |-> NoName]
    /\ arc = [t \in Tasks |-> NoArc]

-----------------------------------------------------------------------------
Entries(a) == {n \in Names : registry[n] = a}
Clones(a) == {t \in Tasks : arc[t] = a}

(* Arc::strong_count *)
StrongCount(a) == Cardinality(Entries(a)) + Cardinality(Clones(a))

(* A cell nothing points to: Arc::new may use it. *)
Free(a) == Entries(a) = {} /\ Clones(a) = {}

(* Mutant: the map's own reference is counted twice. *)
OneTooMany(t) == StrongCount(arc[t]) <= 3

(* The condition under which delete_sandbox drops the map entry. *)
LastUser(t) == StrongCount(arc[t]) <= 2

-----------------------------------------------------------------------------
(* instance_lifecycle_lock: clone the entry's Arc, making the entry first  *)
(* if there is none.                                                       *)
InstanceLifecycleLock(t, n, o) ==
    /\ stage[t] = "idle"
    /\ \E a \in Arcs :
          /\ IF registry[n] = NoArc THEN Free(a) ELSE a = registry[n]
          /\ registry' = [registry EXCEPT ![n] = a]
          /\ arc' = [arc EXCEPT ![t] = a]
    /\ stage' = [stage EXCEPT ![t] = "registered"]
    /\ op' = [op EXCEPT ![t] = o]
    /\ target' = [target EXCEPT ![t] = n]
    /\ UNCHANGED owner

(* Mutant: a task goes ahead without waiting for the guard. *)
LockWithoutWaiting(t) ==
    /\ stage[t] = "registered"
    /\ owner' = [owner EXCEPT ![arc[t]] = t]
    /\ stage' = [stage EXCEPT ![t] = "locked"]
    /\ UNCHANGED <<registry, op, target, arc>>

(* lifecycle_lock.lock().await *)
Lock(t) ==
    /\ stage[t] = "registered"
    /\ owner[arc[t]] = NoTask
    /\ owner' = [owner EXCEPT ![arc[t]] = t]
    /\ stage' = [stage EXCEPT ![t] = "locked"]
    /\ UNCHANGED <<registry, op, target, arc>>

(* settle_after_start: the guard of one attempt ends with the loop body;   *)
(* the next attempt locks the same Arc again.                              *)
NextAttempt(t) ==
    /\ stage[t] = "locked"
    /\ op[t] = "settle"
    /\ owner' = [owner EXCEPT ![arc[t]] = NoTask]
    /\ stage' = [stage EXCEPT ![t] = "registered"]
    /\ UNCHANGED <<registry, op, target, arc>>

(* Mutant: the entry goes whoever else holds the Arc. *)
RemoveAlways(t) ==
    /\ stage[t] = "locked"
    /\ op[t] = "delete"
    /\ registry' = [registry EXCEPT ![target[t]] = NoArc]
    /\ stage' = [stage EXCEPT ![t] = "removed"]
    /\ UNCHANGED <<owner, op, target, arc>>

(* delete_sandbox, once LXD has deleted the instance: drop the entry from  *)
(* the map if this task is the last to know the mutex.                     *)
RemoveEntry(t) ==
    /\ stage[t] = "locked"
    /\ op[t] = "delete"
    /\ registry' = IF LastUser(t)
                   THEN [registry EXCEPT ![target[t]] = NoArc]
                   ELSE registry
    /\ stage' = [stage EXCEPT ![t] = "removed"]
    /\ UNCHANGED <<owner, op, target, arc>>

(* The guard goes out of scope: the operation returned (early returns and  *)
(* errors included) or its future was dropped.                             *)
Unlock(t) ==
    /\ stage[t] \in {"locked", "removed"}
    /\ owner' = [owner EXCEPT ![arc[t]] = NoTask]
    /\ stage' = [stage EXCEPT ![t] = "dropping"]
    /\ UNCHANGED <<registry, op, target, arc>>

(* The task ends without the mutex: settle_after_start has used up its     *)
(* attempts, or the future was dropped while it waited.                    *)
Abandon(t) ==
    /\ stage[t] = "registered"
    /\ stage' = [stage EXCEPT ![t] = "dropping"]
    /\ UNCHANGED <<registry, owner, op, target, arc>>

(* Mutant: the operation ends and its clone is kept (as in a cache of the  *)
(* locks in use): the strong count never comes down again.                 *)
KeepArc(t) ==
    /\ stage[t] = "dropping"
    /\ target' = [target EXCEPT ![t] = NoName]
    /\ stage' = [stage EXCEPT ![t] = "idle"]
    /\ UNCHANGED <<registry, owner, op, arc>>

(* The task's Arc goes out of scope. *)
DropArc(t) ==
    /\ stage[t] = "dropping"
    /\ arc' = [arc EXCEPT ![t] = NoArc]
    /\ target' = [target EXCEPT ![t] = NoName]
    /\ stage' = [stage EXCEPT ![t] = "idle"]
    /\ UNCHANGED <<registry, owner, op>>

Next ==
    \E t \in Tasks :
        \/ \E n \in Names, o \in Operations : InstanceLifecycleLock(t, n, o)
        \/ Lock(t)
        \/ NextAttempt(t)
        \/ RemoveEntry(t)
        \/ Unlock(t)
        \/ Abandon(t)
        \/ DropArc(t)

Spec == Init /\ [][Next]_vars

-----------------------------------------------------------------------------
(* The tasks that may still touch the instance called n. *)
Working(n) == {t \in Tasks : stage[t] = "locked" /\ target[t] = n}

(* Mutual exclusion: two lifecycle operations on one name never work on    *)
(* its instance at once, although the mutex they share is replaced when a  *)
(* delete drops the map entry (driver.rs, delete_sandbox).                 *)
MutualExclusion ==
    \A n \in Names : \A t, u \in Working(n) : t = u

(* A clone is current: whoever still has to take the lock of a name, or    *)
(* works under it, refers to the mutex that the map names.  A clone that   *)
(* outlived its entry would exclude nobody.                                *)
ClonesAreCurrent ==
    \A t \in Tasks :
        stage[t] \in {"registered", "locked"} => registry[target[t]] = arc[t]

(* The registry implements one mutex per name. *)
Mutex == INSTANCE NameMutex WITH holders <- [n \in Names |-> Working(n)]
ImplementsNameMutex == Mutex!Spec

=============================================================================
