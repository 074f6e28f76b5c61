------------------------ MODULE LifecycleLocksProofs ------------------------
(***************************************************************************)
(* Proofs about LifecycleLocks, for every finite set of tasks and names:   *)
(* the lock registry is type correct, excludes two operations on one name  *)
(* from each other, and implements one mutex per name (NameMutex).         *)
(***************************************************************************)
EXTENDS LifecycleLocks, FiniteSetTheorems, TLAPS

(* Only an idle task has no clone and no name. *)
ClonesAreHeld ==
    \A t \in Tasks :
        IF stage[t] = "idle"
        THEN arc[t] = NoArc /\ target[t] = NoName
        ELSE arc[t] \in Arcs /\ target[t] \in Names

(* A mutex is owned by exactly the task whose guard is alive. *)
OwnersAreGuards ==
    /\ \A t \in Tasks :
          stage[t] \in {"locked", "removed"} => owner[arc[t]] = t
    /\ \A a \in Arcs :
          owner[a] # NoTask =>
              stage[owner[a]] \in {"locked", "removed"} /\ arc[owner[a]] = a

(* A cell serves one name: two entries never share one, and the clones of  *)
(* an entry's cell were taken for that entry's name.                       *)
CellsAreNotShared ==
    \A n \in Names :
        registry[n] # NoArc =>
            /\ \A m \in Names : registry[m] = registry[n] => m = n
            /\ \A t \in Tasks : arc[t] = registry[n] => target[t] = n

(* The inductive invariant. *)
LocksInv ==
    /\ TypeOK
    /\ ClonesAreHeld
    /\ OwnersAreGuards
    /\ CellsAreNotShared
    /\ ClonesAreCurrent

-----------------------------------------------------------------------------
(* A finite set with two different members has at least two. *)
LEMMA TwoMembers ==
    ASSUME NEW S, IsFiniteSet(S), NEW x \in S, NEW y \in S, x # y
    PROVE  Cardinality(S) \in Nat /\ Cardinality(S) >= 2
<1>1. IsFiniteSet({x, y}) /\ Cardinality({x, y}) = 2
  <2>1. IsFiniteSet({x}) /\ Cardinality({x}) = 1
    BY FS_Singleton
  <2>2. y \notin {x} /\ {x, y} = {x} \cup {y}
    OBVIOUS
  <2> QED
    BY <2>1, <2>2, FS_AddElement
<1>2. {x, y} \subseteq S
  OBVIOUS
<1>3. Cardinality({x, y}) <= Cardinality(S)
  BY <1>2, FS_Subset
<1>4. Cardinality(S) \in Nat
  BY FS_CardinalityType
<1> QED
  BY <1>1, <1>3, <1>4

(* A finite set with a member has at least one. *)
LEMMA OneMember ==
    ASSUME NEW S, IsFiniteSet(S), NEW x \in S
    PROVE  Cardinality(S) \in Nat /\ Cardinality(S) >= 1
<1>1. Cardinality(S) \in Nat
  BY FS_CardinalityType
<1>2. Cardinality(S) # 0
  BY FS_EmptySet
<1> QED
  BY <1>1, <1>2

(* What strong_count <= 2 means in delete_sandbox: when the map names the  *)
(* deleting task's mutex, no other task holds a clone of it.               *)
LEMMA LastUserIsAlone ==
    ASSUME TypeOK, NEW t \in Tasks, NEW u \in Tasks,
           target[t] \in Names, registry[target[t]] = arc[t],
           LastUser(t), arc[u] = arc[t]
    PROVE  u = t
<1> DEFINE a == arc[t]
<1>1. IsFiniteSet(Entries(a)) /\ IsFiniteSet(Clones(a))
  BY LocksAssumption, FS_Subset DEF Entries, Clones
<1>2. Cardinality(Entries(a)) \in Nat /\ Cardinality(Entries(a)) >= 1
  <2>1. target[t] \in Entries(a)
    BY DEF Entries
  <2> QED
    BY <1>1, <2>1, OneMember
<1>3. ASSUME u # t PROVE FALSE
  <2>1. t \in Clones(a) /\ u \in Clones(a)
    BY DEF Clones
  <2>2. Cardinality(Clones(a)) \in Nat /\ Cardinality(Clones(a)) >= 2
    BY <1>1, <1>3, <2>1, TwoMembers
  <2> QED
    BY <1>2, <2>2 DEF LastUser, StrongCount
<1> QED
  BY <1>3

-----------------------------------------------------------------------------
LEMMA InitEstablishesLocksInv == Init => LocksInv
BY LocksAssumption
   DEF Init, LocksInv, TypeOK, Stages, Operations, ClonesAreHeld,
       OwnersAreGuards, CellsAreNotShared, ClonesAreCurrent

(* Every action of a task keeps the invariant. *)
LEMMA StepKeepsLocksInv == LocksInv /\ [Next]_vars => LocksInv'
<1> SUFFICES ASSUME LocksInv, [Next]_vars PROVE LocksInv'
  OBVIOUS
<1> USE LocksAssumption DEF LocksInv, TypeOK, Stages, Operations
<1>1. ASSUME NEW t \in Tasks, NEW n \in Names, NEW o \in Operations,
             InstanceLifecycleLock(t, n, o)
      PROVE  LocksInv'
  <2>1. PICK a \in Arcs :
          /\ IF registry[n] = NoArc THEN Free(a) ELSE a = registry[n]
          /\ registry' = [registry EXCEPT ![n] = a]
          /\ arc' = [arc EXCEPT ![t] = a]
    BY <1>1 DEF InstanceLifecycleLock
  <2>2. Free(a) => /\ \A m \in Names : registry[m] # a
                   /\ \A u \in Tasks : arc[u] # a
    BY DEF Free, Entries, Clones
  <2>3. TypeOK'
    BY <1>1, <2>1 DEF InstanceLifecycleLock
  <2>4. ClonesAreHeld'
    BY <1>1, <2>1 DEF InstanceLifecycleLock, ClonesAreHeld
  <2>5. OwnersAreGuards'
    BY <1>1, <2>1 DEF InstanceLifecycleLock, ClonesAreHeld, OwnersAreGuards
  <2>6. CellsAreNotShared'
    BY <1>1, <2>1, <2>2 DEF InstanceLifecycleLock, ClonesAreHeld, CellsAreNotShared
  <2>7. ClonesAreCurrent'
    BY <1>1, <2>1, <2>2
       DEF InstanceLifecycleLock, ClonesAreHeld, ClonesAreCurrent
  <2> QED
    BY <2>3, <2>4, <2>5, <2>6, <2>7
<1>2. ASSUME NEW t \in Tasks, Lock(t) PROVE LocksInv'
  BY <1>2 DEF Lock, ClonesAreHeld, OwnersAreGuards, CellsAreNotShared, ClonesAreCurrent
<1>3. ASSUME NEW t \in Tasks, NextAttempt(t) PROVE LocksInv'
  BY <1>3
     DEF NextAttempt, ClonesAreHeld, OwnersAreGuards, CellsAreNotShared, ClonesAreCurrent
<1>4. ASSUME NEW t \in Tasks, RemoveEntry(t) PROVE LocksInv'
  <2>1. target[t] \in Names /\ arc[t] \in Arcs /\ registry[target[t]] = arc[t]
    BY <1>4 DEF RemoveEntry, ClonesAreHeld, ClonesAreCurrent
  <2>2. TypeOK' /\ ClonesAreHeld' /\ OwnersAreGuards'
    BY <1>4, <2>1 DEF RemoveEntry, ClonesAreHeld, OwnersAreGuards
  <2>3. CellsAreNotShared'
    BY <1>4, <2>1 DEF RemoveEntry, CellsAreNotShared
  <2>4. ClonesAreCurrent'
    <3>1. ASSUME NEW u \in Tasks, u # t, stage[u] \in {"registered", "locked"},
                 target[u] = target[t]
          PROVE  ~ LastUser(t)
      <4>1. arc[u] = arc[t]
        BY <2>1, <3>1 DEF ClonesAreCurrent
      <4> QED
        BY <2>1, <3>1, <4>1, LastUserIsAlone
    <3> QED
      BY <1>4, <2>1, <3>1 DEF RemoveEntry, ClonesAreHeld, ClonesAreCurrent
  <2> QED
    BY <2>2, <2>3, <2>4
<1>5. ASSUME NEW t \in Tasks, Unlock(t) PROVE LocksInv'
  BY <1>5 DEF Unlock, ClonesAreHeld, OwnersAreGuards, CellsAreNotShared, ClonesAreCurrent
<1>6. ASSUME NEW t \in Tasks, Abandon(t) PROVE LocksInv'
  BY <1>6 DEF Abandon, ClonesAreHeld, OwnersAreGuards, CellsAreNotShared, ClonesAreCurrent
<1>7. ASSUME NEW t \in Tasks, DropArc(t) PROVE LocksInv'
  BY <1>7 DEF DropArc, ClonesAreHeld, OwnersAreGuards, CellsAreNotShared, ClonesAreCurrent
<1>8. CASE UNCHANGED vars
  BY <1>8
     DEF vars, ClonesAreHeld, OwnersAreGuards, CellsAreNotShared, ClonesAreCurrent
<1> QED
  BY <1>1, <1>2, <1>3, <1>4, <1>5, <1>6, <1>7, <1>8 DEF Next

LEMMA LocksInvariance == Spec => []LocksInv
BY InitEstablishesLocksInv, StepKeepsLocksInv, PTL DEF Spec

(* The lock registry is type correct. *)
THEOREM LocksTypeCorrect == Spec => []TypeOK
<1>1. LocksInv => TypeOK
  BY DEF LocksInv
<1> QED
  BY <1>1, LocksInvariance, PTL

(* A task about to take a name's lock, or working under it, refers to the  *)
(* mutex in the map.                                                       *)
THEOREM ClonesStayCurrent == Spec => []ClonesAreCurrent
<1>1. LocksInv => ClonesAreCurrent
  BY DEF LocksInv
<1> QED
  BY <1>1, LocksInvariance, PTL

LEMMA LocksInvExcludes == LocksInv => MutualExclusion
BY DEF LocksInv, ClonesAreCurrent, ClonesAreHeld, OwnersAreGuards,
       MutualExclusion, Working

(* No two lifecycle operations work on the same instance name at once,     *)
(* whatever deletes remove from the map.                                   *)
THEOREM LocksExclude == Spec => []MutualExclusion
BY LocksInvExcludes, LocksInvariance, PTL

-----------------------------------------------------------------------------
(* Each step of the registry is a step of the abstract mutex or leaves it  *)
(* alone: locking acquires the name, whatever ends the work releases it.   *)
LEMMA StepImplementsMutex ==
    LocksInv /\ LocksInv' /\ [Next]_vars => [Mutex!Next]_[n \in Names |-> Working(n)]
<1> SUFFICES ASSUME LocksInv, LocksInv', [Next]_vars
             PROVE  [Mutex!Next]_[n \in Names |-> Working(n)]
  OBVIOUS
<1> DEFINE abs == [n \in Names |-> Working(n)]
<1> DEFINE SameWork ==
        \A u \in Tasks : /\ (stage'[u] = "locked") <=> (stage[u] = "locked")
                         /\ stage[u] = "locked" => target'[u] = target[u]
<1>1. SameWork => abs' = abs
  BY DEF Working
<1>2. ASSUME NEW t \in Tasks, Lock(t) PROVE Mutex!Next
  <2> DEFINE n == target[t]
  <2>1. n \in Names /\ arc[t] \in Arcs /\ registry[n] = arc[t]
    BY <1>2 DEF Lock, LocksInv, ClonesAreHeld, ClonesAreCurrent
  <2>2. Working(n) = {}
    <3>1. ASSUME NEW u \in Working(n) PROVE FALSE
      <4>1. u \in Tasks /\ owner[arc[u]] = u /\ arc[u] = arc[t]
        BY <2>1, <3>1 DEF Working, LocksInv, OwnersAreGuards, ClonesAreCurrent
      <4> QED
        BY <1>2, <4>1, LocksAssumption DEF Lock
    <3> QED
      BY <3>1
  <2>3. \A m \in Names : Working(m)' = IF m = n THEN Working(m) \cup {t} ELSE Working(m)
    BY <1>2, <2>1 DEF Lock, Working, LocksInv, TypeOK
  <2>4. Mutex!Acquire(t, n)
    BY <2>1, <2>2, <2>3 DEF Mutex!Acquire
  <2> QED
    BY <2>1, <2>4 DEF Mutex!Next
<1>3. ASSUME NEW t \in Tasks, stage[t] = "locked", stage'[t] # "locked",
             target' = target,
             \A u \in Tasks \ {t} : stage'[u] = stage[u]
      PROVE  Mutex!Next
  <2> DEFINE n == target[t]
  <2>1. n \in Names
    BY <1>3 DEF LocksInv, ClonesAreHeld
  <2>2. Working(n) = {t}
    BY <1>3, <2>1, LocksInvExcludes DEF MutualExclusion, Working
  <2>3. \A m \in Names : Working(m)' = IF m = n THEN {} ELSE Working(m)
    BY <1>3, <2>1, <2>2 DEF Working
  <2>4. Mutex!Release(t, n)
    BY <2>1, <2>2, <2>3 DEF Mutex!Release
  <2> QED
    BY <2>1, <2>4 DEF Mutex!Next
<1>4. ASSUME NEW t \in Tasks, NextAttempt(t) \/ RemoveEntry(t) PROVE Mutex!Next
  BY <1>3, <1>4 DEF NextAttempt, RemoveEntry, LocksInv, TypeOK
<1>5. ASSUME NEW t \in Tasks, Unlock(t) PROVE Mutex!Next \/ abs' = abs
  <2>1. CASE stage[t] = "locked"
    BY <1>3, <1>5, <2>1 DEF Unlock, LocksInv, TypeOK
  <2>2. CASE stage[t] = "removed"
    <3>1. SameWork
      BY <1>5, <2>2 DEF Unlock, LocksInv, TypeOK
    <3> QED
      BY <1>1, <3>1
  <2> QED
    BY <1>5, <2>1, <2>2 DEF Unlock
<1>6. ASSUME NEW t \in Tasks, NEW n \in Names, NEW o \in Operations,
             InstanceLifecycleLock(t, n, o)
      PROVE  abs' = abs
  <2>1. SameWork
    BY <1>6 DEF InstanceLifecycleLock, LocksInv, TypeOK
  <2> QED
    BY <1>1, <2>1
<1>7. ASSUME NEW t \in Tasks, Abandon(t) \/ DropArc(t) PROVE abs' = abs
  <2>1. SameWork
    BY <1>7 DEF Abandon, DropArc, LocksInv, TypeOK
  <2> QED
    BY <1>1, <2>1
<1>8. ASSUME UNCHANGED vars PROVE abs' = abs
  <2>1. SameWork
    BY <1>8 DEF vars
  <2> QED
    BY <1>1, <2>1
<1>9. CASE Next
  <2>1. PICK t \in Tasks :
          \/ \E n \in Names, o \in Operations : InstanceLifecycleLock(t, n, o)
          \/ Lock(t) \/ NextAttempt(t) \/ RemoveEntry(t)
          \/ Unlock(t) \/ Abandon(t) \/ DropArc(t)
    BY <1>9 DEF Next
  <2> HIDE DEF SameWork, abs
  <2>2. Mutex!Next \/ abs' = abs
    BY <1>2, <1>4, <1>5, <1>6, <1>7, <2>1
  <2> QED
    BY <2>2 DEF abs
<1> QED
  BY <1>8, <1>9

(* The registry of shared, removable mutexes behaves as one mutex per      *)
(* name.                                                                   *)
THEOREM LocksImplementMutex == Spec => ImplementsNameMutex
<1>1. Init => Mutex!Init
  BY DEF Init, Mutex!Init, Working
<1> QED
  BY <1>1, StepImplementsMutex, LocksInvariance, PTL
     DEF Spec, ImplementsNameMutex, Mutex!Spec
=============================================================================
