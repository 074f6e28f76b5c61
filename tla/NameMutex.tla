----------------------------- MODULE NameMutex -----------------------------
(***************************************************************************)
(* What the driver promises about sandbox lifecycle operations: at most    *)
(* one of them works on a given instance name at a time, and operations    *)
(* on different names do not wait for each other.  How the driver keeps    *)
(* the promise (a registry of shared mutexes that appear on demand and     *)
(* are removed with their sandbox) is LifecycleLocks.                      *)
(***************************************************************************)
CONSTANTS
    Tasks,  \* the RPC handlers that may run
    Names   \* the instance names

VARIABLE holders  \* name -> the tasks working on the instance of that name

Init == holders = [n \in Names |-> {}]

Acquire(t, n) ==
    /\ holders[n] = {}
    /\ holders' = [holders EXCEPT ![n] = {t}]

Release(t, n) ==
    /\ holders[n] = {t}
    /\ holders' = [holders EXCEPT ![n] = {}]

Next == \E t \in Tasks, n \in Names : Acquire(t, n) \/ Release(t, n)

Spec == Init /\ [][Next]_holders

============================================================================
