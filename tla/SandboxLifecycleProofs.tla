----------------------- MODULE SandboxLifecycleProofs -----------------------
(***************************************************************************)
(* A marked stop stands, a deleted sandbox is gone for good, an instance   *)
(* of somebody else's is left alone, and a stop marker has an author, for  *)
(* any number of RPCs and retries.                                         *)
(***************************************************************************)
EXTENDS SandboxLifecycle, TLAPS

(* Labels at which the handler holds the name's lifecycle lock. *)
Settling == {"settle_read", "settle_start", "restarted"}
Stopping == {"stop_mark", "shut_down_ask", "shut_down", "stop_force", "stopped", "stop_unmark"}
Deleting == {"delete_stop", "delete_stopped", "delete_ask", "deleted"}
UnderLock == Settling \cup Stopping \cup Deleting \cup {"stop_read", "delete_read"}

(* Where a handler may be that has not been let near the instance. *)
Outside == {"idle", "create", "start_read", "stop_lock", "stop_read", "delete_lock", "delete_read"}
               \cup Ends

(* The lifecycle lock excludes. *)
LockIsHeld == \A t \in Tasks : pc[t] \in UnderLock => lock = t

(* Whoever settles has an attempt left. *)
AttemptIsLeft == \A t \in Tasks : pc[t] \in Settling \cup {"settle_lock"} => tries[t] # 0

(* If the name is a foreign instance's, no handler is let near it. *)
ForeignIsLeft ==
    /\ sandbox = Foreign =>
          /\ ~ intent /\ late = {}
          /\ \A t \in Tasks : pc[t] \in Outside /\ job[t] = NoJob
    /\ \A j \in late : j.id # Foreign
    /\ \A t \in Tasks : job[t].id # Foreign

(* A creation is asked for once, by the task that gives the sandbox its id. *)
Creating(j) == j.kind = "create" /\ j.state = "pending"
CreatedOnce ==
    /\ \A t \in Tasks : job[t].kind = "create" => job[t].id = t /\ pc[t] = "created"
    /\ \A j \in late :
          /\ j.state = "pending"
          /\ j.kind = "create" =>
                j.id \in Tasks /\ pc[j.id] \notin {"idle", "create"} /\ ~ Creating(job[j.id])

(* The id's creation has ended, so no sandbox gets the id any more. *)
Spent(id) ==
    /\ pc[id] \notin {"idle", "create"}
    /\ ~ Creating(job[id])
    /\ \A j \in late : j.kind = "create" => j.id # id

IdsAreSpent ==
    /\ sandbox \in Tasks => Spent(sandbox)
    /\ \A id \in gone : Spent(id)
    /\ \A h \in halted : Spent(h[1])
    /\ \A t \in Tasks : pc[t] \in Deleting => expected[t] \in Tasks /\ Spent(expected[t])

(* Once LXD has finished the deletion, the sandbox that DeleteSandbox read *)
(* is gone, also if the instance it deleted was another one by then.       *)
DeletionIsOfExpected ==
    \A t \in Tasks : pc[t] = "deleted" =>
        /\ job[t].kind = "delete"
        /\ job[t].id = expected[t] \/ sandbox # expected[t]
        /\ job[t].state = "ok" => sandbox # expected[t]

(* An acknowledged, marked stop keeps its marker, no start of the sandbox  *)
(* is with LXD, and whoever is about to start it or to take the marker     *)
(* back under the lock saw that there was no such stop.                    *)
StopIsKept ==
    /\ <<sandbox, TRUE>> \in halted => intent
    /\ \A j \in late : j.kind = "start" => <<j.id, TRUE>> \notin halted
    /\ \A t \in Tasks : job[t].kind = "start" => <<job[t].id, TRUE>> \notin halted
    /\ \A t \in Tasks : pc[t] \in Stopping \cup {"settle_start"} => <<sandbox, TRUE>> \notin halted

(* The inductive invariant. *)
LifeInv ==
    /\ TypeOK /\ LockIsHeld /\ AttemptIsLeft /\ ForeignIsLeft /\ CreatedOnce /\ IdsAreSpent
    /\ DeletionIsOfExpected /\ StopIsKept /\ DeletedIsGone /\ MarkedStopStands

-----------------------------------------------------------------------------
LEMMA InitEstablishesLifeInv == Init => LifeInv
<1> SUFFICES ASSUME Init PROVE LifeInv OBVIOUS
<1>1. TypeOK
  <2>1. "idle" \in Labels /\ "create" \in AllRpcs /\ NoSandbox \in Sandboxes /\ Foreign \in Sandboxes
    BY DEF Labels, AllRpcs, Sandboxes
  <2>2. 0 \in 0..StartRetries BY LifecycleAssumption
  <2> QED BY <2>1, <2>2 DEF Init, TypeOK, Statuses
<1> USE LifecycleAssumption DEF Init, NoJob
<1>2. LockIsHeld /\ AttemptIsLeft
  BY DEF LockIsHeld, AttemptIsLeft, UnderLock, Settling, Stopping, Deleting
<1>3. ForeignIsLeft /\ CreatedOnce BY DEF ForeignIsLeft, CreatedOnce, Outside
<1>4. IdsAreSpent /\ DeletionIsOfExpected BY DEF IdsAreSpent, DeletionIsOfExpected, Deleting
<1>5. StopIsKept /\ DeletedIsGone /\ MarkedStopStands
  BY DEF StopIsKept, DeletedIsGone, MarkedStopStands, Stopping
<1> QED BY <1>1, <1>2, <1>3, <1>4, <1>5 DEF LifeInv

(* What the handler of one RPC may do in a step, as the invariant sees it. *)
Acknowledged(t) ==
    /\ halted' = halted \cup {<<sandbox, intent>>}
    /\ sandbox \in Tasks /\ status = "Stopped" /\ lock = t
    /\ pc'[t] = "ok" /\ intent' = intent
    /\ \A j \in late : j.kind = "start" => j.id # sandbox
    /\ \A u \in Tasks : job[u].kind = "start" => job[u].id # sandbox

Typed ==
    /\ pc' \in [Tasks -> Labels] /\ job' \in [Tasks -> Jobs \cup {NoJob}]
    /\ expected' \in [Tasks -> Sandboxes] /\ tries' \in [Tasks -> 0..StartRetries]
    /\ rpc' \in [Tasks -> AllRpcs] /\ lock' \in Tasks \cup {NoTask} /\ intent' \in BOOLEAN

(* Its own variables, its lock and what it leaves to LXD. *)
OwnOnly(t) ==
    /\ UNCHANGED <<sandbox, status>>
    /\ \A u \in Tasks : u # t =>
          /\ pc'[u] = pc[u] /\ job'[u] = job[u]
          /\ expected'[u] = expected[u] /\ tries'[u] = tries[u]
          /\ lock = u => lock' = u
    /\ \/ UNCHANGED late
       \/ job[t].state = "pending" /\ job'[t].state # "pending" /\ late' = late \cup {job[t]}

HandlerStep(t) ==
    /\ Typed /\ OwnOnly(t)
    /\ pc'[t] \in UnderLock => lock' = t
    /\ pc'[t] \in Settling \cup {"settle_lock"} => tries'[t] # 0
    /\ sandbox = Foreign => pc'[t] \in Outside /\ job'[t] = NoJob /\ ~ intent' /\ UNCHANGED late
    /\ job'[t].id # Foreign
    /\ job'[t].kind = "create" => job'[t].id = t /\ pc'[t] = "created"
    /\ pc[t] \notin {"idle", "create"} =>
          pc'[t] \notin {"idle", "create"} /\ (Creating(job'[t]) => Creating(job[t]))
    /\ pc'[t] \in Deleting =>
          /\ expected'[t] \in Tasks
          /\ expected'[t] = sandbox \/ (pc[t] \in Deleting /\ expected'[t] = expected[t])
    /\ pc'[t] = "deleted" =>
          /\ job'[t].kind = "delete" /\ job'[t].state # "ok"
          /\ job'[t].id = expected'[t] \/ sandbox # expected'[t]
    /\ \/ UNCHANGED gone
       \/ pc[t] = "deleted" /\ job[t].state = "ok" /\ gone' = gone \cup {expected[t]}
    /\ halted' \subseteq halted \/ Acknowledged(t)
    /\ intent' # intent => <<sandbox, TRUE>> \notin halted' \/ intent'
    /\ job'[t].kind = "start" => <<job'[t].id, TRUE>> \notin halted'
    /\ pc'[t] \in Stopping \cup {"settle_start"} => <<sandbox, TRUE>> \notin halted'

(* An id whose creation has ended stays so. *)
LEMMA SpentStays ==
    ASSUME LifeInv, NEW t \in Tasks, HandlerStep(t), NEW id \in Tasks, Spent(id)
    PROVE  Spent(id)'
<1>1. CASE id # t
  <2>1. pc'[id] = pc[id] /\ job'[id] = job[id] BY <1>1 DEF HandlerStep, OwnOnly
  <2>2. ASSUME NEW j \in late', j.kind = "create", j.id = id PROVE FALSE
    <3>1. j \in late BY <1>1, <2>2 DEF HandlerStep, OwnOnly, LifeInv, CreatedOnce
    <3> QED BY <2>2, <3>1 DEF Spent
  <2> QED BY <2>1, <2>2 DEF Spent, Creating
<1>2. CASE id = t
  <2>1. pc'[t] \notin {"idle", "create"} /\ ~ Creating(job[t])' BY <1>2 DEF Spent, HandlerStep, Creating
  <2>2. ASSUME NEW j \in late', j.kind = "create", j.id = t PROVE FALSE
    <3>1. j \in late BY <1>2, <2>2 DEF HandlerStep, OwnOnly, Spent, Creating
    <3> QED BY <1>2, <2>2, <3>1 DEF Spent
  <2> QED BY <1>2, <2>1, <2>2 DEF Spent
<1> QED BY <1>1, <1>2

LEMMA HandlerStepKeepsLifeInv ==
    ASSUME LifeInv, NEW t \in Tasks, HandlerStep(t)
    PROVE  LifeInv'
<1>1. /\ UNCHANGED <<sandbox, status>> /\ Typed /\ OwnOnly(t)
      /\ \A u \in Tasks : u # t =>
            /\ pc'[u] = pc[u] /\ job'[u] = job[u] /\ expected'[u] = expected[u]
            /\ tries'[u] = tries[u] /\ (lock = u => lock' = u)
  BY DEF HandlerStep, OwnOnly
<1>2. late \subseteq late' /\ \A j \in late' : j \in late \/ (j = job[t] /\ j.state = "pending" /\ j \in Jobs)
  <2>1. job[t].state = "pending" => job[t] \in Jobs BY DEF LifeInv, TypeOK, NoJob
  <2> QED BY <2>1 DEF HandlerStep, OwnOnly
<1>3. halted' \subseteq Tasks \X BOOLEAN
  BY DEF HandlerStep, Acknowledged, LifeInv, TypeOK
<1>4. \A id \in Tasks : Spent(id) => Spent(id)' BY SpentStays
<1>5. gone' \subseteq Tasks BY DEF HandlerStep, LifeInv, TypeOK, IdsAreSpent, Deleting
<1>6. TypeOK' BY <1>1, <1>2, <1>3, <1>5 DEF Typed, LifeInv, TypeOK
<1>7. LockIsHeld' BY <1>1 DEF HandlerStep, LifeInv, LockIsHeld
<1>8. AttemptIsLeft' BY <1>1 DEF HandlerStep, LifeInv, AttemptIsLeft
<1>9. ForeignIsLeft' BY <1>1, <1>2 DEF HandlerStep, LifeInv, ForeignIsLeft
<1>10. CreatedOnce'
  <2>1. ASSUME NEW u \in Tasks, job'[u].kind = "create" PROVE job'[u].id = u /\ pc'[u] = "created"
    BY <1>1, <2>1 DEF HandlerStep, LifeInv, CreatedOnce
  <2>2. ASSUME NEW j \in late', j.kind = "create"
        PROVE  j.id \in Tasks /\ pc'[j.id] \notin {"idle", "create"} /\ ~ Creating(job'[j.id])
    <3>1. CASE j \in late
      BY <1>1, <2>2, <3>1 DEF HandlerStep, LifeInv, CreatedOnce
    <3>2. CASE j = job[t] /\ j.state = "pending" /\ late' # late
      BY <2>2, <3>2 DEF HandlerStep, OwnOnly, LifeInv, CreatedOnce, Creating
    <3> QED BY <1>2, <3>1, <3>2
  <2>3. \A j \in late' : j.state = "pending" BY <1>2 DEF LifeInv, CreatedOnce
  <2> QED BY <2>1, <2>2, <2>3 DEF CreatedOnce, Creating
<1>11. IdsAreSpent'
  <2>1. sandbox' \in Tasks => Spent(sandbox)' BY <1>1, <1>4 DEF LifeInv, IdsAreSpent
  <2>2. \A id \in gone' : Spent(id)'
    BY <1>4, <1>5 DEF HandlerStep, LifeInv, IdsAreSpent, Deleting
  <2>3. ASSUME NEW h \in halted' PROVE Spent(h[1])'
    <3>1. h[1] \in Tasks BY <1>3
    <3>2. Spent(h[1]) BY DEF HandlerStep, Acknowledged, LifeInv, IdsAreSpent
    <3> QED BY <1>4, <3>1, <3>2
  <2>4. ASSUME NEW u \in Tasks, pc'[u] \in Deleting
        PROVE  (expected[u] \in Tasks /\ Spent(expected[u]))'
    <3>1. PICK id \in Tasks : id = expected'[u] /\ Spent(id)
      BY <1>1, <2>4 DEF HandlerStep, LifeInv, IdsAreSpent
    <3>2. Spent(id)' BY <1>4, <3>1
    <3> QED BY <3>1, <3>2 DEF Spent
  <2> QED BY <2>1, <2>2, <2>3, <2>4 DEF IdsAreSpent
<1>12. DeletionIsOfExpected' BY <1>1 DEF HandlerStep, LifeInv, DeletionIsOfExpected
<1>13. StopIsKept' /\ MarkedStopStands'
  <2>1. CASE halted' \subseteq halted
    <3>1. <<sandbox', TRUE>> \in halted' => intent' BY <1>1, <2>1 DEF HandlerStep, LifeInv, StopIsKept
    <3>2. \A j \in late' : j.kind = "start" => <<j.id, TRUE>> \notin halted'
      BY <1>2, <2>1 DEF LifeInv, StopIsKept
    <3>3. \A u \in Tasks : job'[u].kind = "start" => <<job'[u].id, TRUE>> \notin halted'
      BY <1>1, <2>1 DEF HandlerStep, LifeInv, StopIsKept
    <3>4. \A u \in Tasks : pc'[u] \in Stopping \cup {"settle_start"} => <<sandbox', TRUE>> \notin halted'
      BY <1>1, <2>1 DEF HandlerStep, LifeInv, StopIsKept
    <3>5. MarkedStopStands' BY <1>1, <2>1 DEF LifeInv, MarkedStopStands
    <3> QED BY <3>1, <3>2, <3>3, <3>4, <3>5 DEF StopIsKept
  <2>2. CASE Acknowledged(t)
    <3>1. <<sandbox', TRUE>> \in halted' => intent' BY <1>1, <2>2 DEF Acknowledged, LifeInv, StopIsKept
    <3>2. \A j \in late' : j.kind = "start" => <<j.id, TRUE>> \notin halted'
      BY <1>2, <2>2 DEF Acknowledged, LifeInv, StopIsKept
    <3>3. \A u \in Tasks : job'[u].kind = "start" => <<job'[u].id, TRUE>> \notin halted'
      BY <1>1, <2>2 DEF HandlerStep, Acknowledged, LifeInv, StopIsKept
    <3>4. ASSUME NEW u \in Tasks, pc'[u] \in Stopping \cup {"settle_start"} PROVE FALSE
      BY <1>1, <2>2, <3>4 DEF Acknowledged, LifeInv, LockIsHeld, UnderLock, Settling, Stopping
    <3>5. MarkedStopStands' BY <1>1, <2>2 DEF Acknowledged, LifeInv, MarkedStopStands
    <3> QED BY <3>1, <3>2, <3>3, <3>4, <3>5 DEF StopIsKept
  <2> QED BY <2>1, <2>2 DEF HandlerStep
<1>14. DeletedIsGone' BY <1>1 DEF HandlerStep, LifeInv, DeletedIsGone, DeletionIsOfExpected
<1> QED BY <1>6, <1>7, <1>8, <1>9, <1>10, <1>11, <1>12, <1>13, <1>14 DEF LifeInv

-----------------------------------------------------------------------------
(* What the invariant says of the instance and of one handler. *)
LEMMA OwnFacts ==
    ASSUME LifeInv, NEW t \in Tasks
    PROVE  /\ pc \in [Tasks -> Labels] /\ job \in [Tasks -> Jobs \cup {NoJob}]
           /\ expected \in [Tasks -> Sandboxes] /\ tries \in [Tasks -> 0..StartRetries]
           /\ rpc \in [Tasks -> AllRpcs] /\ lock \in Tasks \cup {NoTask} /\ intent \in BOOLEAN
           /\ t # NoTask /\ t # Foreign /\ t \in Sandboxes /\ NoSandbox # Foreign
           /\ sandbox \in Sandboxes
           /\ pc[t] \in UnderLock => lock = t
           /\ pc[t] \in Settling \cup {"settle_lock"} => tries[t] # 0
           /\ sandbox = Foreign => pc[t] \in Outside /\ job[t] = NoJob /\ ~ intent
           /\ job[t].id # Foreign
           /\ job[t].state = "pending" => job[t] \in Jobs
           /\ job[t].kind = "create" => job[t].id = t /\ pc[t] = "created"
           /\ NoJob.kind = "none" /\ NoJob.id # Foreign /\ NoJob.state = "none"
           /\ pc[t] \in Deleting => expected[t] \in Tasks
           /\ <<sandbox, TRUE>> \in halted => intent /\ status = "Stopped"
           /\ job[t].kind = "start" => <<job[t].id, TRUE>> \notin halted
           /\ pc[t] \in Stopping \cup {"settle_start"} => <<sandbox, TRUE>> \notin halted
<1>1. job[t].state = "pending" => job[t] \in Jobs BY DEF LifeInv, TypeOK, NoJob
<1>2. NoJob.kind = "none" /\ NoJob.id # Foreign /\ NoJob.state = "none"
  BY LifecycleAssumption DEF NoJob
<1> QED
  BY <1>1, <1>2, LifecycleAssumption
     DEF LifeInv, TypeOK, LockIsHeld, AttemptIsLeft, ForeignIsLeft, CreatedOnce, IdsAreSpent,
         StopIsKept, MarkedStopStands, Sandboxes

(* The operation that LXD accepts. *)
LEMMA AcceptAsks ==
    ASSUME LifeInv, NEW t \in Tasks, NEW kind \in Kinds, NEW label \in Labels, Accept(t, kind, label)
    PROVE  /\ pc' \in [Tasks -> Labels] /\ pc'[t] = label
           /\ job' \in [Tasks -> Jobs \cup {NoJob}]
           /\ job'[t].kind = kind /\ job'[t].state = "pending"
           /\ job'[t].id = IF kind = "create" THEN t ELSE sandbox
           /\ \A u \in Tasks : u # t => pc'[u] = pc[u] /\ job'[u] = job[u]
<1> DEFINE asked == [kind |-> kind, id |-> IF kind = "create" THEN t ELSE sandbox, state |-> "pending"]
<1>1. asked \in Jobs BY OwnFacts DEF Jobs
<1>2. job' = [job EXCEPT ![t] = asked] BY DEF Accept
<1>3. pc' = [pc EXCEPT ![t] = label] BY DEF Accept, Goto
<1>4. asked.kind = kind /\ asked.state = "pending" /\ asked.id = IF kind = "create" THEN t ELSE sandbox
  OBVIOUS
<1> HIDE DEF asked
<1> QED BY <1>1, <1>2, <1>3, <1>4, OwnFacts

LEMMA GotoMoves ==
    ASSUME LifeInv, NEW t \in Tasks, NEW label \in Labels, Goto(t, label)
    PROVE  /\ pc' \in [Tasks -> Labels] /\ pc'[t] = label
           /\ \A u \in Tasks : u # t => pc'[u] = pc[u]
BY OwnFacts DEF Goto

(* A handler's lock is kept, dropped or taken. *)
LockMoves(t) ==
    \/ UNCHANGED lock
    \/ lock' = IF lock = t THEN NoTask ELSE lock
    \/ lock = NoTask /\ lock' = t

LEMMA LockIsTyped ==
    ASSUME LifeInv, NEW t \in Tasks, LockMoves(t)
    PROVE  lock' \in Tasks \cup {NoTask} /\ \A u \in Tasks : u # t /\ lock = u => lock' = u
BY OwnFacts, LifecycleAssumption DEF LockMoves

(* A handler's operation stays its own, or it has been waited for. *)
JobKept(t) ==
    \/ UNCHANGED job /\ pc[t] # "created"
    \/ job' = [job EXCEPT ![t] = NoJob]

LEMMA JobIsTyped ==
    ASSUME LifeInv, NEW t \in Tasks, JobKept(t)
    PROVE  /\ job' \in [Tasks -> Jobs \cup {NoJob}]
           /\ \A u \in Tasks : u # t => job'[u] = job[u]
           /\ job'[t] \in {NoJob, job[t]}
           /\ job'[t].kind # "create" /\ job'[t].id # Foreign
           /\ sandbox = Foreign => job'[t] = NoJob
           /\ job'[t].kind = "start" => <<job'[t].id, TRUE>> \notin halted
BY OwnFacts DEF JobKept

(* The labels at which the handler neither holds the lock nor is about to. *)
Calm == {"create", "push", "start", "cleanup_stop", "cleanup_delete", "start_read", "start_push",
         "start_clear", "stop_lock", "delete_lock"} \cup Ends

LEMMA CalmLabels ==
    /\ Calm \subseteq Labels
    /\ \A label \in Calm :
          /\ label \notin UnderLock /\ label \notin Settling /\ label # "settle_lock"
          /\ label \notin Deleting /\ label \notin Stopping /\ label # "settle_start"
          /\ label # "deleted" /\ label # "idle"
BY DEF Calm, Ends, Labels, UnderLock, Settling, Stopping, Deleting

LEMMA CalmStep ==
    ASSUME LifeInv, NEW t \in Tasks, NEW label \in Calm, Goto(t, label),
           LockMoves(t), JobKept(t), UNCHANGED <<sandbox, status, late>>,
           label = "create" => pc[t] = "idle",
           pc[t] \in Outside => label \in Outside \/ sandbox # Foreign,
           rpc' \in [Tasks -> AllRpcs],
           expected' \in [Tasks -> Sandboxes], tries' \in [Tasks -> 0..StartRetries],
           \A u \in Tasks : u # t => expected'[u] = expected[u] /\ tries'[u] = tries[u],
           halted' \subseteq halted,
           \/ UNCHANGED gone
           \/ pc[t] = "deleted" /\ job[t].state = "ok" /\ gone' = gone \cup {expected[t]},
           \/ UNCHANGED intent
           \/ pc[t] \notin Outside /\ intent' = FALSE /\ <<sandbox, TRUE>> \notin halted'
    PROVE  HandlerStep(t)
<1>1. /\ pc' \in [Tasks -> Labels] /\ pc'[t] = label
      /\ \A u \in Tasks : u # t => pc'[u] = pc[u]
  BY GotoMoves, CalmLabels
<1>2. lock' \in Tasks \cup {NoTask} /\ \A u \in Tasks : u # t /\ lock = u => lock' = u
  BY LockIsTyped
<1>3. /\ job' \in [Tasks -> Jobs \cup {NoJob}]
      /\ \A u \in Tasks : u # t => job'[u] = job[u]
      /\ job'[t] \in {NoJob, job[t]}
      /\ job'[t].kind # "create" /\ job'[t].id # Foreign
      /\ sandbox = Foreign => job'[t] = NoJob
      /\ job'[t].kind = "start" => <<job'[t].id, TRUE>> \notin halted
  BY JobIsTyped
<1>4. Typed BY <1>1, <1>2, <1>3, OwnFacts DEF Typed
<1>5. OwnOnly(t) BY <1>1, <1>2, <1>3 DEF OwnOnly
<1>6. sandbox = Foreign => pc'[t] \in Outside /\ job'[t] = NoJob /\ ~ intent' /\ UNCHANGED late
  BY <1>1, <1>3, OwnFacts
<1>7. intent' # intent => <<sandbox, TRUE>> \notin halted' \/ intent'
  OBVIOUS
<1>8. pc[t] \notin {"idle", "create"} =>
          pc'[t] \notin {"idle", "create"} /\ (Creating(job'[t]) => Creating(job[t]))
  BY <1>1, <1>3, CalmLabels DEF Creating
<1> QED BY <1>1, <1>3, <1>4, <1>5, <1>6, <1>7, <1>8, CalmLabels DEF HandlerStep

(* LXD accepts a request of a handler that has been let near the instance. *)
LEMMA AskStep ==
    ASSUME LifeInv, NEW t \in Tasks, NEW kind \in Kinds, NEW label \in Waits, Accept(t, kind, label),
           UNCHANGED <<sandbox, status, intent, late, lock, rpc, expected, tries, gone>>,
           halted' \subseteq halted,
           pc[t] # "idle",
           kind = "create" <=> label = "created",
           kind = "create" => pc[t] = "create" /\ ~ Exists,
           kind # "create" => pc[t] \notin Outside,
           kind = "delete" <=> label \in {"deleted", "cleanup_deleted"},
           kind = "start" => <<sandbox, TRUE>> \notin halted',
           label \in UnderLock => pc[t] \in UnderLock,
           label = "restarted" => pc[t] = "settle_start",
           label \in Deleting => pc[t] \in Deleting,
           label \in Stopping => pc[t] \in Stopping
    PROVE  HandlerStep(t)
<1>0. label \in Labels /\ label \notin {"idle", "create", "settle_start", "settle_lock"}
  BY DEF Labels, Waits
<1>1. /\ pc' \in [Tasks -> Labels] /\ pc'[t] = label
      /\ job' \in [Tasks -> Jobs \cup {NoJob}]
      /\ job'[t].kind = kind /\ job'[t].state = "pending"
      /\ job'[t].id = IF kind = "create" THEN t ELSE sandbox
      /\ \A u \in Tasks : u # t => pc'[u] = pc[u] /\ job'[u] = job[u]
  BY <1>0, AcceptAsks
<1>2. sandbox # Foreign BY OwnFacts DEF Exists
<1>3. Typed BY <1>1, OwnFacts DEF Typed
<1>4. OwnOnly(t) BY <1>1 DEF OwnOnly
<1>5. label \in Settling => label = "restarted" /\ pc[t] \in Settling
  BY DEF Waits, Settling
<1>6. pc[t] \notin {"idle", "create"} =>
          pc'[t] \notin {"idle", "create"} /\ (Creating(job'[t]) => Creating(job[t]))
  BY <1>0, <1>1 DEF Creating
<1>7. pc'[t] = "deleted" =>
          /\ job'[t].kind = "delete" /\ job'[t].state # "ok"
          /\ job'[t].id = expected'[t] \/ sandbox # expected'[t]
  BY <1>1
<1>8. pc'[t] \in UnderLock => lock' = t BY <1>1, OwnFacts
<1>9. pc'[t] \in Settling \cup {"settle_lock"} => tries'[t] # 0 BY <1>0, <1>1, <1>5, OwnFacts
<1>10. pc'[t] \in Deleting =>
          /\ expected'[t] \in Tasks
          /\ expected'[t] = sandbox \/ (pc[t] \in Deleting /\ expected'[t] = expected[t])
  BY <1>1, OwnFacts
<1>11. pc'[t] \in Stopping \cup {"settle_start"} => <<sandbox, TRUE>> \notin halted'
  BY <1>0, <1>1, OwnFacts
<1> QED BY <1>1, <1>2, <1>3, <1>4, <1>6, <1>7, <1>8, <1>9, <1>10, <1>11, OwnFacts DEF HandlerStep

(* A step to a label under the lock at which nothing is waited for. *)
LEMMA LockedStep ==
    ASSUME LifeInv, NEW t \in Tasks, NEW label \in UnderLock \ Waits, Goto(t, label),
           lock' = t, LockMoves(t), JobKept(t),
           UNCHANGED <<sandbox, status, late, rpc, tries, halted, gone>>,
           pc[t] # "idle",
           pc[t] \in Outside => label \in Outside \/ sandbox # Foreign,
           label \in Settling => pc[t] \in Settling \cup {"settle_lock"},
           \/ UNCHANGED expected
           \/ expected' = [expected EXCEPT ![t] = sandbox],
           label \in Deleting =>
              \/ pc[t] \in Deleting /\ UNCHANGED expected
              \/ sandbox \in Tasks /\ expected' = [expected EXCEPT ![t] = sandbox],
           UNCHANGED intent \/ (pc[t] \notin Outside /\ intent' = TRUE),
           label \in Stopping \cup {"settle_start"} => <<sandbox, TRUE>> \notin halted
    PROVE  HandlerStep(t)
<1>0. label \in Labels /\ label \notin {"idle", "create", "created", "deleted", "settle_lock"}
  BY DEF UnderLock, Settling, Stopping, Deleting, Labels, Waits
<1>1. /\ pc' \in [Tasks -> Labels] /\ pc'[t] = label
      /\ \A u \in Tasks : u # t => pc'[u] = pc[u]
  BY <1>0, GotoMoves
<1>2. lock' \in Tasks \cup {NoTask} /\ \A u \in Tasks : u # t /\ lock = u => lock' = u
  BY LockIsTyped
<1>3. /\ job' \in [Tasks -> Jobs \cup {NoJob}]
      /\ \A u \in Tasks : u # t => job'[u] = job[u]
      /\ job'[t] \in {NoJob, job[t]}
      /\ job'[t].kind # "create" /\ job'[t].id # Foreign
      /\ sandbox = Foreign => job'[t] = NoJob
      /\ job'[t].kind = "start" => <<job'[t].id, TRUE>> \notin halted
  BY JobIsTyped
<1>4. /\ expected' \in [Tasks -> Sandboxes]
      /\ \A u \in Tasks : u # t => expected'[u] = expected[u]
      /\ label \in Deleting =>
            /\ expected'[t] \in Tasks
            /\ expected'[t] = sandbox \/ (pc[t] \in Deleting /\ expected'[t] = expected[t])
  <2>1. expected \in [Tasks -> Sandboxes] /\ sandbox \in Sandboxes
        /\ (pc[t] \in Deleting => expected[t] \in Tasks)
    BY OwnFacts
  <2>2. CASE UNCHANGED expected BY <2>1, <2>2
  <2>3. CASE expected' = [expected EXCEPT ![t] = sandbox] BY <2>1, <2>3
  <2> QED BY <2>2, <2>3
<1>5. Typed BY <1>1, <1>2, <1>3, <1>4, OwnFacts DEF Typed
<1>6. OwnOnly(t) BY <1>1, <1>2, <1>3, <1>4 DEF OwnOnly
<1>7. sandbox = Foreign => pc'[t] \in Outside /\ job'[t] = NoJob /\ ~ intent' /\ UNCHANGED late
  BY <1>1, <1>3, OwnFacts
<1>8. pc[t] \notin {"idle", "create"} =>
          pc'[t] \notin {"idle", "create"} /\ (Creating(job'[t]) => Creating(job[t]))
  BY <1>0, <1>1, <1>3 DEF Creating
<1>9. pc'[t] \in Settling \cup {"settle_lock"} => tries'[t] # 0 BY <1>0, <1>1, OwnFacts
<1> QED BY <1>0, <1>1, <1>3, <1>4, <1>5, <1>6, <1>7, <1>8, <1>9 DEF HandlerStep

(* StopSandbox is answered. *)
LEMMA AcknowledgeStep ==
    ASSUME LifeInv, NEW t \in Tasks, pc[t] \in UnderLock, Acknowledge(t), JobKept(t),
           UNCHANGED <<sandbox, status, intent, late, rpc, expected, tries, gone>>
    PROVE  HandlerStep(t)
<1>1. Goto(t, "ok") /\ LockMoves(t) /\ lock = t BY OwnFacts DEF Acknowledge, Return, LockMoves
<1>2. "ok" \in Calm /\ "ok" \in Outside BY DEF Calm, Outside, Ends
<1>3. CASE UNCHANGED halted
  BY <1>1, <1>2, <1>3, CalmStep, OwnFacts
<1>4. CASE /\ halted' = halted \cup {<<sandbox, intent>>}
           /\ Managed /\ status = "Stopped"
           /\ \A j \in late \cup {job[u] : u \in Tasks} : ~ (j.kind = "start" /\ j.id = sandbox)
  <2>1. /\ pc' \in [Tasks -> Labels] /\ pc'[t] = "ok"
        /\ \A u \in Tasks : u # t => pc'[u] = pc[u]
    BY <1>1, <1>2, GotoMoves, CalmLabels
  <2>2. lock' \in Tasks \cup {NoTask} /\ \A u \in Tasks : u # t /\ lock = u => lock' = u
    BY <1>1, LockIsTyped
  <2>3. /\ job' \in [Tasks -> Jobs \cup {NoJob}]
        /\ \A u \in Tasks : u # t => job'[u] = job[u]
        /\ job'[t] \in {NoJob, job[t]}
        /\ job'[t].kind # "create" /\ job'[t].id # Foreign
        /\ sandbox = Foreign => job'[t] = NoJob
    BY JobIsTyped
  <2>4. /\ \A j \in late : j.kind = "start" => j.id # sandbox
        /\ \A u \in Tasks : job[u].kind = "start" => job[u].id # sandbox
    BY <1>4
  <2>5. job'[t].kind = "start" => <<job'[t].id, TRUE>> \notin halted'
    <3>1. CASE job'[t] = NoJob BY <3>1, OwnFacts
    <3>2. CASE job'[t] = job[t]
      <4>1. job[t].kind = "start" => <<job[t].id, TRUE>> \notin halted /\ job[t].id # sandbox
        BY <2>4, OwnFacts
      <4> QED BY <1>4, <3>2, <4>1
    <3> QED BY <2>3, <3>1, <3>2
  <2>6. Acknowledged(t) BY <1>1, <1>4, <2>1, <2>4 DEF Acknowledged, Managed
  <2>7. Typed BY <2>1, <2>2, <2>3, OwnFacts DEF Typed
  <2>8. OwnOnly(t) BY <2>1, <2>2, <2>3 DEF OwnOnly
  <2>9. sandbox # Foreign BY <1>4, LifecycleAssumption DEF Managed
  <2>10. pc[t] \notin {"idle", "create"} =>
            pc'[t] \notin {"idle", "create"} /\ (Creating(job'[t]) => Creating(job[t]))
    BY <2>1, <2>3 DEF Creating
  <2> QED BY <1>2, <2>1, <2>3, <2>5, <2>6, <2>7, <2>8, <2>9, <2>10, CalmLabels DEF HandlerStep
<1> QED BY <1>3, <1>4 DEF Acknowledge, Managed

(* A step to a calm label that changes nothing else. *)
LEMMA CalmMove ==
    ASSUME LifeInv, NEW t \in Tasks, NEW label \in Calm \ {"create"}, Goto(t, label),
           LockMoves(t), JobKept(t), pc[t] \in Outside => label \in Outside,
           UNCHANGED <<sandbox, status, intent, late, rpc, expected, tries, halted, gone>>
    PROVE  HandlerStep(t)
BY CalmStep, OwnFacts

LEMMA ReturnMoves ==
    ASSUME NEW t, NEW answer, Return(t, answer)
    PROVE  Goto(t, answer) /\ LockMoves(t)
BY DEF Return, LockMoves

LEMMA StartFailsMoves ==
    ASSUME NEW t, StartFails(t)
    PROVE  LockMoves(t) /\ \E label \in {"cleanup_stop", "error"} : Goto(t, label)
BY DEF StartFails, LockMoves

LEMMA WaitedClears ==
    ASSUME NEW t, NEW label, Waited(t, label)
    PROVE  JobKept(t) /\ pc[t] = label
BY DEF Waited, JobKept

-----------------------------------------------------------------------------
LEMMA CreateIsHandlerStep ==
    ASSUME LifeInv, NEW t \in Tasks, Create(t)
    PROVE  HandlerStep(t)
<1> USE DEF Calm, Outside, Ends
<1>1. CASE CreateInstance(t)
  <2>1. CASE ~ Exists /\ Accept(t, "create", "created") /\ UNCHANGED lock
    BY <1>1, <2>1, AskStep
       DEF CreateInstance, Exists, Kinds, Waits, UnderLock, Settling, Stopping, Deleting
  <2>2. CASE Return(t, "error") /\ UNCHANGED job
    BY <1>1, <2>2, ReturnMoves, CalmMove DEF CreateInstance, JobKept
  <2> QED BY <1>1, <2>1, <2>2 DEF CreateInstance
<1>2. CASE AwaitCreate(t)
  BY <1>2, ReturnMoves, WaitedClears, CalmMove DEF AwaitCreate, LockMoves
<1>3. CASE PushCreate(t) BY <1>3, CalmMove DEF PushCreate, LockMoves, JobKept
<1>4. CASE CleanupStop(t)
  <2>1. CASE Exists /\ Accept(t, "stop", "cleanup_stopped")
    BY <1>4, <2>1, AskStep DEF CleanupStop, Kinds, Waits, UnderLock, Settling, Stopping, Deleting
  <2>2. CASE Goto(t, "cleanup_delete") /\ UNCHANGED job
    BY <1>4, <2>2, CalmMove DEF CleanupStop, LockMoves, JobKept
  <2> QED BY <1>4, <2>1, <2>2 DEF CleanupStop
<1>5. CASE AwaitCleanupStop(t)
  BY <1>5, WaitedClears, CalmMove DEF AwaitCleanupStop, LockMoves
<1>6. CASE CleanupDelete(t)
  <2>1. CASE Exists /\ Accept(t, "delete", "cleanup_deleted") /\ UNCHANGED lock
    BY <1>6, <2>1, AskStep DEF CleanupDelete, Kinds, Waits, UnderLock, Settling, Stopping, Deleting
  <2>2. CASE Return(t, "error") /\ UNCHANGED job
    BY <1>6, <2>2, ReturnMoves, CalmMove DEF CleanupDelete, JobKept
  <2> QED BY <1>6, <2>1, <2>2 DEF CleanupDelete
<1>7. CASE AwaitCleanupDelete(t)
  BY <1>7, ReturnMoves, WaitedClears, CalmMove DEF AwaitCleanupDelete
<1> QED BY <1>1, <1>2, <1>3, <1>4, <1>5, <1>6, <1>7 DEF Create

(* The next attempt to settle waits for the lock. *)
LEMMA AttemptStep ==
    ASSUME LifeInv, NEW t \in Tasks, Goto(t, "settle_lock"), LockMoves(t), JobKept(t),
           pc[t] \notin Outside,
           UNCHANGED <<sandbox, status, intent, late, rpc, halted, gone>>,
           expected' \in [Tasks -> Sandboxes], tries' \in [Tasks -> 0..StartRetries],
           \A u \in Tasks : u # t => expected'[u] = expected[u] /\ tries'[u] = tries[u],
           tries'[t] # 0
    PROVE  HandlerStep(t)
<1>0. /\ "settle_lock" \in Labels
      /\ "settle_lock" \notin UnderLock /\ "settle_lock" \notin Deleting /\ "settle_lock" \notin Stopping
  BY DEF Labels, UnderLock, Settling, Stopping, Deleting
<1>1. /\ pc' \in [Tasks -> Labels] /\ pc'[t] = "settle_lock"
      /\ \A u \in Tasks : u # t => pc'[u] = pc[u]
  BY <1>0, GotoMoves
<1>2. lock' \in Tasks \cup {NoTask} /\ \A u \in Tasks : u # t /\ lock = u => lock' = u
  BY LockIsTyped
<1>3. /\ job' \in [Tasks -> Jobs \cup {NoJob}]
      /\ \A u \in Tasks : u # t => job'[u] = job[u]
      /\ job'[t] \in {NoJob, job[t]}
      /\ job'[t].kind # "create" /\ job'[t].id # Foreign
      /\ job'[t].kind = "start" => <<job'[t].id, TRUE>> \notin halted
  BY JobIsTyped
<1>4. Typed BY <1>1, <1>2, <1>3, OwnFacts DEF Typed
<1>5. OwnOnly(t) BY <1>1, <1>2, <1>3 DEF OwnOnly
<1>6. sandbox # Foreign BY OwnFacts
<1>7. pc[t] \notin {"idle", "create"} =>
          pc'[t] \notin {"idle", "create"} /\ (Creating(job'[t]) => Creating(job[t]))
  BY <1>1, <1>3 DEF Creating
<1> QED BY <1>0, <1>1, <1>3, <1>4, <1>5, <1>6, <1>7 DEF HandlerStep

LEMMA StartIsHandlerStep ==
    ASSUME LifeInv, NEW t \in Tasks, Start(t)
    PROVE  HandlerStep(t)
<1> USE DEF Calm, Outside, Ends
<1>0. Revoke => halted' \subseteq halted /\ <<sandbox, TRUE>> \notin halted'
  BY DEF Revoke
<1>1. CASE StartRead(t)
  <2>1. CASE /\ Managed /\ status = "Stopped"
             /\ expected' = [expected EXCEPT ![t] = sandbox]
             /\ Goto(t, "start_push")
             /\ UNCHANGED lock
    <3>1. sandbox # Foreign BY <2>1, LifecycleAssumption DEF Managed
    <3>2. expected' \in [Tasks -> Sandboxes] /\ \A u \in Tasks : u # t => expected'[u] = expected[u]
      BY <2>1, OwnFacts
    <3> QED BY <1>1, <2>1, <3>1, <3>2, CalmStep, OwnFacts DEF StartRead, LockMoves, JobKept
  <2>2. CASE UNCHANGED expected /\ (Return(t, "ok") \/ Return(t, "error"))
    BY <1>1, <2>2, ReturnMoves, CalmMove DEF StartRead, JobKept
  <2> QED BY <1>1, <2>1, <2>2 DEF StartRead
<1>2. CASE StartPush(t)
  BY <1>2, ReturnMoves, CalmMove DEF StartPush, LockMoves, JobKept
<1>3. CASE StartClear(t)
  <2>1. CASE Patch(FALSE, TRUE) /\ Goto(t, "start") /\ Revoke /\ UNCHANGED lock
    BY <1>0, <1>3, <2>1, CalmStep, OwnFacts DEF StartClear, Patch, LockMoves, JobKept
  <2>2. CASE Patch(FALSE, FALSE) /\ Return(t, "error") /\ UNCHANGED halted
    BY <1>3, <2>2, ReturnMoves, CalmMove DEF StartClear, Patch, lxd, JobKept
  <2> QED BY <1>3, <2>1, <2>2 DEF StartClear
<1>4. CASE StartInstance(t)
  <2>1. CASE Exists /\ Accept(t, "start", "started") /\ Revoke /\ UNCHANGED lock
    BY <1>0, <1>4, <2>1, AskStep
       DEF StartInstance, Kinds, Waits, UnderLock, Settling, Stopping, Deleting
  <2>2. CASE StartFails(t) /\ UNCHANGED <<job, halted>>
    BY <1>4, <2>2, StartFailsMoves, CalmMove DEF StartInstance, JobKept
  <2> QED BY <1>4, <2>1, <2>2 DEF StartInstance
<1>5. CASE AwaitStart(t)
  <2>0. JobKept(t) /\ pc[t] = "started" BY <1>5, WaitedClears DEF AwaitStart
  <2>1. CASE /\ Goto(t, IF StartRetries > 0 THEN "settle_lock" ELSE "ok")
             /\ tries' = [tries EXCEPT ![t] = StartRetries]
             /\ expected' = IF rpc[t] = "create" THEN [expected EXCEPT ![t] = t] ELSE expected
             /\ UNCHANGED lock
    <3>1. /\ tries' \in [Tasks -> 0..StartRetries] /\ tries'[t] = StartRetries
          /\ \A u \in Tasks : u # t => tries'[u] = tries[u]
      <4>1. StartRetries \in 0..StartRetries BY LifecycleAssumption
      <4>2. tries \in [Tasks -> 0..StartRetries] BY OwnFacts
      <4> QED BY <2>1, <4>1, <4>2
    <3>2. expected' \in [Tasks -> Sandboxes] /\ \A u \in Tasks : u # t => expected'[u] = expected[u]
      BY <2>1, OwnFacts
    <3>3. CASE StartRetries > 0
      BY <1>5, <2>0, <2>1, <3>1, <3>2, <3>3, AttemptStep DEF AwaitStart, LockMoves
    <3>4. CASE ~ StartRetries > 0
      <4>1. Goto(t, "ok") /\ LockMoves(t) BY <2>1, <3>4 DEF LockMoves
      <4>2. UNCHANGED <<sandbox, status, intent, late, rpc, halted, gone>> BY <1>5 DEF AwaitStart
      <4>3. rpc' \in [Tasks -> AllRpcs] BY <4>2, OwnFacts
      <4> QED BY <2>0, <3>1, <3>2, <4>1, <4>2, <4>3, CalmStep
    <3> QED BY <3>3, <3>4
  <2>2. CASE StartFails(t) /\ UNCHANGED <<tries, expected>>
    BY <1>5, <2>0, <2>2, StartFailsMoves, CalmMove DEF AwaitStart
  <2> QED BY <1>5, <2>1, <2>2 DEF AwaitStart
<1> QED BY <1>1, <1>2, <1>3, <1>4, <1>5 DEF Start

LEMMA LockForIsHandlerStep ==
    ASSUME LifeInv, NEW t \in Tasks, SettleLock(t) \/ StopLock(t) \/ DeleteLock(t)
    PROVE  HandlerStep(t)
<1> USE DEF Outside, Ends, UnderLock, Settling, Stopping, Deleting, Waits
<1>1. CASE SettleLock(t)
  BY <1>1, LockedStep, OwnFacts DEF SettleLock, LockFor, LockMoves, JobKept
<1>2. CASE StopLock(t) BY <1>2, LockedStep DEF StopLock, LockFor, LockMoves, JobKept
<1>3. CASE DeleteLock(t) BY <1>3, LockedStep DEF DeleteLock, LockFor, LockMoves, JobKept
<1> QED BY <1>1, <1>2, <1>3

LEMMA SettleIsHandlerStep ==
    ASSUME LifeInv, NEW t \in Tasks, Settle(t)
    PROVE  HandlerStep(t)
<1> USE DEF Calm, Outside, Ends
<1>1. CASE SettleLock(t) BY <1>1, LockForIsHandlerStep
<1>2. CASE SettleRead(t)
  <2>0. pc[t] = "settle_read" /\ lock = t BY <1>2, OwnFacts DEF SettleRead, UnderLock, Settling
  <2>1. CASE sandbox = expected[t] /\ ~ intent /\ Goto(t, "settle_start") /\ UNCHANGED lock
    BY <1>2, <2>0, <2>1, LockedStep, OwnFacts
       DEF SettleRead, UnderLock, Settling, Stopping, Deleting, Waits, LockMoves, JobKept
  <2>2. CASE Return(t, "ok")
    BY <1>2, <2>2, ReturnMoves, CalmMove DEF SettleRead, JobKept
  <2>3. CASE StartFails(t)
    BY <1>2, <2>3, StartFailsMoves, CalmMove DEF SettleRead, JobKept
  <2> QED BY <1>2, <2>1, <2>2, <2>3 DEF SettleRead
<1>3. CASE SettleStart(t)
  <2>0. pc[t] = "settle_start" /\ <<sandbox, TRUE>> \notin halted BY <1>3, OwnFacts DEF SettleStart
  <2>1. CASE Exists /\ Accept(t, "start", "restarted") /\ UNCHANGED lock
    BY <1>3, <2>0, <2>1, AskStep
       DEF SettleStart, Kinds, Waits, UnderLock, Settling, Stopping, Deleting
  <2>2. CASE StartFails(t) /\ UNCHANGED job
    BY <1>3, <2>2, StartFailsMoves, CalmMove DEF SettleStart, JobKept
  <2> QED BY <1>3, <2>1, <2>2 DEF SettleStart
<1>4. CASE AwaitRestart(t)
  <2>0. JobKept(t) /\ pc[t] = "restarted" BY <1>4, WaitedClears DEF AwaitRestart
  <2>1. CASE /\ tries' = [tries EXCEPT ![t] = @ - 1]
             /\ Return(t, IF tries[t] > 1 THEN "settle_lock" ELSE "ok")
    <3>1. tries[t] \in 0..StartRetries /\ tries[t] # 0
      BY <2>0, OwnFacts DEF Settling
    <3>2. /\ tries' \in [Tasks -> 0..StartRetries] /\ tries'[t] = tries[t] - 1
          /\ \A u \in Tasks : u # t => tries'[u] = tries[u]
      <4>1. tries[t] - 1 \in 0..StartRetries BY <3>1, LifecycleAssumption
      <4>2. tries \in [Tasks -> 0..StartRetries] BY OwnFacts
      <4> QED BY <2>1, <4>1, <4>2
    <3>3. CASE tries[t] > 1
      <4>1. tries'[t] # 0 BY <3>1, <3>2, <3>3, LifecycleAssumption
      <4> QED BY <1>4, <2>0, <2>1, <3>2, <3>3, <4>1, ReturnMoves, AttemptStep, OwnFacts DEF AwaitRestart
    <3>4. CASE ~ tries[t] > 1
      <4>1. Goto(t, "ok") /\ LockMoves(t) BY <2>1, <3>4, ReturnMoves
      <4>2. UNCHANGED <<sandbox, status, intent, late, rpc, expected, halted, gone>>
        BY <1>4 DEF AwaitRestart
      <4>3. rpc' \in [Tasks -> AllRpcs] /\ expected' \in [Tasks -> Sandboxes] BY <4>2, OwnFacts
      <4> QED BY <2>0, <3>2, <4>1, <4>2, <4>3, CalmStep
    <3> QED BY <3>3, <3>4
  <2>2. CASE StartFails(t) /\ UNCHANGED tries
    BY <1>4, <2>0, <2>2, StartFailsMoves, CalmMove DEF AwaitRestart
  <2> QED BY <1>4, <2>1, <2>2 DEF AwaitRestart
<1> QED BY <1>1, <1>2, <1>3, <1>4 DEF Settle

LEMMA StopIsHandlerStep ==
    ASSUME LifeInv, NEW t \in Tasks, Stop(t)
    PROVE  HandlerStep(t)
<1> USE DEF Outside, Ends, UnderLock, Settling, Stopping, Deleting, Waits
<1>0. pc[t] \in UnderLock => lock = t BY OwnFacts
<1>1. CASE StopLock(t) BY <1>1, LockForIsHandlerStep
<1>2. CASE StopRead(t)
  <2>1. CASE Managed /\ status # "Stopped" /\ Goto(t, "stop_mark") /\ UNCHANGED <<lock, halted>>
    <3>1. sandbox # Foreign BY <2>1, LifecycleAssumption DEF Managed
    <3>2. <<sandbox, TRUE>> \notin halted BY <2>1, OwnFacts
    <3> QED BY <1>0, <1>2, <2>1, <3>1, <3>2, LockedStep DEF StopRead, LockMoves, JobKept
  <2>2. CASE Acknowledge(t) BY <1>2, <2>2, AcknowledgeStep DEF StopRead, JobKept
  <2>3. CASE Return(t, "error") /\ UNCHANGED halted
    BY <1>2, <2>3, ReturnMoves, CalmMove DEF StopRead, JobKept, Calm
  <2> QED BY <1>2, <2>1, <2>2, <2>3 DEF StopRead
<1>3. CASE StopMark(t)
  <2>1. UNCHANGED <<sandbox, status>> /\ (UNCHANGED intent \/ intent' = TRUE)
    BY <1>3 DEF StopMark, Patch, lxd
  <2>2. <<sandbox, TRUE>> \notin halted BY <1>3, OwnFacts DEF StopMark
  <2> QED BY <1>0, <1>3, <2>1, <2>2, LockedStep DEF StopMark, LockMoves, JobKept
<1>4. CASE AskShutDown(t)
  <2>0. <<sandbox, TRUE>> \notin halted /\ pc[t] = "shut_down_ask" BY <1>4, OwnFacts DEF AskShutDown
  <2>1. CASE Exists /\ Accept(t, "shutdown", "shut_down") /\ UNCHANGED <<lock, halted>>
    BY <1>4, <2>0, <2>1, AskStep DEF AskShutDown, Kinds
  <2>2. CASE Acknowledge(t) /\ UNCHANGED job BY <1>4, <2>2, AcknowledgeStep DEF AskShutDown, JobKept
  <2>3. CASE Goto(t, "stop_force") /\ UNCHANGED <<lock, job, halted>>
    BY <1>0, <1>4, <2>0, <2>3, LockedStep DEF AskShutDown, LockMoves, JobKept
  <2> QED BY <1>4, <2>1, <2>2, <2>3 DEF AskShutDown
<1>5. CASE AwaitShutDown(t)
  <2>0. pc[t] = "shut_down" /\ JobKept(t) BY <1>5, WaitedClears DEF AwaitShutDown
  <2>1. CASE Acknowledge(t) BY <1>5, <2>0, <2>1, AcknowledgeStep DEF AwaitShutDown
  <2>2. CASE Goto(t, "stop_force") /\ UNCHANGED <<lock, halted>>
    <3>1. <<sandbox, TRUE>> \notin halted BY <2>0, OwnFacts
    <3> QED BY <1>0, <1>5, <2>0, <2>2, <3>1, LockedStep DEF AwaitShutDown, LockMoves
  <2> QED BY <1>5, <2>1, <2>2 DEF AwaitShutDown
<1>6. CASE ForceStop(t)
  <2>0. <<sandbox, TRUE>> \notin halted /\ pc[t] = "stop_force" BY <1>6, OwnFacts DEF ForceStop
  <2>1. CASE Exists /\ Accept(t, "stop", "stopped") /\ UNCHANGED <<lock, halted>>
    BY <1>6, <2>0, <2>1, AskStep DEF ForceStop, Kinds
  <2>2. CASE Acknowledge(t) /\ UNCHANGED job BY <1>6, <2>2, AcknowledgeStep DEF ForceStop, JobKept
  <2>3. CASE Goto(t, "stop_unmark") /\ UNCHANGED <<lock, job, halted>>
    BY <1>0, <1>6, <2>0, <2>3, LockedStep DEF ForceStop, LockMoves, JobKept
  <2> QED BY <1>6, <2>1, <2>2, <2>3 DEF ForceStop
<1>7. CASE AwaitForceStop(t)
  <2>0. pc[t] = "stopped" /\ JobKept(t) BY <1>7, WaitedClears DEF AwaitForceStop
  <2>1. CASE Acknowledge(t) BY <1>7, <2>0, <2>1, AcknowledgeStep DEF AwaitForceStop
  <2>2. CASE Goto(t, "stop_unmark") /\ UNCHANGED <<lock, halted>>
    <3>1. <<sandbox, TRUE>> \notin halted BY <2>0, OwnFacts
    <3> QED BY <1>0, <1>7, <2>0, <2>2, <3>1, LockedStep DEF AwaitForceStop, LockMoves
  <2> QED BY <1>7, <2>1, <2>2 DEF AwaitForceStop
<1>8. CASE StopUnmark(t)
  <2>1. UNCHANGED <<sandbox, status>> /\ (UNCHANGED intent \/ intent' = FALSE)
    BY <1>8 DEF StopUnmark, Patch, lxd
  <2>2. <<sandbox, TRUE>> \notin halted /\ pc[t] = "stop_unmark" BY <1>8, OwnFacts DEF StopUnmark
  <2>3. Goto(t, "error") /\ LockMoves(t) BY <1>8, ReturnMoves DEF StopUnmark
  <2>4. UNCHANGED <<late, rpc, job, expected, tries, halted, gone>> BY <1>8 DEF StopUnmark
  <2>5. /\ rpc' \in [Tasks -> AllRpcs]
        /\ expected' \in [Tasks -> Sandboxes] /\ tries' \in [Tasks -> 0..StartRetries]
    BY <2>4, OwnFacts
  <2> QED BY <2>1, <2>2, <2>3, <2>4, <2>5, CalmStep DEF JobKept, Calm
<1> QED BY <1>1, <1>2, <1>3, <1>4, <1>5, <1>6, <1>7, <1>8 DEF Stop

LEMMA DeleteIsHandlerStep ==
    ASSUME LifeInv, NEW t \in Tasks, Delete(t)
    PROVE  HandlerStep(t)
<1> USE DEF Outside, Ends, UnderLock, Settling, Stopping, Deleting, Waits
<1>0. pc[t] \in UnderLock => lock = t BY OwnFacts
<1>1. CASE DeleteLock(t) BY <1>1, LockForIsHandlerStep
<1>2. CASE DeleteRead(t)
  <2>1. CASE /\ Managed
             /\ expected' = [expected EXCEPT ![t] = sandbox]
             /\ Goto(t, "delete_stop")
             /\ UNCHANGED lock
    <3>1. sandbox # Foreign /\ sandbox \in Tasks BY <2>1, LifecycleAssumption DEF Managed
    <3> QED BY <1>0, <1>2, <2>1, <3>1, LockedStep DEF DeleteRead, LockMoves, JobKept
  <2>2. CASE (Return(t, "ok") \/ Return(t, "error")) /\ UNCHANGED expected
    BY <1>2, <2>2, ReturnMoves, CalmMove DEF DeleteRead, JobKept, Calm
  <2> QED BY <1>2, <2>1, <2>2 DEF DeleteRead
<1>3. CASE DeleteStop(t)
  <2>1. CASE Exists /\ Accept(t, "stop", "delete_stopped") /\ UNCHANGED lock
    BY <1>3, <2>1, AskStep DEF DeleteStop, Kinds
  <2>2. CASE Goto(t, "delete_ask") /\ UNCHANGED <<lock, job>>
    BY <1>0, <1>3, <2>2, LockedStep DEF DeleteStop, LockMoves, JobKept
  <2>3. CASE (Return(t, "ok") \/ Return(t, "error")) /\ UNCHANGED job
    BY <1>3, <2>3, ReturnMoves, CalmMove DEF DeleteStop, JobKept, Calm
  <2> QED BY <1>3, <2>1, <2>2, <2>3 DEF DeleteStop
<1>4. CASE AwaitDeleteStop(t)
  <2>0. pc[t] = "delete_stopped" /\ JobKept(t) BY <1>4, WaitedClears DEF AwaitDeleteStop
  <2>1. CASE Goto(t, "delete_ask") /\ UNCHANGED lock
    BY <1>0, <1>4, <2>0, <2>1, LockedStep DEF AwaitDeleteStop, LockMoves
  <2>2. CASE Return(t, "error")
    BY <1>4, <2>0, <2>2, ReturnMoves, CalmMove DEF AwaitDeleteStop, Calm
  <2> QED BY <1>4, <2>1, <2>2 DEF AwaitDeleteStop
<1>5. CASE DeleteInstance(t)
  <2>1. CASE Exists /\ Accept(t, "delete", "deleted") /\ UNCHANGED lock
    BY <1>5, <2>1, AskStep DEF DeleteInstance, Kinds
  <2>2. CASE (Return(t, "ok") \/ Return(t, "error")) /\ UNCHANGED job
    BY <1>5, <2>2, ReturnMoves, CalmMove DEF DeleteInstance, JobKept, Calm
  <2> QED BY <1>5, <2>1, <2>2 DEF DeleteInstance
<1>6. CASE AwaitDelete(t)
  <2>0. pc[t] = "deleted" /\ JobKept(t) BY <1>6, WaitedClears DEF AwaitDelete
  <2>1. CASE job[t].state = "ok" /\ Return(t, "ok") /\ gone' = gone \cup {expected[t]}
    <3>1. Goto(t, "ok") /\ LockMoves(t) BY <2>1, ReturnMoves
    <3>2. UNCHANGED <<sandbox, status, intent, late, rpc, expected, tries, halted>>
      BY <1>6 DEF AwaitDelete
    <3>3. /\ rpc' \in [Tasks -> AllRpcs]
          /\ expected' \in [Tasks -> Sandboxes] /\ tries' \in [Tasks -> 0..StartRetries]
      BY <3>2, OwnFacts
    <3> QED BY <2>0, <2>1, <3>1, <3>2, <3>3, CalmStep DEF Calm
  <2>2. CASE Return(t, "error") /\ UNCHANGED gone
    BY <1>6, <2>0, <2>2, ReturnMoves, CalmMove DEF AwaitDelete, Calm
  <2> QED BY <1>6, <2>1, <2>2 DEF AwaitDelete
<1> QED BY <1>1, <1>2, <1>3, <1>4, <1>5, <1>6 DEF Delete

(* An operation of a task ends, or is taken for failed. *)
LEMMA OutcomeOf ==
    ASSUME LifeInv, NEW t \in Tasks, job[t].state = "pending", NEW outcome \in Outcomes,
           job' = [job EXCEPT ![t].state = outcome]
    PROVE  /\ job' \in [Tasks -> Jobs \cup {NoJob}] /\ job'[t] \in Jobs
           /\ \A u \in Tasks : u # t => job'[u] = job[u]
           /\ job'[t].kind = job[t].kind /\ job'[t].id = job[t].id /\ job'[t].state = outcome
<1> DEFINE ended == [job[t] EXCEPT !.state = outcome]
<1>1. job[t] \in Jobs /\ job \in [Tasks -> Jobs \cup {NoJob}] BY OwnFacts
<1>2. ended \in Jobs /\ ended.kind = job[t].kind /\ ended.id = job[t].id /\ ended.state = outcome
  BY <1>1 DEF Jobs
<1>3. job' = [job EXCEPT ![t] = ended] OBVIOUS
<1> HIDE DEF ended
<1> QED BY <1>1, <1>2, <1>3

LEMMA CallIsHandlerStep ==
    ASSUME LifeInv, NEW t \in Tasks, NEW kind \in Rpcs, Call(t, kind)
    PROVE  HandlerStep(t)
<1> USE DEF Outside, Ends, Calm
<1>1. kind \in AllRpcs BY LifecycleAssumption
<1>2. rpc' \in [Tasks -> AllRpcs] BY <1>1, OwnFacts DEF Call
<1>3. PICK label \in {"create", "start_read", "stop_lock", "delete_lock"} : Goto(t, label)
  BY <1>1 DEF Call, AllRpcs
<1>4. /\ pc[t] = "idle"
      /\ UNCHANGED <<sandbox, status, intent, late, lock, job, expected, tries, halted, gone>>
  BY DEF Call
<1>5. expected' \in [Tasks -> Sandboxes] /\ tries' \in [Tasks -> 0..StartRetries] BY <1>4, OwnFacts
<1> QED BY <1>2, <1>3, <1>4, <1>5, CalmStep DEF LockMoves, JobKept

LEMMA GiveUpIsHandlerStep ==
    ASSUME LifeInv, NEW t \in Tasks, GiveUp(t)
    PROVE  HandlerStep(t)
<1>0. /\ pc[t] \in Waits /\ job[t].state = "pending" /\ late' = late \cup {job[t]}
      /\ UNCHANGED <<sandbox, status, intent, lock, pc, rpc, expected, tries, halted, gone>>
  BY DEF GiveUp
<1>1. /\ job' \in [Tasks -> Jobs \cup {NoJob}]
      /\ \A u \in Tasks : u # t => job'[u] = job[u]
      /\ job'[t].kind = job[t].kind /\ job'[t].id = job[t].id /\ job'[t].state = "failed"
  BY <1>0, OutcomeOf DEF GiveUp, Outcomes
<1>2. pc[t] \notin Outside BY <1>0 DEF Waits, Outside, Ends
<1>3. Typed BY <1>0, <1>1, OwnFacts DEF Typed
<1>4. OwnOnly(t) BY <1>0, <1>1 DEF OwnOnly
<1>5. sandbox # Foreign BY <1>2, OwnFacts
<1>6. pc[t] = "deleted" => job[t].kind = "delete" /\ (job[t].id = expected[t] \/ sandbox # expected[t])
  BY DEF LifeInv, DeletionIsOfExpected
<1>7. ~ Creating(job'[t]) BY <1>1 DEF Creating
<1> QED BY <1>0, <1>1, <1>3, <1>4, <1>5, <1>6, <1>7, OwnFacts DEF HandlerStep

LEMMA CancelIsHandlerStep ==
    ASSUME LifeInv, NEW t \in Tasks, Cancel(t)
    PROVE  HandlerStep(t)
<1>0. /\ pc[t] \notin {"idle"} \cup Ends
      /\ late' = IF job[t].state = "pending" THEN late \cup {job[t]} ELSE late
      /\ job' = [job EXCEPT ![t] = NoJob]
      /\ UNCHANGED <<sandbox, status, intent, rpc, expected, tries, halted, gone>>
  BY DEF Cancel
<1>1. Goto(t, "dropped") /\ LockMoves(t) BY ReturnMoves DEF Cancel
<1>2. "dropped" \in Calm /\ "dropped" \in Outside BY DEF Calm, Outside, Ends
<1>3. /\ pc' \in [Tasks -> Labels] /\ pc'[t] = "dropped"
      /\ \A u \in Tasks : u # t => pc'[u] = pc[u]
  BY <1>1, <1>2, GotoMoves, CalmLabels
<1>4. lock' \in Tasks \cup {NoTask} /\ \A u \in Tasks : u # t /\ lock = u => lock' = u
  BY <1>1, LockIsTyped
<1>5. /\ job' \in [Tasks -> Jobs \cup {NoJob}] /\ job'[t] = NoJob
      /\ \A u \in Tasks : u # t => job'[u] = job[u]
  BY <1>0, OwnFacts
<1>6. NoJob.kind = "none" /\ NoJob.id # Foreign /\ NoJob.state = "none" BY OwnFacts
<1>7. Typed BY <1>0, <1>3, <1>4, <1>5, OwnFacts DEF Typed
<1>8. OwnOnly(t) BY <1>0, <1>3, <1>4, <1>5, <1>6 DEF OwnOnly
<1>9. sandbox = Foreign => ~ intent /\ job[t] = NoJob BY OwnFacts
<1>10. ~ Creating(job'[t]) BY <1>5, <1>6 DEF Creating
<1> QED BY <1>0, <1>2, <1>3, <1>5, <1>6, <1>7, <1>8, <1>9, <1>10, CalmLabels DEF HandlerStep

-----------------------------------------------------------------------------
(* LXD.  What an operation that was asked for may do to the instance.      *)
LEMMA PerformFacts ==
    ASSUME LifeInv, NEW j \in Jobs, NEW outcome \in Outcomes, Perform(j.kind, j.id, outcome),
           j.id # Foreign,
           j.kind = "create" => j.id \in Tasks /\ ~ Spent(j.id),
           j.kind = "start" => <<j.id, TRUE>> \notin halted
    PROVE  /\ sandbox' \in Sandboxes /\ status' \in Statuses /\ intent' \in BOOLEAN
           /\ sandbox # Foreign => sandbox' # Foreign
           /\ \/ sandbox' = sandbox /\ intent' = intent
              \/ sandbox' = NoSandbox
              \/ sandbox' = j.id /\ j.kind = "create"
           /\ sandbox' \notin gone
           /\ <<sandbox', TRUE>> \in halted' /\ UNCHANGED halted =>
                 sandbox' = sandbox /\ intent' = intent /\ status' = "Stopped"
           /\ j.kind = "delete" /\ outcome = "ok" => sandbox = j.id /\ sandbox' = NoSandbox
<1>1. /\ sandbox \in Sandboxes /\ status \in Statuses /\ intent \in BOOLEAN
      /\ gone \subseteq Tasks /\ halted \subseteq Tasks \X BOOLEAN
      /\ sandbox \notin gone
      /\ <<sandbox, TRUE>> \in halted => status = "Stopped"
  BY DEF LifeInv, TypeOK, DeletedIsGone, MarkedStopStands
<1>2. NoSandbox \in Sandboxes /\ NoSandbox # Foreign /\ NoSandbox \notin Tasks /\ Foreign \notin Tasks
  BY LifecycleAssumption DEF Sandboxes
<1>3. j.kind = "create" => j.id \in Sandboxes /\ j.id \notin gone /\ <<j.id, TRUE>> \notin halted
  BY DEF LifeInv, IdsAreSpent, Sandboxes
<1>4. CASE outcome = "failed" /\ UNCHANGED lxd
  BY <1>1, <1>4 DEF lxd
<1>5. CASE /\ j.kind = "create" /\ outcome = "ok"
           /\ sandbox' = j.id /\ status' = "Stopped" /\ intent' = FALSE
  BY <1>1, <1>2, <1>3, <1>5 DEF Statuses
<1>6. CASE /\ j.kind = "start" /\ sandbox = j.id /\ outcome = "ok"
           /\ status' = "Running" /\ UNCHANGED <<sandbox, intent>>
  BY <1>1, <1>6 DEF Statuses
<1>7. CASE /\ j.kind \in {"shutdown", "stop"} /\ sandbox = j.id
           /\ status' = "Stopped" /\ UNCHANGED <<sandbox, intent>>
  BY <1>1, <1>7 DEF Statuses
<1>8. CASE /\ j.kind = "delete" /\ sandbox = j.id
           /\ sandbox' = NoSandbox /\ intent' = FALSE /\ UNCHANGED status
  BY <1>1, <1>2, <1>8
<1> QED BY <1>4, <1>5, <1>6, <1>7, <1>8 DEF Perform

(* A step of LXD, or of the instance itself. *)
LEMMA LxdStep ==
    ASSUME LifeInv, UNCHANGED <<lock, pc, rpc, expected, tries, halted, gone>>,
           sandbox' \in Sandboxes, status' \in Statuses, intent' \in BOOLEAN,
           sandbox = Foreign => UNCHANGED <<sandbox, intent>>,
           sandbox # Foreign => sandbox' # Foreign,
           sandbox' \notin gone,
           <<sandbox', TRUE>> \in halted => sandbox' = sandbox /\ intent' = intent /\ status' = "Stopped",
           sandbox' \in Tasks /\ sandbox' # sandbox =>
              \E id \in Tasks : id = sandbox' /\ ~ Spent(id) /\ Spent(id)',
           late' \subseteq late, job' \in [Tasks -> Jobs \cup {NoJob}],
           \A u \in Tasks :
              /\ job'[u].kind = job[u].kind /\ job'[u].id = job[u].id
              /\ job[u] = NoJob => job'[u] = NoJob
              /\ job'[u].state = "pending" => job[u].state = "pending"
              /\ job'[u].state = "ok" /\ job[u].state # "ok" /\ job[u].kind = "delete" =>
                    sandbox' = NoSandbox
    PROVE  LifeInv'
<1>1. \A id \in Tasks : Spent(id) => Spent(id)' BY DEF Spent, Creating
<1>2. TypeOK' BY DEF LifeInv, TypeOK
<1>3. LockIsHeld' /\ AttemptIsLeft' BY DEF LifeInv, LockIsHeld, AttemptIsLeft
<1>4. ForeignIsLeft' BY DEF LifeInv, ForeignIsLeft
<1>5. CreatedOnce' BY DEF LifeInv, CreatedOnce, Creating
<1>6. IdsAreSpent'
  <2>1. ASSUME sandbox' \in Tasks PROVE Spent(sandbox)'
    <3>1. PICK id \in Tasks : id = sandbox' /\ Spent(id)'
      BY <1>1, <2>1 DEF LifeInv, IdsAreSpent
    <3> QED BY <3>1 DEF Spent
  <2>2. \A id \in gone : Spent(id)' BY <1>1 DEF LifeInv, IdsAreSpent, TypeOK
  <2>3. ASSUME NEW h \in halted PROVE Spent(h[1])'
    <3>1. h[1] \in Tasks /\ Spent(h[1]) BY DEF LifeInv, TypeOK, IdsAreSpent
    <3> QED BY <1>1, <3>1
  <2>4. ASSUME NEW u \in Tasks, pc[u] \in Deleting
        PROVE  (expected[u] \in Tasks /\ Spent(expected[u]))'
    <3>1. PICK id \in Tasks : id = expected[u] /\ Spent(id) BY <2>4 DEF LifeInv, IdsAreSpent
    <3>2. Spent(id)' BY <1>1, <3>1
    <3> QED BY <3>1, <3>2 DEF Spent
  <2> QED BY <2>1, <2>2, <2>3, <2>4 DEF IdsAreSpent
<1>7. DeletionIsOfExpected'
  <2> SUFFICES ASSUME NEW u \in Tasks, pc[u] = "deleted"
               PROVE  /\ job'[u].kind = "delete"
                      /\ job'[u].id = expected[u] \/ sandbox' # expected[u]
                      /\ job'[u].state = "ok" => sandbox' # expected[u]
    BY DEF DeletionIsOfExpected
  <2>1. /\ job[u].kind = "delete"
        /\ job[u].id = expected[u] \/ sandbox # expected[u]
        /\ job[u].state = "ok" => sandbox # expected[u]
        /\ expected[u] \in Tasks /\ Spent(expected[u])
    BY DEF LifeInv, DeletionIsOfExpected, IdsAreSpent, Deleting
  <2>2. sandbox # expected[u] => sandbox' # expected[u] BY <2>1
  <2>3. NoSandbox # expected[u] BY <2>1, LifecycleAssumption
  <2> QED BY <2>1, <2>2, <2>3
<1>8. StopIsKept' BY DEF LifeInv, StopIsKept
<1>9. DeletedIsGone' /\ MarkedStopStands' BY DEF DeletedIsGone, MarkedStopStands
<1> QED BY <1>2, <1>3, <1>4, <1>5, <1>6, <1>7, <1>8, <1>9 DEF LifeInv

LEMMA JobEndsKeepsLifeInv ==
    ASSUME LifeInv, NEW t \in Tasks, JobEnds(t)
    PROVE  LifeInv'
<1>1. PICK outcome \in Outcomes :
         /\ Perform(job[t].kind, job[t].id, outcome)
         /\ job' = [job EXCEPT ![t].state = outcome]
  BY DEF JobEnds
<1>2. /\ job[t].state = "pending"
      /\ UNCHANGED <<late, lock, pc, rpc, expected, tries, halted, gone>>
  BY DEF JobEnds
<1>3. outcome # "pending" BY DEF Outcomes
<1>4. /\ job[t] \in Jobs /\ job[t] # NoJob /\ job[t].id # Foreign
      /\ job[t].kind = "start" => <<job[t].id, TRUE>> \notin halted
      /\ job[t].kind = "create" => job[t].id = t /\ pc[t] = "created"
      /\ sandbox # Foreign
  BY <1>2, OwnFacts
<1>5. /\ job' \in [Tasks -> Jobs \cup {NoJob}]
      /\ \A u \in Tasks : u # t => job'[u] = job[u]
      /\ job'[t].kind = job[t].kind /\ job'[t].id = job[t].id /\ job'[t].state = outcome
  BY <1>1, <1>2, OutcomeOf
<1>6. job[t].kind = "create" => ~ Spent(t) /\ Spent(t)'
  <2> SUFFICES ASSUME job[t].kind = "create" PROVE ~ Spent(t) /\ Spent(t)' OBVIOUS
  <2>1. Creating(job[t]) /\ ~ Creating(job'[t]) BY <1>2, <1>3, <1>5 DEF Creating
  <2>2. \A j \in late : j.kind = "create" => j.id # t BY <2>1 DEF LifeInv, CreatedOnce
  <2> QED BY <1>2, <1>4, <2>1, <2>2 DEF Spent, Creating
<1>7. /\ sandbox' \in Sandboxes /\ status' \in Statuses /\ intent' \in BOOLEAN
      /\ sandbox # Foreign => sandbox' # Foreign
      /\ \/ sandbox' = sandbox /\ intent' = intent
         \/ sandbox' = NoSandbox
         \/ sandbox' = job[t].id /\ job[t].kind = "create"
      /\ sandbox' \notin gone
      /\ <<sandbox', TRUE>> \in halted' /\ UNCHANGED halted =>
            sandbox' = sandbox /\ intent' = intent /\ status' = "Stopped"
      /\ job[t].kind = "delete" /\ outcome = "ok" => sandbox = job[t].id /\ sandbox' = NoSandbox
  BY <1>1, <1>4, <1>6, PerformFacts
<1>8. sandbox' \in Tasks /\ sandbox' # sandbox => \E id \in Tasks : id = sandbox' /\ ~ Spent(id) /\ Spent(id)'
  BY <1>4, <1>6, <1>7, LifecycleAssumption
<1> QED BY <1>2, <1>3, <1>4, <1>5, <1>7, <1>8, LxdStep

LEMMA LateJobEndsKeepsLifeInv ==
    ASSUME LifeInv, NEW j \in late, LateJobEnds(j)
    PROVE  LifeInv'
<1>1. PICK outcome \in Outcomes : Perform(j.kind, j.id, outcome) BY DEF LateJobEnds
<1>2. late' = late \ {j} /\ UNCHANGED <<lock, pc, rpc, job, expected, tries, halted, gone>>
  BY DEF LateJobEnds
<1>3. /\ j \in Jobs /\ j.id # Foreign /\ j.state = "pending" /\ sandbox # Foreign
      /\ j.kind = "start" => <<j.id, TRUE>> \notin halted
      /\ j.kind = "create" =>
            j.id \in Tasks /\ pc[j.id] \notin {"idle", "create"} /\ ~ Creating(job[j.id])
  BY DEF LifeInv, TypeOK, ForeignIsLeft, CreatedOnce, StopIsKept
<1>4. ASSUME j.kind = "create" PROVE ~ Spent(j.id) /\ Spent(j.id)'
  <2>1. ASSUME NEW k \in late, k.kind = "create", k.id = j.id PROVE k = j
    BY <1>3, <1>4, <2>1 DEF LifeInv, TypeOK, CreatedOnce, Jobs
  <2> QED BY <1>2, <1>3, <1>4, <2>1 DEF Spent, Creating
<1>5. /\ sandbox' \in Sandboxes /\ status' \in Statuses /\ intent' \in BOOLEAN
      /\ sandbox # Foreign => sandbox' # Foreign
      /\ \/ sandbox' = sandbox /\ intent' = intent
         \/ sandbox' = NoSandbox
         \/ sandbox' = j.id /\ j.kind = "create"
      /\ sandbox' \notin gone
      /\ <<sandbox', TRUE>> \in halted' /\ UNCHANGED halted =>
            sandbox' = sandbox /\ intent' = intent /\ status' = "Stopped"
  BY <1>1, <1>3, <1>4, PerformFacts
<1>6. sandbox' \in Tasks /\ sandbox' # sandbox => \E id \in Tasks : id = sandbox' /\ ~ Spent(id) /\ Spent(id)'
  BY <1>3, <1>4, <1>5, LifecycleAssumption
<1>7. job \in [Tasks -> Jobs \cup {NoJob}] BY DEF LifeInv, TypeOK
<1> QED BY <1>2, <1>3, <1>5, <1>6, <1>7, LxdStep

LEMMA InstanceStepKeepsLifeInv ==
    ASSUME LifeInv, InitExits \/ Freeze
    PROVE  LifeInv'
<1>1. /\ UNCHANGED <<sandbox, intent, late, lock, pc, rpc, job, expected, tries, halted, gone>>
      /\ status' \in Statuses
      /\ status # "Stopped"
  BY DEF InitExits, Freeze, Statuses
<1>2. /\ sandbox \in Sandboxes /\ intent \in BOOLEAN /\ job \in [Tasks -> Jobs \cup {NoJob}]
      /\ sandbox \notin gone /\ <<sandbox, TRUE>> \notin halted
  BY <1>1 DEF LifeInv, TypeOK, DeletedIsGone, MarkedStopStands
<1> QED BY <1>1, <1>2, LxdStep

LEMMA NextKeepsLifeInv == LifeInv /\ [Next]_vars => LifeInv'
<1> SUFFICES ASSUME LifeInv, [Next]_vars PROVE LifeInv' OBVIOUS
<1>1. ASSUME NEW t \in Tasks, NEW kind \in Rpcs, Call(t, kind) PROVE LifeInv'
  BY <1>1, CallIsHandlerStep, HandlerStepKeepsLifeInv
<1>2. ASSUME NEW t \in Tasks, Handler(t) PROVE LifeInv'
  BY <1>2, CreateIsHandlerStep, StartIsHandlerStep, SettleIsHandlerStep, StopIsHandlerStep,
     DeleteIsHandlerStep, HandlerStepKeepsLifeInv
     DEF Handler
<1>3. ASSUME NEW t \in Tasks, GiveUp(t) \/ Cancel(t) PROVE LifeInv'
  BY <1>3, GiveUpIsHandlerStep, CancelIsHandlerStep, HandlerStepKeepsLifeInv
<1>4. ASSUME NEW t \in Tasks, JobEnds(t) PROVE LifeInv' BY <1>4, JobEndsKeepsLifeInv
<1>5. ASSUME NEW j \in late, LateJobEnds(j) PROVE LifeInv' BY <1>5, LateJobEndsKeepsLifeInv
<1>6. CASE InitExits \/ Freeze BY <1>6, InstanceStepKeepsLifeInv
<1>7. CASE UNCHANGED vars
  BY <1>7 DEF vars, LifeInv, TypeOK, LockIsHeld, AttemptIsLeft, ForeignIsLeft, CreatedOnce, IdsAreSpent,
      DeletionIsOfExpected, StopIsKept, DeletedIsGone, MarkedStopStands, Spent, Creating
<1> QED BY <1>1, <1>2, <1>3, <1>4, <1>5, <1>6, <1>7 DEF Next

(* The inductive invariant holds throughout. *)
THEOREM LifeInvHolds == Spec => []LifeInv
BY InitEstablishesLifeInv, NextKeepsLifeInv, PTL DEF Spec

(* The state stays well-typed: only sandboxes of the driver are reported   *)
(* deleted or stopped, and settle_after_start's attempts stay in range.    *)
THEOREM LifecycleTyped == Spec => []TypeOK
<1>1. LifeInv => TypeOK BY DEF LifeInv
<1> QED BY <1>1, LifeInvHolds, PTL

(* Between an acknowledged, marked StopSandbox and the next explicit start *)
(* nothing starts the sandbox: no settling start, on time or late.         *)
THEOREM MarkedStopHolds == Spec => []MarkedStopStands
<1>1. LifeInv => MarkedStopStands BY DEF LifeInv
<1> QED BY <1>1, LifeInvHolds, PTL

(* A sandbox whose deletion DeleteSandbox has reported never exists again, *)
(* also where an unlocked clean-up or a late creation took the name.       *)
THEOREM DeletionIsFinal == Spec => []DeletedIsGone
<1>1. LifeInv => DeletedIsGone BY DEF LifeInv
<1> QED BY <1>1, LifeInvHolds, PTL

(* The handlers ask LXD for nothing on an instance that is not theirs and  *)
(* had the name first.                                                     *)
THEOREM ForeignIsUntouched == Spec => []ForeignUntouched
<1>1. LifeInv => ForeignUntouched BY DEF LifeInv, ForeignIsLeft, ForeignUntouched
<1> QED BY <1>1, LifeInvHolds, PTL

-----------------------------------------------------------------------------
(* Whose marker it is *)

StopLabels == Stopping \cup {"stop_lock", "stop_read"}

(* A handler is at stop_sandbox's labels if it serves a StopSandbox. *)
StopIsServed ==
    \A t \in Tasks :
        /\ pc[t] \in StopLabels => rpc[t] = "stop"
        /\ rpc[t] = "stop" => pc[t] \in StopLabels \cup {"idle"} \cup Ends

(* The inductive invariant, on top of LifeInv. *)
MarkerInv == StopIsServed /\ (intent => Exists) /\ MarkerHasAuthor

(* Labels of the other handlers. *)
Elsewhere == Labels \ (StopLabels \cup {"idle"})

LEMMA OtherHandlersGoElsewhere ==
    ASSUME LifeInv, NEW t \in Tasks, Create(t) \/ Start(t) \/ Settle(t) \/ Delete(t)
    PROVE  /\ pc[t] \in Elsewhere \ Ends
           /\ \E label \in Elsewhere : Goto(t, label)
           /\ UNCHANGED rpc
           /\ UNCHANGED intent \/ intent' = FALSE
<1> USE DEF Elsewhere, StopLabels, Stopping, Ends, Labels, Waits
<1>1. CASE Create(t)
  <2>1. CASE CreateInstance(t) BY <2>1 DEF CreateInstance, Accept, Return
  <2>2. CASE AwaitCreate(t) BY <2>2 DEF AwaitCreate, Waited, Return
  <2>3. CASE PushCreate(t) BY <2>3 DEF PushCreate
  <2>4. CASE CleanupStop(t) BY <2>4 DEF CleanupStop, Accept
  <2>5. CASE AwaitCleanupStop(t) BY <2>5 DEF AwaitCleanupStop, Waited
  <2>6. CASE CleanupDelete(t) BY <2>6 DEF CleanupDelete, Accept, Return
  <2>7. CASE AwaitCleanupDelete(t) BY <2>7 DEF AwaitCleanupDelete, Waited, Return
  <2> QED BY <1>1, <2>1, <2>2, <2>3, <2>4, <2>5, <2>6, <2>7 DEF Create
<1>2. CASE Start(t)
  <2>1. CASE StartRead(t) BY <2>1 DEF StartRead, Return
  <2>2. CASE StartPush(t) BY <2>2 DEF StartPush, Return
  <2>3. CASE StartClear(t) BY <2>3 DEF StartClear, Patch, Return, lxd
  <2>4. CASE StartInstance(t) BY <2>4 DEF StartInstance, Accept, StartFails
  <2>5. CASE AwaitStart(t) BY <2>5 DEF AwaitStart, Waited, StartFails
  <2> QED BY <1>2, <2>1, <2>2, <2>3, <2>4, <2>5 DEF Start
<1>3. CASE Settle(t)
  <2>1. CASE SettleLock(t) BY <2>1 DEF SettleLock, LockFor
  <2>2. CASE SettleRead(t) BY <2>2 DEF SettleRead, Return, StartFails
  <2>3. CASE SettleStart(t) BY <2>3 DEF SettleStart, Accept, StartFails
  <2>4. CASE AwaitRestart(t) BY <2>4 DEF AwaitRestart, Waited, Return, StartFails
  <2> QED BY <1>3, <2>1, <2>2, <2>3, <2>4 DEF Settle
<1>4. CASE Delete(t)
  <2>1. CASE DeleteLock(t) BY <2>1 DEF DeleteLock, LockFor
  <2>2. CASE DeleteRead(t) BY <2>2 DEF DeleteRead, Return
  <2>3. CASE DeleteStop(t) BY <2>3 DEF DeleteStop, Accept, Return
  <2>4. CASE AwaitDeleteStop(t) BY <2>4 DEF AwaitDeleteStop, Waited, Return
  <2>5. CASE DeleteInstance(t) BY <2>5 DEF DeleteInstance, Accept, Return
  <2>6. CASE AwaitDelete(t) BY <2>6 DEF AwaitDelete, Waited, Return
  <2> QED BY <1>4, <2>1, <2>2, <2>3, <2>4, <2>5, <2>6 DEF Delete
<1> QED BY <1>1, <1>2, <1>3, <1>4

(* Labels at which a StopSandbox may have set the marker. *)
Marking == Stopping \ {"stop_mark"}

(* A step of stop_sandbox: once it may have set the marker, it answers     *)
(* "ok" or takes the marker back.                                          *)
LEMMA StopGoesOn ==
    ASSUME LifeInv, MarkerInv, PatchFails = FALSE, NEW t \in Tasks, Stop(t)
    PROVE  /\ pc[t] \in StopLabels /\ UNCHANGED rpc
           /\ \E label \in StopLabels \cup {"ok", "error"} :
                 /\ Goto(t, label)
                 /\ \/ intent' = FALSE
                    \/ UNCHANGED intent /\ (pc[t] \in Marking => label \in Marking \cup {"ok"})
                    \/ label = "shut_down_ask" /\ intent' = TRUE /\ Exists
<1> USE DEF StopLabels, Stopping, Marking
<1>1. CASE StopLock(t) BY <1>1 DEF StopLock, LockFor
<1>2. CASE StopRead(t) BY <1>2 DEF StopRead, Acknowledge, Return
<1>3. CASE StopMark(t) BY <1>3 DEF StopMark, Patch, lxd
<1>4. CASE AskShutDown(t) BY <1>4 DEF AskShutDown, Accept, Acknowledge, Return
<1>5. CASE AwaitShutDown(t) BY <1>5 DEF AwaitShutDown, Waited, Acknowledge, Return
<1>6. CASE ForceStop(t) BY <1>6 DEF ForceStop, Accept, Acknowledge, Return
<1>7. CASE AwaitForceStop(t) BY <1>7 DEF AwaitForceStop, Waited, Acknowledge, Return
<1>8. CASE StopUnmark(t)
  <2>1. intent \in BOOLEAN BY OwnFacts
  <2>2. intent' = FALSE BY <1>8, <2>1 DEF StopUnmark, Patch, lxd, MarkerInv
  <2> QED BY <1>8, <2>2 DEF StopUnmark, Return
<1> QED BY <1>1, <1>2, <1>3, <1>4, <1>5, <1>6, <1>7, <1>8 DEF Stop

(* A task whose StopSandbox may have set the marker. *)
Author(t) ==
    rpc[t] = "stop" /\ pc[t] \notin {"idle", "stop_lock", "stop_read", "stop_mark", "error"}

(* The invariant survives a step that moves one task, unless that task is  *)
(* the author and the marker stays without it.                             *)
LEMMA MarkerStep ==
    ASSUME MarkerInv, NEW t \in Tasks, UNCHANGED sandbox,
           \A u \in Tasks : u # t => pc'[u] = pc[u] /\ rpc'[u] = rpc[u],
           pc'[t] \in StopLabels => rpc'[t] = "stop",
           rpc'[t] = "stop" => pc'[t] \in StopLabels \cup {"idle"} \cup Ends,
           \/ intent' = FALSE
           \/ UNCHANGED intent /\ (Author(t) => Author(t)')
           \/ Exists /\ Author(t)'
    PROVE  MarkerInv'
<1>1. StopIsServed' BY DEF MarkerInv, StopIsServed
<1>2. (intent => Exists)' BY DEF MarkerInv, Exists
<1>3. MarkerHasAuthor'
  <2>1. CASE UNCHANGED intent /\ (Author(t) => Author(t)')
    <3>1. intent => \E u \in Tasks : Author(u) BY DEF MarkerInv, MarkerHasAuthor, Author
    <3>2. ASSUME NEW u \in Tasks, Author(u) PROVE Author(u)'
      <4>1. CASE u = t BY <2>1, <3>2, <4>1
      <4>2. CASE u # t BY <3>2, <4>2 DEF Author
      <4> QED BY <4>1, <4>2
    <3> QED BY <2>1, <3>1, <3>2 DEF MarkerHasAuthor, Author
  <2>2. CASE intent' = FALSE BY <2>2 DEF MarkerHasAuthor
  <2>3. CASE Author(t)' BY <2>3 DEF MarkerHasAuthor, Author
  <2> QED BY <2>1, <2>2, <2>3
<1> QED BY <1>1, <1>2, <1>3 DEF MarkerInv

(* A step of LXD, or of the instance itself, marks nothing. *)
LEMMA LxdMarksNothing ==
    ASSUME MarkerInv, UNCHANGED <<pc, rpc>>,
           intent' = FALSE \/ UNCHANGED <<sandbox, intent>>
    PROVE  MarkerInv'
BY DEF MarkerInv, StopIsServed, Exists, MarkerHasAuthor

LEMMA NextKeepsMarkerInv ==
    ASSUME PatchFails = FALSE
    PROVE  LifeInv /\ MarkerInv /\ [Next]_vars => MarkerInv'
<1> SUFFICES ASSUME LifeInv, MarkerInv, [Next]_vars PROVE MarkerInv' OBVIOUS
<1>0. /\ pc \in [Tasks -> Labels] /\ rpc \in [Tasks -> AllRpcs]
      /\ \A t \in Tasks : pc[t] \in StopLabels => rpc[t] = "stop"
      /\ \A t \in Tasks : rpc[t] = "stop" => pc[t] \in StopLabels \cup {"idle"} \cup Ends
  BY DEF LifeInv, TypeOK, MarkerInv, StopIsServed
<1>1. ASSUME NEW t \in Tasks, Create(t) \/ Start(t) \/ Settle(t) \/ Delete(t) PROVE MarkerInv'
  <2>1. PICK label \in Elsewhere :
           /\ Goto(t, label) /\ pc[t] \in Elsewhere \ Ends /\ UNCHANGED rpc
           /\ UNCHANGED intent \/ intent' = FALSE
    BY <1>1, OtherHandlersGoElsewhere
  <2>2. pc'[t] = label /\ \A u \in Tasks : u # t => pc'[u] = pc[u] BY <1>0, <2>1 DEF Goto
  <2>3. label \notin StopLabels /\ rpc[t] # "stop" BY <1>0, <2>1 DEF Elsewhere
  <2>4. UNCHANGED sandbox
    BY <1>1, CreateIsHandlerStep, StartIsHandlerStep, SettleIsHandlerStep, DeleteIsHandlerStep
       DEF HandlerStep, OwnOnly
  <2>5. ~ Author(t) BY <2>3 DEF Author
  <2> QED BY <2>1, <2>2, <2>3, <2>4, <2>5, MarkerStep
<1>2. ASSUME NEW t \in Tasks, Stop(t) PROVE MarkerInv'
  <2>1. pc[t] \in StopLabels /\ UNCHANGED rpc BY <1>2, StopGoesOn
  <2>2. PICK label \in StopLabels \cup {"ok", "error"} :
           /\ Goto(t, label)
           /\ \/ intent' = FALSE
              \/ UNCHANGED intent /\ (pc[t] \in Marking => label \in Marking \cup {"ok"})
              \/ label = "shut_down_ask" /\ intent' = TRUE /\ Exists
    BY <1>2, StopGoesOn
  <2>3. pc'[t] = label /\ \A u \in Tasks : u # t => pc'[u] = pc[u] BY <1>0, <2>2 DEF Goto
  <2>4. rpc[t] = "stop" BY <1>0, <2>1
  <2>5. UNCHANGED sandbox BY <1>2, StopIsHandlerStep DEF HandlerStep, OwnOnly
  <2>6. Author(t) => pc[t] \in Marking BY <2>1 DEF Author, StopLabels, Marking
  <2>7. label \in Marking \cup {"ok"} => Author(t)'
    BY <2>1, <2>3, <2>4 DEF Author, Marking, Stopping
  <2>8. "shut_down_ask" \in Marking BY DEF Marking, Stopping
  <2>9. label \in StopLabels \cup {"idle"} \cup Ends BY <2>2 DEF Ends
  <2> QED BY <2>1, <2>2, <2>3, <2>4, <2>5, <2>6, <2>7, <2>8, <2>9, MarkerStep
<1>3. ASSUME NEW t \in Tasks, NEW kind \in Rpcs, Call(t, kind) PROVE MarkerInv'
  <2>1. kind \in AllRpcs BY LifecycleAssumption
  <2>2. /\ pc[t] = "idle" /\ UNCHANGED <<sandbox, intent>>
        /\ rpc'[t] = kind /\ \A u \in Tasks : u # t => pc'[u] = pc[u] /\ rpc'[u] = rpc[u]
        /\ pc'[t] = CASE kind = "create" -> "create"
                      [] kind = "start" -> "start_read"
                      [] kind = "stop" -> "stop_lock"
                      [] kind = "delete" -> "delete_lock"
    BY <1>0, <1>3 DEF Call, Goto
  <2>3. pc'[t] \in StopLabels <=> kind = "stop"
    BY <2>1, <2>2 DEF AllRpcs, StopLabels, Stopping
  <2>4. ~ Author(t) BY <2>2 DEF Author
  <2> QED BY <2>2, <2>3, <2>4, MarkerStep
<1>4. ASSUME NEW t \in Tasks, Cancel(t) PROVE MarkerInv'
  <2>1. /\ UNCHANGED <<sandbox, intent, rpc>> /\ pc[t] # "idle"
        /\ pc'[t] = "dropped" /\ \A u \in Tasks : u # t => pc'[u] = pc[u]
    BY <1>0, <1>4 DEF Cancel, Return, Goto
  <2>2. "dropped" \notin StopLabels /\ "dropped" \in Ends BY DEF StopLabels, Stopping, Ends
  <2>3. Author(t) => Author(t)' BY <2>1 DEF Author
  <2> QED BY <2>1, <2>2, <2>3, MarkerStep
<1>5. ASSUME NEW t \in Tasks, GiveUp(t) PROVE MarkerInv'
  BY <1>5, LxdMarksNothing DEF GiveUp
<1>6. ASSUME NEW kind, NEW id, NEW outcome, Perform(kind, id, outcome)
      PROVE  intent' = FALSE \/ UNCHANGED <<sandbox, intent>>
  BY <1>6 DEF Perform, lxd
<1>7. ASSUME NEW t \in Tasks, JobEnds(t) PROVE MarkerInv'
  BY <1>6, <1>7, LxdMarksNothing DEF JobEnds
<1>8. ASSUME NEW j \in late, LateJobEnds(j) PROVE MarkerInv'
  BY <1>6, <1>8, LxdMarksNothing DEF LateJobEnds
<1>9. CASE InitExits \/ Freeze BY <1>9, LxdMarksNothing DEF InitExits, Freeze
<1>10. CASE UNCHANGED vars BY <1>10, LxdMarksNothing DEF vars
<1> QED BY <1>1, <1>2, <1>3, <1>4, <1>5, <1>7, <1>8, <1>9, <1>10 DEF Next, Handler

(* No stop marker is left by a StopSandbox that failed: if LXD accepts the *)
(* patches of an instance that exists, clear_stop_intent takes it back.    *)
THEOREM MarkersAreAuthored ==
    ASSUME PatchFails = FALSE
    PROVE  Spec => []MarkerHasAuthor
<1>1. Init => MarkerInv
  BY DEF Init, MarkerInv, StopIsServed, MarkerHasAuthor, StopLabels, Stopping
<1>2. LifeInv /\ MarkerInv /\ [Next]_vars => MarkerInv' BY NextKeepsMarkerInv
<1>3. MarkerInv => MarkerHasAuthor BY DEF MarkerInv
<1> QED BY <1>1, <1>2, <1>3, LifeInvHolds, PTL DEF Spec

=============================================================================
