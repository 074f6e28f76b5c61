-------------------------- MODULE SandboxLifecycle --------------------------
(***************************************************************************)
(* CreateSandbox, StartSandbox, StopSandbox and DeleteSandbox of           *)
(* LxdComputeDriver racing on one instance name, against an LXD that runs  *)
(* its operations in the background.                                       *)
(*                                                                         *)
(* A task is one RPC: the handler's steps are the stretches between two    *)
(* awaits that can matter to another task.  Operations on other names do   *)
(* not interact (LifecycleLocks), so one name is enough; the sandbox id    *)
(* that CreateSandbox is given is unique to the call, so the creating task *)
(* stands for it.  The lifecycle lock is a mutex, which LifecycleLocks     *)
(* implements.                                                             *)
(*                                                                         *)
(* Left out: what a sandbox is made of (its image, volumes and devices),   *)
(* which create_sandbox settles before the instance exists, and the other  *)
(* LXD statuses than Stopped, Running and Frozen.                          *)
(***************************************************************************)
EXTENDS Naturals, FiniteSets

CONSTANTS
    Tasks,         \* the RPCs that may be made
    Rpcs,          \* their kinds, a subset of AllRpcs
    StartRetries,  \* Config::start_retries
    PatchFails,    \* may LXD refuse a config patch?
    NoTask,        \* the holder of a free lock
    NoSandbox,     \* no instance has the name
    Foreign        \* an instance the driver does not manage has it

AllRpcs == {"create", "start", "stop", "delete"}

ASSUME LifecycleAssumption ==
    /\ Rpcs \subseteq AllRpcs
    /\ StartRetries \in Nat
    /\ PatchFails \in BOOLEAN
    /\ NoTask \notin Tasks /\ NoSandbox \notin Tasks /\ Foreign \notin Tasks
    /\ NoSandbox # Foreign

Sandboxes == Tasks \cup {NoSandbox, Foreign}
Statuses == {"Stopped", "Running", "Frozen"}

(* Background operations of LXD.  "shutdown" is the graceful stop. *)
Kinds == {"create", "start", "shutdown", "stop", "delete"}
Outcomes == {"ok", "already", "failed"}
Jobs == [kind : Kinds, id : Sandboxes, state : {"pending"} \cup Outcomes]
NoJob == [kind |-> "none", id |-> NoSandbox, state |-> "none"]

(* Where a handler is.  A label in Waits stands at a wait_operation, one    *)
(* in Ends says how the RPC was answered.                                  *)
Waits == {"created", "started", "cleanup_stopped", "cleanup_deleted",
          "shut_down", "stopped", "delete_stopped", "deleted", "restarted"}
Ends == {"ok", "error", "dropped"}
Labels == {"idle", "create", "push", "start", "cleanup_stop", "cleanup_delete",
           "start_read", "start_push", "start_clear",
           "settle_lock", "settle_read", "settle_start",
           "stop_lock", "stop_read", "stop_mark", "shut_down_ask", "stop_force", "stop_unmark",
           "delete_lock", "delete_read", "delete_stop", "delete_ask"} \cup Waits \cup Ends

VARIABLES
    sandbox,   \* the id of the instance that has the name
    status,    \* its LXD status
    intent,    \* whether it carries the stop marker, KEY_STOP_INTENT
    late,      \* background operations whose caller no longer waits
    lock,      \* the holder of the name's lifecycle lock
    pc,        \* task -> label
    rpc,       \* task -> the RPC it serves
    job,       \* task -> the operation it asked LXD for last
    expected,  \* task -> the id its handler read (or created)
    tries,     \* task -> settle attempts left
    halted,    \* history: <<id, marked>>, stops acknowledged and not revoked since
    gone       \* history: ids reported deleted to the gateway

lxd == <<sandbox, status, intent>>
vars == <<sandbox, status, intent, late, lock, pc, rpc, job, expected, tries, halted, gone>>

TypeOK ==
    /\ sandbox \in Sandboxes
    /\ status \in Statuses
    /\ intent \in BOOLEAN
    /\ late \in SUBSET Jobs
    /\ lock \in Tasks \cup {NoTask}
    /\ pc \in [Tasks -> Labels]
    /\ rpc \in [Tasks -> AllRpcs]
    /\ job \in [Tasks -> Jobs \cup {NoJob}]
    /\ expected \in [Tasks -> Sandboxes]
    /\ tries \in [Tasks -> 0..StartRetries]
    /\ halted \in SUBSET (Tasks \X BOOLEAN)
    /\ gone \in SUBSET Tasks

(* The name is free, or belongs to an instance somebody else made. *)
Init ==
    /\ sandbox \in {NoSandbox, Foreign}
    /\ status \in {"Stopped", "Running"}
    /\ sandbox = NoSandbox => status = "Stopped"
    /\ intent = FALSE
    /\ late = {}
    /\ lock = NoTask
    /\ pc = [t \in Tasks |-> "idle"]
    /\ rpc = [t \in Tasks |-> "create"]
    /\ job = [t \in Tasks |-> NoJob]
    /\ expected = [t \in Tasks |-> NoSandbox]
    /\ tries = [t \in Tasks |-> 0]
    /\ halted = {}
    /\ gone = {}

Exists == sandbox # NoSandbox
Managed == sandbox \in Tasks

-----------------------------------------------------------------------------
(* LXD *)

(* One background operation, of the given kind on the instance id, ends    *)
(* with the given outcome.  Any operation may fail; a graceful shutdown    *)
(* fails when the init does not act on it in time.                         *)
Perform(kind, id, outcome) ==
    \/ /\ outcome = "failed"
       /\ UNCHANGED lxd
    \/ /\ kind = "create" /\ ~ Exists /\ outcome = "ok"
       /\ sandbox' = id /\ status' = "Stopped" /\ intent' = FALSE
    \/ /\ kind = "start" /\ sandbox = id /\ status = "Stopped" /\ outcome = "ok"
       /\ status' = "Running"
       /\ UNCHANGED <<sandbox, intent>>
    \/ /\ kind \in {"shutdown", "stop"} /\ sandbox = id
       /\ outcome = IF status = "Stopped" THEN "already" ELSE "ok"
       /\ status' = "Stopped"
       /\ UNCHANGED <<sandbox, intent>>
    \/ /\ kind = "delete" /\ sandbox = id /\ status = "Stopped" /\ outcome = "ok"
       /\ sandbox' = NoSandbox /\ intent' = FALSE
       /\ UNCHANGED status

(* An operation somebody waits for ends. *)
JobEnds(t) ==
    /\ job[t].state = "pending"
    /\ \E outcome \in Outcomes :
          /\ Perform(job[t].kind, job[t].id, outcome)
          /\ job' = [job EXCEPT ![t].state = outcome]
    /\ UNCHANGED <<late, lock, pc, rpc, expected, tries, halted, gone>>

(* An operation nobody waits for ends. *)
LateJobEnds(j) ==
    /\ late' = late \ {j}
    /\ \E outcome \in Outcomes : Perform(j.kind, j.id, outcome)
    /\ UNCHANGED <<lock, pc, rpc, job, expected, tries, halted, gone>>

(* The init exits by itself. *)
InitExits ==
    /\ Exists /\ status = "Running"
    /\ status' = "Stopped"
    /\ UNCHANGED <<sandbox, intent, late, lock, pc, rpc, job, expected, tries, halted, gone>>

(* Somebody freezes or thaws the instance with LXD's own tools. *)
Freeze ==
    /\ Exists
    /\ \/ status = "Running" /\ status' = "Frozen"
       \/ status = "Frozen" /\ status' = "Running"
    /\ UNCHANGED <<sandbox, intent, late, lock, pc, rpc, job, expected, tries, halted, gone>>

-----------------------------------------------------------------------------
(* Steps that handlers share *)

Goto(t, label) == pc' = [pc EXCEPT ![t] = label]

(* The handler answers; the guard it may hold is dropped. *)
Return(t, answer) ==
    /\ Goto(t, answer)
    /\ lock' = IF lock = t THEN NoTask ELSE lock

(* LXD accepts a request and starts working on it. *)
Accept(t, kind, label) ==
    /\ job' = [job EXCEPT ![t] =
                  [kind |-> kind,
                   id |-> IF kind = "create" THEN t ELSE sandbox,
                   state |-> "pending"]]
    /\ Goto(t, label)

(* wait_operation returns: the operation ended, or the wait timed out. *)
Waited(t, label) ==
    /\ pc[t] = label
    /\ job[t].state \in Outcomes
    /\ job' = [job EXCEPT ![t] = NoJob]

(* An explicit start of the sandbox that has the name revokes its stop. *)
Revoke == halted' = {h \in halted : h[1] # sandbox}

(* patch_instance_config: sets or removes the stop marker, or is refused.  *)
Patch(marker, ok) ==
    IF ok THEN Exists /\ intent' = marker /\ UNCHANGED <<sandbox, status>>
          ELSE (~ Exists \/ PatchFails) /\ UNCHANGED lxd

(* Mutant: the restart that settles a start is awaited without a timeout. *)
GiveUpUnlessSettling(t) ==
    /\ pc[t] \in Waits \ {"restarted"}
    /\ job[t].state = "pending"
    /\ late' = late \cup {job[t]}
    /\ job' = [job EXCEPT ![t].state = "failed"]
    /\ UNCHANGED <<sandbox, status, intent, lock, pc, rpc, expected, tries, halted, gone>>

(* tokio::time::timeout around wait_operation: the handler goes on as      *)
(* after a failure, the operation itself does not stop.                    *)
GiveUp(t) ==
    /\ pc[t] \in Waits
    /\ job[t].state = "pending"
    /\ late' = late \cup {job[t]}
    /\ job' = [job EXCEPT ![t].state = "failed"]
    /\ UNCHANGED <<sandbox, status, intent, lock, pc, rpc, expected, tries, halted, gone>>

(* The caller goes away and the RPC framework drops the handler's future   *)
(* at whatever await it stands, releasing its guard.                       *)
Cancel(t) ==
    /\ pc[t] \notin {"idle"} \cup Ends
    /\ Return(t, "dropped")
    /\ late' = IF job[t].state = "pending" THEN late \cup {job[t]} ELSE late
    /\ job' = [job EXCEPT ![t] = NoJob]
    /\ UNCHANGED <<sandbox, status, intent, rpc, expected, tries, halted, gone>>

(* An RPC arrives. *)
Call(t, kind) ==
    /\ pc[t] = "idle"
    /\ kind \in Rpcs
    /\ rpc' = [rpc EXCEPT ![t] = kind]
    /\ Goto(t, CASE kind = "create" -> "create"
                 [] kind = "start" -> "start_read"
                 [] kind = "stop" -> "stop_lock"
                 [] kind = "delete" -> "delete_lock")
    /\ UNCHANGED <<sandbox, status, intent, late, lock, job, expected, tries, halted, gone>>

LockFor(t, from, to) ==
    /\ pc[t] = from
    /\ lock = NoTask
    /\ lock' = t
    /\ Goto(t, to)
    /\ UNCHANGED <<sandbox, status, intent, late, rpc, job, expected, tries, halted, gone>>

-----------------------------------------------------------------------------
(* create_sandbox, from create_instance on *)

CreateInstance(t) ==
    /\ pc[t] = "create"
    /\ \/ ~ Exists /\ Accept(t, "create", "created") /\ UNCHANGED lock
       \/ Return(t, "error") /\ UNCHANGED job  \* the name is taken, or any other error
    /\ UNCHANGED <<sandbox, status, intent, late, rpc, expected, tries, halted, gone>>

AwaitCreate(t) ==
    /\ Waited(t, "created")
    /\ IF job[t].state = "ok" THEN Goto(t, "push") /\ UNCHANGED lock ELSE Return(t, "error")
    /\ UNCHANGED <<sandbox, status, intent, late, rpc, expected, tries, halted, gone>>

(* push_guest_files: fails if the instance is gone, or for any reason. *)
PushCreate(t) ==
    /\ pc[t] = "push"
    /\ \/ Exists /\ Goto(t, "start")
       \/ Goto(t, "cleanup_stop")
    /\ UNCHANGED <<sandbox, status, intent, late, lock, rpc, job, expected, tries, halted, gone>>

(* A start that fails fails its RPC; a create also cleans up. *)
StartFails(t) ==
    /\ Goto(t, IF rpc[t] = "create" THEN "cleanup_stop" ELSE "error")
    /\ lock' = IF lock = t THEN NoTask ELSE lock

(* start_instance, in create_sandbox and in start_sandbox. *)
StartInstance(t) ==
    /\ pc[t] = "start"
    /\ \/ Exists /\ Accept(t, "start", "started") /\ Revoke /\ UNCHANGED lock
       \/ StartFails(t) /\ UNCHANGED <<job, halted>>
    /\ UNCHANGED <<sandbox, status, intent, late, rpc, expected, tries, gone>>

AwaitStart(t) ==
    /\ Waited(t, "started")
    /\ \/ /\ job[t].state = "ok"
          /\ Goto(t, IF StartRetries > 0 THEN "settle_lock" ELSE "ok")
          /\ tries' = [tries EXCEPT ![t] = StartRetries]
          /\ expected' = IF rpc[t] = "create" THEN [expected EXCEPT ![t] = t] ELSE expected
          /\ UNCHANGED lock
       \/ /\ job[t].state # "ok"
          /\ StartFails(t)
          /\ UNCHANGED <<tries, expected>>
    /\ UNCHANGED <<sandbox, status, intent, late, rpc, halted, gone>>

(* The clean-up after a failed post-create step: stop, then delete, what   *)
(* has the name by now.                                                    *)
CleanupStop(t) ==
    /\ pc[t] = "cleanup_stop"
    /\ \/ Exists /\ Accept(t, "stop", "cleanup_stopped")
       \/ Goto(t, "cleanup_delete") /\ UNCHANGED job
    /\ UNCHANGED <<sandbox, status, intent, late, lock, rpc, expected, tries, halted, gone>>

AwaitCleanupStop(t) ==
    /\ Waited(t, "cleanup_stopped")
    /\ Goto(t, "cleanup_delete")
    /\ UNCHANGED <<sandbox, status, intent, late, lock, rpc, expected, tries, halted, gone>>

CleanupDelete(t) ==
    /\ pc[t] = "cleanup_delete"
    /\ \/ Exists /\ Accept(t, "delete", "cleanup_deleted") /\ UNCHANGED lock
       \/ Return(t, "error") /\ UNCHANGED job
    /\ UNCHANGED <<sandbox, status, intent, late, rpc, expected, tries, halted, gone>>

AwaitCleanupDelete(t) ==
    /\ Waited(t, "cleanup_deleted")
    /\ Return(t, "error")
    /\ UNCHANGED <<sandbox, status, intent, late, rpc, expected, tries, halted, gone>>

-----------------------------------------------------------------------------
(* start_sandbox, which takes no lock until it settles *)

StartRead(t) ==
    /\ pc[t] = "start_read"
    /\ \/ /\ Managed /\ status = "Stopped"
          /\ expected' = [expected EXCEPT ![t] = sandbox]
          /\ Goto(t, "start_push")
          /\ UNCHANGED lock
       \/ /\ \/ Managed /\ status = "Running" /\ Return(t, "ok")
             \/ Return(t, "error")             \* not found, frozen, or any other error
          /\ UNCHANGED expected
    /\ UNCHANGED <<sandbox, status, intent, late, rpc, job, tries, halted, gone>>

StartPush(t) ==
    /\ pc[t] = "start_push"
    /\ \/ Exists /\ Goto(t, "start_clear") /\ UNCHANGED lock
       \/ Return(t, "error")
    /\ UNCHANGED <<sandbox, status, intent, late, rpc, job, expected, tries, halted, gone>>

StartClear(t) ==
    /\ pc[t] = "start_clear"
    /\ \/ Patch(FALSE, TRUE) /\ Goto(t, "start") /\ Revoke /\ UNCHANGED lock
       \/ Patch(FALSE, FALSE) /\ Return(t, "error") /\ UNCHANGED halted
    /\ UNCHANGED <<late, rpc, job, expected, tries, gone>>

-----------------------------------------------------------------------------
(* settle_after_start, shared by create_sandbox and start_sandbox *)

SettleLock(t) == LockFor(t, "settle_lock", "settle_read")

(* Mutant: the stop marker is not looked at. *)
SettleIgnoresMarker(t) ==
    /\ pc[t] = "settle_read"
    /\ \/ sandbox = expected[t] /\ status = "Stopped" /\ Goto(t, "settle_start") /\ UNCHANGED lock
       \/ (sandbox # expected[t] \/ status # "Stopped") /\ Return(t, "ok")
       \/ StartFails(t)
    /\ UNCHANGED <<sandbox, status, intent, late, rpc, job, expected, tries, halted, gone>>

(* Restart only this sandbox, only if it is down, and only if nobody asked *)
(* for that.                                                               *)
SettleRead(t) ==
    /\ pc[t] = "settle_read"
    /\ \/ /\ sandbox = expected[t] /\ status = "Stopped" /\ ~ intent
          /\ Goto(t, "settle_start")
          /\ UNCHANGED lock
       \/ /\ sandbox # expected[t] \/ status # "Stopped" \/ intent
          /\ Return(t, "ok")
       \/ StartFails(t)                        \* get_instance fails
    /\ UNCHANGED <<sandbox, status, intent, late, rpc, job, expected, tries, halted, gone>>

SettleStart(t) ==
    /\ pc[t] = "settle_start"
    /\ \/ Exists /\ Accept(t, "start", "restarted") /\ UNCHANGED lock
       \/ StartFails(t) /\ UNCHANGED job
    /\ UNCHANGED <<sandbox, status, intent, late, rpc, expected, tries, halted, gone>>

(* Mutant: one attempt too many. *)
OneMoreAttempt(t) ==
    /\ Waited(t, "restarted")
    /\ \/ /\ job[t].state = "ok"
          /\ tries' = [tries EXCEPT ![t] = @ - 1]
          /\ Return(t, IF tries[t] > 0 THEN "settle_lock" ELSE "ok")
       \/ /\ job[t].state # "ok"
          /\ StartFails(t)
          /\ UNCHANGED tries
    /\ UNCHANGED <<sandbox, status, intent, late, rpc, expected, halted, gone>>

AwaitRestart(t) ==
    /\ Waited(t, "restarted")
    /\ \/ /\ job[t].state = "ok"
          /\ tries' = [tries EXCEPT ![t] = @ - 1]
          /\ Return(t, IF tries[t] > 1 THEN "settle_lock" ELSE "ok")
       \/ /\ job[t].state # "ok"
          /\ StartFails(t)
          /\ UNCHANGED tries
    /\ UNCHANGED <<sandbox, status, intent, late, rpc, expected, halted, gone>>

-----------------------------------------------------------------------------
(* stop_sandbox *)

StopLock(t) == LockFor(t, "stop_lock", "stop_read")

(* The stop is acknowledged.  A start that LXD has accepted but not yet    *)
(* performed may still follow it, rightly.                                 *)
Acknowledge(t) ==
    /\ Return(t, "ok")
    /\ LET starting == {j \in late \cup {job[u] : u \in Tasks} :
                           j.kind = "start" /\ j.id = sandbox}
       IN  halted' = IF Managed /\ status = "Stopped" /\ starting = {}
                     THEN halted \cup {<<sandbox, intent>>}
                     ELSE halted

StopRead(t) ==
    /\ pc[t] = "stop_read"
    /\ \/ Managed /\ status # "Stopped" /\ Goto(t, "stop_mark") /\ UNCHANGED <<lock, halted>>
       \/ Managed /\ status = "Stopped" /\ Acknowledge(t)
       \/ Return(t, "error") /\ UNCHANGED halted   \* not found, or any other error
    /\ UNCHANGED <<sandbox, status, intent, late, rpc, job, expected, tries, gone>>

(* set_stop_intent, whose failure is ignored. *)
StopMark(t) ==
    /\ pc[t] = "stop_mark"
    /\ \E ok \in BOOLEAN : Patch(TRUE, ok)
    /\ Goto(t, "shut_down_ask")
    /\ UNCHANGED <<late, lock, rpc, job, expected, tries, halted, gone>>

(* The graceful stop. *)
AskShutDown(t) ==
    /\ pc[t] = "shut_down_ask"
    /\ \/ Exists /\ Accept(t, "shutdown", "shut_down") /\ UNCHANGED <<lock, halted>>
       \/ Exists /\ status = "Stopped" /\ Acknowledge(t) /\ UNCHANGED job
       \/ Goto(t, "stop_force") /\ UNCHANGED <<lock, job, halted>>
    /\ UNCHANGED <<sandbox, status, intent, late, rpc, expected, tries, gone>>

AwaitShutDown(t) ==
    /\ Waited(t, "shut_down")
    /\ \/ job[t].state \in {"ok", "already"} /\ Acknowledge(t)
       \/ job[t].state = "failed" /\ Goto(t, "stop_force") /\ UNCHANGED <<lock, halted>>
    /\ UNCHANGED <<sandbox, status, intent, late, rpc, expected, tries, gone>>

(* The forced stop. *)
ForceStop(t) ==
    /\ pc[t] = "stop_force"
    /\ \/ Exists /\ Accept(t, "stop", "stopped") /\ UNCHANGED <<lock, halted>>
       \/ Exists /\ status = "Stopped" /\ Acknowledge(t) /\ UNCHANGED job
       \/ Goto(t, "stop_unmark") /\ UNCHANGED <<lock, job, halted>>
    /\ UNCHANGED <<sandbox, status, intent, late, rpc, expected, tries, gone>>

(* Mutant: a failed stop keeps its marker. *)
FailWithMarker(t) ==
    /\ Waited(t, "stopped")
    /\ \/ job[t].state \in {"ok", "already"} /\ Acknowledge(t)
       \/ job[t].state = "failed" /\ Return(t, "error") /\ UNCHANGED halted
    /\ UNCHANGED <<sandbox, status, intent, late, rpc, expected, tries, gone>>

AwaitForceStop(t) ==
    /\ Waited(t, "stopped")
    /\ \/ job[t].state \in {"ok", "already"} /\ Acknowledge(t)
       \/ job[t].state = "failed" /\ Goto(t, "stop_unmark") /\ UNCHANGED <<lock, halted>>
    /\ UNCHANGED <<sandbox, status, intent, late, rpc, expected, tries, gone>>

(* clear_stop_intent: the stop failed, so what the sandbox does next is    *)
(* its own doing.                                                          *)
StopUnmark(t) ==
    /\ pc[t] = "stop_unmark"
    /\ \E ok \in BOOLEAN : Patch(FALSE, ok)
    /\ Return(t, "error")
    /\ UNCHANGED <<late, rpc, job, expected, tries, halted, gone>>

-----------------------------------------------------------------------------
(* delete_sandbox *)

DeleteLock(t) == LockFor(t, "delete_lock", "delete_read")

(* Mutant: whatever has the name is deleted. *)
DeleteAnything(t) ==
    /\ pc[t] = "delete_read"
    /\ Exists
    /\ expected' = [expected EXCEPT ![t] = sandbox]
    /\ Goto(t, "delete_stop")
    /\ UNCHANGED <<sandbox, status, intent, late, lock, rpc, job, tries, halted, gone>>

DeleteRead(t) ==
    /\ pc[t] = "delete_read"
    /\ \/ /\ Managed
          /\ expected' = [expected EXCEPT ![t] = sandbox]
          /\ Goto(t, "delete_stop")
          /\ UNCHANGED lock
       \/ ~ Managed /\ Return(t, "ok") /\ UNCHANGED expected
       \/ Return(t, "error") /\ UNCHANGED expected
    /\ UNCHANGED <<sandbox, status, intent, late, rpc, job, tries, halted, gone>>

DeleteStop(t) ==
    /\ pc[t] = "delete_stop"
    /\ \/ Exists /\ Accept(t, "stop", "delete_stopped") /\ UNCHANGED lock
       \/ Exists /\ status = "Stopped" /\ Goto(t, "delete_ask") /\ UNCHANGED <<lock, job>>
       \/ ~ Exists /\ Return(t, "ok") /\ UNCHANGED job
       \/ Return(t, "error") /\ UNCHANGED job
    /\ UNCHANGED <<sandbox, status, intent, late, rpc, expected, tries, halted, gone>>

AwaitDeleteStop(t) ==
    /\ Waited(t, "delete_stopped")
    /\ \/ job[t].state \in {"ok", "already"} /\ Goto(t, "delete_ask") /\ UNCHANGED lock
       \/ job[t].state = "failed" /\ Return(t, "error")
    /\ UNCHANGED <<sandbox, status, intent, late, rpc, expected, tries, halted, gone>>

DeleteInstance(t) ==
    /\ pc[t] = "delete_ask"
    /\ \/ Exists /\ Accept(t, "delete", "deleted") /\ UNCHANGED lock
       \/ ~ Exists /\ Return(t, "ok") /\ UNCHANGED job
       \/ Return(t, "error") /\ UNCHANGED job
    /\ UNCHANGED <<sandbox, status, intent, late, rpc, expected, tries, halted, gone>>

(* Mutant: the deletion is reported without asking how it ended. *)
ReportAnyway(t) ==
    /\ Waited(t, "deleted")
    /\ Return(t, "ok")
    /\ gone' = gone \cup {expected[t]}
    /\ UNCHANGED <<sandbox, status, intent, late, rpc, expected, tries, halted>>

(* Only a deletion that LXD finished is reported to the gateway. *)
AwaitDelete(t) ==
    /\ Waited(t, "deleted")
    /\ \/ job[t].state = "ok" /\ Return(t, "ok") /\ gone' = gone \cup {expected[t]}
       \/ job[t].state # "ok" /\ Return(t, "error") /\ UNCHANGED gone
    /\ UNCHANGED <<sandbox, status, intent, late, rpc, expected, tries, halted>>

-----------------------------------------------------------------------------
Create(t) ==
    \/ CreateInstance(t) \/ AwaitCreate(t) \/ PushCreate(t)
    \/ CleanupStop(t) \/ AwaitCleanupStop(t) \/ CleanupDelete(t) \/ AwaitCleanupDelete(t)

Start(t) ==
    \/ StartRead(t) \/ StartPush(t) \/ StartClear(t)
    \/ StartInstance(t) \/ AwaitStart(t)

Settle(t) == SettleLock(t) \/ SettleRead(t) \/ SettleStart(t) \/ AwaitRestart(t)

Stop(t) ==
    \/ StopLock(t) \/ StopRead(t) \/ StopMark(t) \/ AskShutDown(t) \/ AwaitShutDown(t)
    \/ ForceStop(t) \/ AwaitForceStop(t) \/ StopUnmark(t)

Delete(t) ==
    \/ DeleteLock(t) \/ DeleteRead(t) \/ DeleteStop(t) \/ AwaitDeleteStop(t)
    \/ DeleteInstance(t) \/ AwaitDelete(t)

Handler(t) == Create(t) \/ Start(t) \/ Settle(t) \/ Stop(t) \/ Delete(t)

Next ==
    \/ \E t \in Tasks :
          \/ \E kind \in Rpcs : Call(t, kind)
          \/ Handler(t)
          \/ GiveUp(t)
          \/ Cancel(t)
          \/ JobEnds(t)
    \/ \E j \in late : LateJobEnds(j)
    \/ InitExits
    \/ Freeze

Spec == Init /\ [][Next]_vars

(* The runtime keeps polling every handler and fires its timeouts.  LXD    *)
(* answers requests, but need never finish an operation.                   *)
FairSpec == Spec /\ \A t \in Tasks : WF_vars(Handler(t)) /\ WF_vars(GiveUp(t))

-----------------------------------------------------------------------------
(* A marked stop stands: once StopSandbox is acknowledged for a sandbox    *)
(* that carries the stop marker, only an explicit start brings it up       *)
(* again, never the restart that settles an earlier start                  *)
(* (settle_after_start's check of the marker, under the lifecycle lock).   *)
MarkedStopStands ==
    <<sandbox, TRUE>> \in halted => status = "Stopped"

(* Any acknowledged stop stands, marked or not: settle_after_start does    *)
(* not restart a sandbox that was asked to be down while a start settled.  *)
StopStands ==
    (\E marked \in BOOLEAN : <<sandbox, marked>> \in halted) => status = "Stopped"

(* What was reported deleted is gone for good: DeleteSandbox answers only  *)
(* after LXD's delete operation ended, and a sandbox that took the name    *)
(* since is another one.                                                   *)
DeletedIsGone == sandbox \notin gone

(* An instance the driver does not manage, and that had the name first, is *)
(* never marked, started, stopped or deleted, even when a caller names it  *)
(* (get_managed_instance, and the same checks in stop and delete).         *)
ForeignUntouched ==
    /\ sandbox = Foreign => ~ intent
    /\ \A j \in late \cup {job[t] : t \in Tasks} : j.id # Foreign

(* A stop marker has an author: if config patches are accepted, a sandbox  *)
(* carries the marker only because of a StopSandbox that is under way, was *)
(* acknowledged or was dropped half-way; one that failed took it back.     *)
MarkerHasAuthor ==
    intent => \E t \in Tasks :
                 /\ rpc[t] = "stop"
                 /\ pc[t] \notin {"idle", "stop_lock", "stop_read", "stop_mark", "error"}

(* A create cleans up after itself only: what it deletes when a            *)
(* post-create step fails is the instance it created.                      *)
CleanupIsOwn ==
    \A t \in Tasks : pc[t] = "cleanup_deleted" /\ job[t].state # "none" => job[t].id = t

(* Every RPC is answered, whatever LXD does with the operations it is      *)
(* given and whoever holds the lifecycle lock (wait_operation's bound).    *)
EveryRpcEnds ==
    \A t \in Tasks : pc[t] # "idle" ~> pc[t] \in Ends

=============================================================================
