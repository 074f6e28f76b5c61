--------------------------- MODULE SandboxStatus ---------------------------
(***************************************************************************)
(* What the driver tells the gateway of a sandbox that is down, and why it *)
(* is down.  LXD reports Stopped whichever way an instance went down; the  *)
(* driver tells a requested stop by the marker it set itself, and a stop   *)
(* by LXD (daemon or host shutting down) by volatile.last_state.power,     *)
(* which still says RUNNING then, but also for a moment after the init     *)
(* exits.                                                                  *)
(*                                                                         *)
(* One sandbox, one StopSandbox and one StartSandbox at a time, and one    *)
(* observer, which changes nothing: GetSandbox (or ListSandboxes, which    *)
(* does the same for every sandbox), or the watcher on a lifecycle event.  *)
(* The sandbox keeps its name.  Messages are left out, reasons are kept.   *)
(***************************************************************************)
EXTENDS Naturals

CONSTANT MaxStops  \* bound: how often the instance goes down

ASSUME StatusAssumption == MaxStops \in Nat

Statuses == {"Stopped", "Starting", "Running", "Frozen", "Error", "Stopping"}
Powers == {"none", "RUNNING", "STOPPED"}
Causes == {"none", "exit", "requested", "runtime"}
Reasons == {"Ready", "ContainerCreated", "ContainerStopped", "ContainerRuntimeRestart",
            "ContainerExited", "ContainerStarting", "ContainerPaused", "Error", "Unknown"}

VARIABLES
    up,         \* whether LXD runs
    status,     \* the instance's status
    power,      \* its volatile.last_state.power
    intent,     \* whether it carries the stop marker
    stopJob,    \* LXD's last stop operation: none, pending, ok or failed
    announced,  \* whether a lifecycle event is on its way to the watcher
    start,      \* where StartSandbox is: idle, clear or ask
    stop,       \* where StopSandbox is: idle, mark, ask, wait or unmark
    pc,         \* where the observer is: idle, sleeping, event or told
    first,      \* the instance as it read it first
    told,       \* what it told the gateway: a reason, and what it is based on
    cause,      \* history: why the instance is down
    wanted,     \* history: what was asked for last: see Wishes
    stops       \* history: how often the instance went down

\* up       the sandbox is new, or a StartSandbox came last
\* down     a StopSandbox that has set the marker is under way
\* acked    it has been answered
\* failed   a StopSandbox could not set the marker, or its stop failed
Wishes == {"up", "down", "acked", "failed"}

instance == <<status, power, intent, cause, wanted, stops>>
driver == <<start, stop>>
observer == <<pc, first, told>>
vars == <<up, status, power, intent, stopJob, announced, start, stop, pc, first, told,
          cause, wanted, stops>>

(* The instance as a read returns it, with the history that goes with it. *)
Instance == [status |-> status, power |-> power, intent |-> intent, cause |-> cause,
             wanted |-> wanted, stops |-> stops]
Instances == [status : Statuses, power : Powers, intent : BOOLEAN, cause : Causes,
              wanted : Wishes, stops : 0..MaxStops]
Reports == [reason : Reasons, of : Instances, seen : {"Discovered", "Live"},
            reread : {"done", "failed", "none"}]
Nothing == [reason |-> "none"]

(* A stop that LXD has carried out itself ends with power STOPPED. *)
Finishing == status = "Stopped" /\ power = "RUNNING" /\ cause # "runtime"

TypeOK ==
    /\ up \in BOOLEAN
    /\ Instance \in Instances
    /\ stopJob \in {"none", "pending", "ok", "failed"} /\ announced \in BOOLEAN
    /\ start \in {"idle", "clear", "ask"}
    /\ stop \in {"idle", "mark", "ask", "wait", "unmark"}
    /\ pc \in {"idle", "sleeping", "event", "told"}
    /\ first \in Instances \cup {Nothing}
    /\ told \in Reports \cup {Nothing}
    /\ pc = "told" <=> told # Nothing
    /\ pc = "sleeping" => first # Nothing

(* The instance was created and never started. *)
Init ==
    /\ up = TRUE
    /\ status = "Stopped" /\ power = "none" /\ intent = FALSE
    /\ stopJob = "none" /\ announced = FALSE
    /\ start = "idle" /\ stop = "idle"
    /\ pc = "idle" /\ first = Nothing /\ told = Nothing
    /\ cause = "none" /\ wanted = "up" /\ stops = 0

-----------------------------------------------------------------------------
(* LXD and the instance *)

GoDown(why) ==
    /\ stops < MaxStops
    /\ stops' = stops + 1
    /\ cause' = why

(* A start ends: LXD records the power as it does. *)
Started ==
    /\ up /\ status = "Starting"
    /\ \/ status' = "Running" /\ power' = "RUNNING" /\ cause' = "none" /\ announced' = TRUE
       \/ status' \in {"Stopped", "Error"} /\ UNCHANGED <<power, cause, announced>>
    /\ UNCHANGED <<up, intent, wanted, stops, stopJob, driver, observer>>

InitExits ==
    /\ up /\ status = "Running"
    /\ GoDown("exit")
    /\ status' = "Stopped"
    /\ announced' = TRUE
    /\ UNCHANGED <<up, power, intent, wanted, stopJob, driver, observer>>

(* LXD works on a stop operation. *)
StopBegins ==
    /\ up /\ stopJob = "pending" /\ status \in {"Running", "Frozen"}
    /\ status' = "Stopping"
    /\ UNCHANGED <<up, power, intent, cause, wanted, stops, stopJob, announced, driver, observer>>

(* It ends; LXD takes an instance that is down already for stopped. *)
StopEnds ==
    /\ up /\ stopJob = "pending"
    /\ \/ /\ status = "Stopping" /\ status' = "Stopped" /\ GoDown("requested")
          /\ announced' = TRUE
          /\ stopJob' = "ok"
       \/ /\ status' = IF status = "Stopping" THEN "Running" ELSE status
          /\ stopJob' = IF status = "Stopped" THEN "ok" ELSE "failed"
          /\ UNCHANGED <<cause, stops, announced>>
    /\ UNCHANGED <<up, power, intent, wanted, driver, observer>>

FinishStop ==
    /\ up /\ Finishing
    /\ power' = "STOPPED"
    /\ UNCHANGED <<up, status, intent, cause, wanted, stops, stopJob, announced, driver, observer>>

Freeze ==
    /\ up
    /\ \/ status = "Running" /\ status' = "Frozen"
       \/ status = "Frozen" /\ status' = "Running"
    /\ UNCHANGED <<up, power, intent, cause, wanted, stops, stopJob, announced, driver, observer>>

(* LXD goes down with the daemon or the host: it finishes the stops it has *)
(* carried out, and stops what runs, keeping its power RUNNING.  Its       *)
(* operations and its event streams end.                                   *)
ShutDown ==
    /\ up
    /\ status \notin {"Starting", "Stopping"}
    /\ up' = FALSE
    /\ IF status \in {"Running", "Frozen"}
       THEN GoDown("runtime") /\ status' = "Stopped" /\ UNCHANGED power
       ELSE /\ power' = IF Finishing THEN "STOPPED" ELSE power
            /\ UNCHANGED <<status, cause, stops>>
    /\ stopJob' = IF stopJob = "pending" THEN "failed" ELSE stopJob
    /\ announced' = FALSE
    /\ UNCHANGED <<intent, wanted, driver, observer>>

(* LXD comes back, and may bring back what it stopped. *)
Boot ==
    /\ ~ up
    /\ up' = TRUE
    /\ \/ UNCHANGED <<status, cause>>
       \/ cause = "runtime" /\ status = "Stopped" /\ status' = "Running" /\ cause' = "none"
    /\ UNCHANGED <<power, intent, wanted, stops, stopJob, announced, driver, observer>>

-----------------------------------------------------------------------------
(* stop_sandbox and start_sandbox, as far as they touch the marker.  The   *)
(* graceful and the forced stop are one, and the restarts that settle a    *)
(* start are left out: SandboxLifecycle has them.                          *)

(* stop_sandbox returns at once if the sandbox is down already. *)
StopRead ==
    /\ stop = "idle" /\ up /\ status # "Stopped"
    /\ stop' = "mark"
    /\ UNCHANGED <<up, instance, stopJob, announced, start, observer>>

(* Mutant: the stop is asked for without a marker. *)
StopWithoutMarker ==
    /\ stop = "mark"
    /\ stop' = "ask"
    /\ wanted' = "down"
    /\ UNCHANGED <<up, status, power, intent, cause, stops, stopJob, announced, start, observer>>

(* set_stop_intent, best-effort: a PATCH that fails does not end the stop. *)
StopMark ==
    /\ stop = "mark"
    /\ \/ up /\ intent' = TRUE /\ wanted' = "down"
       \/ UNCHANGED intent /\ wanted' = "failed"
    /\ stop' = "ask"
    /\ UNCHANGED <<up, status, power, cause, stops, stopJob, announced, start, observer>>

(* The history of a stop that ends: nobody asked for a start meanwhile. *)
StopEndsWith(outcome) == wanted' = IF wanted = "down" THEN outcome ELSE wanted

StopAsk ==
    /\ stop = "ask"
    /\ \/ up /\ stopJob' = "pending" /\ stop' = "wait" /\ UNCHANGED wanted
       \/ stop' = "unmark" /\ StopEndsWith("failed") /\ UNCHANGED stopJob
    /\ UNCHANGED <<up, status, power, intent, cause, stops, announced, start, observer>>

(* The operation is over, with the sandbox down ... *)
StopAcknowledged ==
    /\ stop = "wait" /\ stopJob = "ok"
    /\ stop' = "idle"
    /\ StopEndsWith("acked")
    /\ UNCHANGED <<up, status, power, intent, cause, stops, stopJob, announced, start, observer>>

(* ... or it failed, or the wait timed out while LXD goes on. *)
StopFails ==
    /\ stop = "wait" /\ stopJob # "ok"
    /\ stop' = "unmark"
    /\ StopEndsWith("failed")
    /\ UNCHANGED <<up, status, power, intent, cause, stops, stopJob, announced, start, observer>>

(* clear_stop_intent, best-effort. *)
StopUnmark ==
    /\ stop = "unmark"
    /\ intent' = (intent /\ ~ up)
    /\ stop' = "idle"
    /\ UNCHANGED <<up, status, power, cause, wanted, stops, stopJob, announced, start, observer>>

StartRead ==
    /\ start = "idle" /\ up /\ status = "Stopped"
    /\ start' = "clear"
    /\ wanted' = "up"
    /\ UNCHANGED <<up, status, power, intent, cause, stops, stopJob, announced, stop, observer>>

StartClear ==
    /\ start = "clear"
    /\ \/ up /\ intent' = FALSE /\ start' = "ask"
       \/ start' = "idle" /\ UNCHANGED intent
    /\ wanted' = "up"
    /\ UNCHANGED <<up, status, power, cause, stops, stopJob, announced, stop, observer>>

StartAsk ==
    /\ start = "ask"
    /\ \/ up /\ status = "Stopped" /\ status' = "Starting"
       \/ UNCHANGED status
    /\ start' = "idle"
    /\ wanted' = "up"
    /\ UNCHANGED <<up, power, intent, cause, stops, stopJob, announced, stop, observer>>

-----------------------------------------------------------------------------
(* The observer *)

StoppedByTheRuntime(i) ==
    i.status = "Stopped" /\ ~ i.intent /\ i.power = "RUNNING"

(* Mutant: a stop is always taken for one that an event announced. *)
NeverByTheRuntime(i, seen) ==
    CASE i.status = "Running" -> "Ready"
      [] i.status = "Stopped" -> IF i.power = "none" THEN "ContainerCreated"
                                 ELSE IF i.intent THEN "ContainerStopped" ELSE "ContainerExited"
      [] OTHER -> "Unknown"

(* Mutant: a status the driver has no reason for is passed on as one. *)
PassStatusOn(i, seen) == IF i.status = "Running" THEN "Ready" ELSE i.status

ReadyCondition(i, seen) ==
    CASE i.status = "Running"  -> "Ready"
      [] i.status = "Starting" -> "ContainerStarting"
      [] i.status = "Frozen"   -> "ContainerPaused"
      [] i.status = "Error"    -> "Error"
      [] i.status = "Stopping" -> "Unknown"
      [] i.status = "Stopped" /\ i.power = "none" -> "ContainerCreated"
      [] i.status = "Stopped" /\ i.power # "none" /\ i.intent -> "ContainerStopped"
      [] i.status = "Stopped" /\ i.power # "none" /\ ~ i.intent ->
            IF seen = "Discovered" /\ StoppedByTheRuntime(i)
            THEN "ContainerRuntimeRestart" ELSE "ContainerExited"

Tell(i, seen, reread) ==
    /\ told' = [reason |-> ReadyCondition(i, seen), of |-> i, seen |-> seen, reread |-> reread]
    /\ pc' = "told"

(* get_sandbox and list_sandboxes: report what was read, unless it looks   *)
(* like a stop by LXD, which is read again after RUNTIME_RESTART_SETTLE.   *)
GetSandbox ==
    /\ pc = "idle" /\ up
    /\ first' = Instance
    /\ IF StoppedByTheRuntime(Instance) THEN pc' = "sleeping" /\ UNCHANGED told
                                        ELSE Tell(Instance, "Discovered", "none")
    /\ UNCHANGED <<up, instance, stopJob, announced, driver>>

(* Mutant: the first read is reported after the wait. *)
ConfirmWithoutReading ==
    /\ pc = "sleeping"
    /\ Finishing => stops # first.stops
    /\ Tell(first, "Discovered", "done")
    /\ UNCHANGED <<up, instance, stopJob, announced, driver, first>>

(* confirm_runtime_restart.  The wait is longer than LXD takes to finish   *)
(* the stop that was seen.  A read that fails leaves the first one.        *)
ConfirmRuntimeRestart ==
    /\ pc = "sleeping"
    /\ Finishing => stops # first.stops
    /\ \/ up /\ Tell(Instance, "Discovered", "done")
       \/ Tell(first, "Discovered", "failed")
    /\ UNCHANGED <<up, instance, stopJob, announced, driver, first>>

(* The watcher takes an event, and reports what it reads then. *)
TakeEvent ==
    /\ pc = "idle" /\ announced
    /\ announced' = FALSE
    /\ pc' = "event"
    /\ UNCHANGED <<up, instance, stopJob, driver, first, told>>

ReadOnEvent ==
    /\ pc = "event"
    /\ \/ up /\ Tell(Instance, "Live", "none")
       \/ pc' = "idle" /\ UNCHANGED told
    /\ UNCHANGED <<up, instance, stopJob, announced, driver, first>>

-----------------------------------------------------------------------------
Lxd == \/ Started \/ InitExits \/ StopBegins \/ StopEnds \/ FinishStop \/ Freeze
       \/ ShutDown \/ Boot

Driver == \/ StopRead \/ StopMark \/ StopAsk \/ StopAcknowledged \/ StopFails \/ StopUnmark
          \/ StartRead \/ StartClear \/ StartAsk

Observe == GetSandbox \/ ConfirmRuntimeRestart \/ TakeEvent \/ ReadOnEvent

Next == Lxd \/ Driver \/ Observe

Spec == Init /\ [][Next]_vars

-----------------------------------------------------------------------------
(* An exit of the init, or a requested stop, is told as a stop by LXD only *)
(* if the second read failed or the sandbox went down once more while the  *)
(* driver waited for it (confirm_runtime_restart).                         *)
RestartIsConfirmed ==
    told # Nothing /\ told.reason = "ContainerRuntimeRestart" =>
        \/ told.of.cause = "runtime"
        \/ told.reread = "failed"
        \/ told.of.stops # first.stops

(* A stop by LXD is never told as an exit of the init by a GetSandbox or a *)
(* ListSandboxes (ready_condition, StopSeen::Discovered).                  *)
RuntimeStopsAreTold ==
    told # Nothing /\ told.seen = "Discovered" /\ told.of.cause = "runtime" =>
        told.reason # "ContainerExited"

(* From when a StopSandbox has set its marker, a sandbox that has ever run *)
(* and is down is told to be down on request: while the stop is under way, *)
(* and once it was acknowledged, however late the report is made and       *)
(* whatever LXD does, until a StartSandbox is made (KEY_STOP_INTENT, which *)
(* the driver sets before it asks for the stop).                           *)
RequestedStopsAreTold ==
    (/\ told # Nothing
     /\ told.of.wanted \in {"down", "acked"}
     /\ told.of.status = "Stopped" /\ told.of.power # "none")
        => told.reason = "ContainerStopped"

============================================================================
