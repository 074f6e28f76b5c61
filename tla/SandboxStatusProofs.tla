------------------------ MODULE SandboxStatusProofs ------------------------
(***************************************************************************)
(* What the driver tells of a sandbox that is down is what happened to it, *)
(* however often it goes down.                                             *)
(***************************************************************************)
EXTENDS SandboxStatus, TLAPS

(* LXD keeps the power RUNNING while an instance is up, and after it has   *)
(* stopped one with itself.                                                *)
RunningIsRecorded ==
    status \in {"Running", "Frozen", "Stopping"} \/ cause = "runtime" => power = "RUNNING"

(* The marker stands from before the stop is asked for until a start is    *)
(* made or the stop has failed.                                            *)
MarkerIsKept ==
    /\ wanted = "down" => intent /\ stop \in {"ask", "wait"}
    /\ wanted = "acked" => intent /\ stop \in {"idle", "mark"}

(* Who waits has read a sandbox that looked stopped by LXD: no stop that   *)
(* has set its marker was under way or had been acknowledged.              *)
SleepsOnARestart ==
    pc = "sleeping" => StoppedByTheRuntime(first) /\ first.wanted \notin {"down", "acked"}

(* The inductive invariant: the state, and what was told of it. *)
InstanceInv == TypeOK /\ RunningIsRecorded /\ MarkerIsKept /\ SleepsOnARestart
ToldInv == RestartIsConfirmed /\ RuntimeStopsAreTold /\ RequestedStopsAreTold
StatusInv == InstanceInv /\ ToldInv

-----------------------------------------------------------------------------
(* What a reason says of the instance it is given for (ready_condition). *)
LEMMA ReasonsMean ==
    ASSUME NEW i \in Instances, NEW seen \in {"Discovered", "Live"}
    PROVE  /\ ReadyCondition(i, seen) \in Reasons
           /\ ReadyCondition(i, seen) = "ContainerRuntimeRestart" =>
                 seen = "Discovered" /\ StoppedByTheRuntime(i)
           /\ ReadyCondition(i, seen) = "ContainerExited" =>
                 /\ i.status = "Stopped" /\ ~ i.intent
                 /\ ~ (seen = "Discovered" /\ StoppedByTheRuntime(i))
           /\ i.status = "Stopped" /\ i.power # "none" /\ i.intent =>
                 ReadyCondition(i, seen) = "ContainerStopped"
<1>1. i.status \in Statuses /\ i.intent \in BOOLEAN BY DEF Instances
<1>2. CASE i.status = "Running" BY <1>2 DEF ReadyCondition, Reasons
<1>3. CASE i.status = "Starting" BY <1>3 DEF ReadyCondition, Reasons
<1>4. CASE i.status = "Frozen" BY <1>4 DEF ReadyCondition, Reasons
<1>5. CASE i.status = "Error" BY <1>5 DEF ReadyCondition, Reasons
<1>6. CASE i.status = "Stopping" BY <1>6 DEF ReadyCondition, Reasons
<1>7. CASE i.status = "Stopped"
  <2>1. CASE i.power = "none" BY <1>7, <2>1 DEF ReadyCondition, Reasons, StoppedByTheRuntime
  <2>2. CASE i.power # "none" /\ i.intent
    BY <1>7, <2>2 DEF ReadyCondition, Reasons, StoppedByTheRuntime
  <2>3. CASE i.power # "none" /\ ~ i.intent
    BY <1>7, <2>3 DEF ReadyCondition, Reasons, StoppedByTheRuntime
  <2> QED BY <2>1, <2>2, <2>3
<1> QED BY <1>1, <1>2, <1>3, <1>4, <1>5, <1>6, <1>7 DEF Statuses

(* A report is a report, and not nothing. *)
LEMMA TellingIsTyped ==
    ASSUME NEW i \in Instances, NEW seen \in {"Discovered", "Live"},
           NEW reread \in {"done", "failed", "none"}, Tell(i, seen, reread)
    PROVE  /\ told' \in Reports /\ told' # Nothing
           /\ told'.reason = ReadyCondition(i, seen)
           /\ told'.of = i /\ told'.seen = seen /\ told'.reread = reread
           /\ pc' = "told"
<1>1. ReadyCondition(i, seen) \in Reasons BY ReasonsMean
<1>2. told' \in Reports BY <1>1 DEF Tell, Reports
<1>3. told'.reason # "none" BY <1>1 DEF Tell, Reasons
<1>4. told' # Nothing BY <1>3 DEF Nothing
<1> QED BY <1>2, <1>4 DEF Tell

(* The parts of the instance are typed when it is, and the other way. *)
Parts ==
    /\ status \in Statuses /\ power \in Powers /\ intent \in BOOLEAN /\ cause \in Causes
    /\ wanted \in Wishes /\ stops \in 0..MaxStops

LEMMA InstanceIsItsParts ==
    /\ Instance \in Instances <=> Parts
    /\ (Instance \in Instances)' <=> Parts'
    /\ Instance.status = status /\ Instance.power = power /\ Instance.intent = intent
    /\ Instance.cause = cause /\ Instance.wanted = wanted /\ Instance.stops = stops
BY DEF Instance, Instances, Parts

(* What TypeOK says besides that. *)
Rest ==
    /\ up \in BOOLEAN
    /\ stopJob \in {"none", "pending", "ok", "failed"} /\ announced \in BOOLEAN
    /\ start \in {"idle", "clear", "ask"}
    /\ stop \in {"idle", "mark", "ask", "wait", "unmark"}

Told ==
    /\ pc \in {"idle", "sleeping", "event", "told"}
    /\ first \in Instances \cup {Nothing}
    /\ told \in Reports \cup {Nothing}
    /\ pc = "told" <=> told # Nothing
    /\ pc = "sleeping" => first # Nothing

LEMMA TypeOKSplits == (TypeOK <=> Parts /\ Rest /\ Told) /\ (TypeOK' <=> Parts' /\ Rest' /\ Told')
BY InstanceIsItsParts DEF TypeOK, Rest, Told

LEMMA InitEstablishesStatusInv == Init => StatusInv
<1> SUFFICES ASSUME Init PROVE StatusInv OBVIOUS
<1>1. 0 \in 0..MaxStops BY StatusAssumption
<1>2. Parts BY <1>1 DEF Init, Parts, Statuses, Powers, Causes, Wishes
<1>3. Rest /\ Told BY DEF Init, Rest, Told
<1>4. TypeOK BY <1>2, <1>3, TypeOKSplits
<1>5. RunningIsRecorded /\ MarkerIsKept /\ SleepsOnARestart
  BY DEF Init, RunningIsRecorded, MarkerIsKept, SleepsOnARestart
<1>6. ToldInv
  BY DEF Init, ToldInv, RestartIsConfirmed, RuntimeStopsAreTold, RequestedStopsAreTold
<1> QED BY <1>4, <1>5, <1>6 DEF StatusInv, InstanceInv

-----------------------------------------------------------------------------
(* A step that leaves the observer alone keeps what was told and what it   *)
(* waits on.                                                               *)
LEMMA ObserverUntouched ==
    ASSUME StatusInv, UNCHANGED observer, Parts', Rest', RunningIsRecorded', MarkerIsKept'
    PROVE  StatusInv'
<1>1. pc' = pc /\ first' = first /\ told' = told BY DEF observer
<1>2. Told' BY <1>1, TypeOKSplits DEF StatusInv, InstanceInv, Told
<1>3. TypeOK' BY <1>2, TypeOKSplits
<1>4. SleepsOnARestart' BY <1>1 DEF StatusInv, InstanceInv, SleepsOnARestart
<1>5. ToldInv'
  BY <1>1 DEF StatusInv, ToldInv, RestartIsConfirmed, RuntimeStopsAreTold, RequestedStopsAreTold
<1> QED BY <1>3, <1>4, <1>5 DEF StatusInv, InstanceInv

(* LXD keeps the invariant, and does not change what was told. *)
LEMMA LxdKeepsStatusInv == StatusInv /\ Lxd => StatusInv'
<1> SUFFICES ASSUME StatusInv, Lxd PROVE StatusInv' OBVIOUS
<1>a. Parts /\ Rest BY TypeOKSplits DEF StatusInv, InstanceInv
<1>b. RunningIsRecorded /\ MarkerIsKept BY DEF StatusInv, InstanceInv
<1>c. stops < MaxStops => stops + 1 \in 0..MaxStops BY <1>a, StatusAssumption DEF Parts
<1> USE DEF Parts, Rest, RunningIsRecorded, MarkerIsKept, driver
<1>1. CASE Started
  <2>1. UNCHANGED observer /\ Parts' /\ Rest' /\ RunningIsRecorded' /\ MarkerIsKept'
    BY <1>1, <1>a, <1>b DEF Started, Statuses, Powers, Causes
  <2> QED BY <2>1, ObserverUntouched
<1>2. CASE InitExits
  <2>1. UNCHANGED observer /\ Parts' /\ Rest' BY <1>2, <1>a, <1>c DEF InitExits, GoDown, Statuses, Causes
  <2>2. RunningIsRecorded' /\ MarkerIsKept' BY <1>2, <1>b DEF InitExits, GoDown
  <2> QED BY <2>1, <2>2, ObserverUntouched
<1>3. CASE StopBegins
  <2>1. UNCHANGED observer /\ Parts' /\ Rest' /\ RunningIsRecorded' /\ MarkerIsKept'
    BY <1>3, <1>a, <1>b DEF StopBegins, Statuses
  <2> QED BY <2>1, ObserverUntouched
<1>4. CASE StopEnds
  <2>1. UNCHANGED observer /\ Rest' BY <1>4, <1>a DEF StopEnds
  <2>2. Parts' BY <1>4, <1>a, <1>c DEF StopEnds, GoDown, Statuses, Causes
  <2>3. RunningIsRecorded' /\ MarkerIsKept' BY <1>4, <1>b DEF StopEnds, GoDown
  <2> QED BY <2>1, <2>2, <2>3, ObserverUntouched
<1>5. CASE FinishStop
  <2>1. UNCHANGED observer /\ Parts' /\ Rest' /\ RunningIsRecorded' /\ MarkerIsKept'
    BY <1>5, <1>a, <1>b DEF FinishStop, Finishing, Powers
  <2> QED BY <2>1, ObserverUntouched
<1>6. CASE Freeze
  <2>1. UNCHANGED observer /\ Parts' /\ Rest' /\ RunningIsRecorded' /\ MarkerIsKept'
    BY <1>6, <1>a, <1>b DEF Freeze, Statuses
  <2> QED BY <2>1, ObserverUntouched
<1>7. CASE ShutDown
  <2>1. UNCHANGED observer /\ Rest' BY <1>7, <1>a DEF ShutDown
  <2>2. Parts' BY <1>7, <1>a, <1>c DEF ShutDown, GoDown, Statuses, Powers, Causes
  <2>3. RunningIsRecorded' /\ MarkerIsKept' BY <1>7, <1>b DEF ShutDown, GoDown, Finishing
  <2> QED BY <2>1, <2>2, <2>3, ObserverUntouched
<1>8. CASE Boot
  <2>1. UNCHANGED observer /\ Parts' /\ Rest' /\ RunningIsRecorded' /\ MarkerIsKept'
    BY <1>8, <1>a, <1>b DEF Boot, Statuses, Causes
  <2> QED BY <2>1, ObserverUntouched
<1> QED BY <1>1, <1>2, <1>3, <1>4, <1>5, <1>6, <1>7, <1>8 DEF Lxd

(* So do StopSandbox and StartSandbox. *)
LEMMA DriverKeepsStatusInv == StatusInv /\ Driver => StatusInv'
<1> SUFFICES ASSUME StatusInv, Driver PROVE StatusInv' OBVIOUS
<1>a. Parts /\ Rest BY TypeOKSplits DEF StatusInv, InstanceInv
<1>b. RunningIsRecorded /\ MarkerIsKept BY DEF StatusInv, InstanceInv
<1>0. SUFFICES UNCHANGED observer /\ Parts' /\ Rest' /\ RunningIsRecorded' /\ MarkerIsKept'
  BY ObserverUntouched
<1> USE DEF Parts, Rest, RunningIsRecorded, MarkerIsKept, instance, StopEndsWith, Wishes
<1>0a. CASE StopRead BY <1>0a, <1>a, <1>b DEF StopRead
<1>1. CASE StopMark BY <1>1, <1>a, <1>b DEF StopMark
<1>2. CASE StopAsk BY <1>2, <1>a, <1>b DEF StopAsk
<1>3. CASE StopAcknowledged BY <1>3, <1>a, <1>b DEF StopAcknowledged
<1>4. CASE StopFails BY <1>4, <1>a, <1>b DEF StopFails
<1>5. CASE StopUnmark
  <2>1. UNCHANGED observer /\ RunningIsRecorded' /\ MarkerIsKept' /\ Rest'
    BY <1>5, <1>a, <1>b DEF StopUnmark
  <2>2. intent' \in BOOLEAN BY <1>5 DEF StopUnmark
  <2>3. Parts' BY <1>5, <1>a, <2>2 DEF StopUnmark
  <2> QED BY <2>1, <2>3
<1>6. CASE StartRead BY <1>6, <1>a, <1>b DEF StartRead
<1>7. CASE StartClear
  <2>1. UNCHANGED observer /\ RunningIsRecorded' /\ MarkerIsKept' /\ Rest'
    BY <1>7, <1>a, <1>b DEF StartClear
  <2>2. intent' \in BOOLEAN BY <1>7, <1>a DEF StartClear
  <2>3. Parts' BY <1>7, <1>a, <2>2 DEF StartClear
  <2> QED BY <2>1, <2>3
<1>8. CASE StartAsk BY <1>8, <1>a, <1>b DEF StartAsk, Statuses
<1> QED BY <1>0a, <1>1, <1>2, <1>3, <1>4, <1>5, <1>6, <1>7, <1>8 DEF Driver

-----------------------------------------------------------------------------
(* What is told of the instance as it is: an exit only if LXD did not stop *)
(* it, and a requested stop if one with a marker is under way or over.     *)
LEMMA TellingTheInstance ==
    ASSUME InstanceInv, NEW seen \in {"Discovered", "Live"},
           NEW reread \in {"done", "failed", "none"}, Tell(Instance, seen, reread)
    PROVE  RuntimeStopsAreTold' /\ RequestedStopsAreTold'
<1>1. Instance \in Instances BY DEF InstanceInv, TypeOK
<1>2. /\ told' # Nothing /\ told'.reason = ReadyCondition(Instance, seen)
      /\ told'.of = Instance /\ told'.seen = seen
  BY <1>1, TellingIsTyped
<1>3. RuntimeStopsAreTold'
  <2> SUFFICES ASSUME seen = "Discovered", cause = "runtime",
                      ReadyCondition(Instance, seen) = "ContainerExited"
               PROVE  FALSE
    BY <1>2, InstanceIsItsParts DEF RuntimeStopsAreTold
  <2>1. status = "Stopped" /\ ~ intent /\ ~ StoppedByTheRuntime(Instance)
    BY <1>1, ReasonsMean, InstanceIsItsParts
  <2>2. power = "RUNNING" BY DEF InstanceInv, RunningIsRecorded
  <2> QED BY <2>1, <2>2, InstanceIsItsParts DEF StoppedByTheRuntime
<1>4. RequestedStopsAreTold'
  <2> SUFFICES ASSUME wanted \in {"down", "acked"}, status = "Stopped", power # "none"
               PROVE  ReadyCondition(Instance, seen) = "ContainerStopped"
    BY <1>2, InstanceIsItsParts DEF RequestedStopsAreTold
  <2>1. intent BY DEF InstanceInv, MarkerIsKept
  <2> QED BY <1>1, <2>1, ReasonsMean, InstanceIsItsParts
<1> QED BY <1>3, <1>4

(* The observer's steps leave the instance and the driver alone. *)
LEMMA InstanceUntouched ==
    ASSUME StatusInv, UNCHANGED <<up, instance, stopJob, driver>>,
           announced' \in BOOLEAN, Told', SleepsOnARestart', ToldInv'
    PROVE  StatusInv'
<1>1. Parts /\ Rest BY TypeOKSplits DEF StatusInv, InstanceInv
<1>2. Parts' BY <1>1 DEF Parts, instance
<1>3. Rest' BY <1>1 DEF Rest, driver
<1>4. TypeOK' BY <1>2, <1>3, TypeOKSplits
<1>5. RunningIsRecorded' /\ MarkerIsKept'
  BY DEF StatusInv, InstanceInv, RunningIsRecorded, MarkerIsKept, instance, driver
<1> QED BY <1>4, <1>5 DEF StatusInv, InstanceInv

(* A report of an instance, with the three facts about it, is enough. *)
LEMMA TellingEnds ==
    ASSUME StatusInv, UNCHANGED <<up, instance, stopJob, driver>>, announced' \in BOOLEAN,
           NEW i \in Instances, NEW seen \in {"Discovered", "Live"},
           NEW reread \in {"done", "failed", "none"}, Tell(i, seen, reread),
           first' \in Instances \cup {Nothing}, ToldInv'
    PROVE  StatusInv'
<1>1. told' \in Reports /\ told' # Nothing /\ pc' = "told" BY TellingIsTyped
<1>2. Told' BY <1>1 DEF Told
<1>3. SleepsOnARestart' BY <1>1 DEF SleepsOnARestart
<1> QED BY <1>2, <1>3, InstanceUntouched

(* GetSandbox tells at once only what does not look like a stop by LXD. *)
LEMMA GetSandboxKeepsStatusInv == StatusInv /\ GetSandbox => StatusInv'
<1> SUFFICES ASSUME StatusInv, GetSandbox PROVE StatusInv' OBVIOUS
<1>1. /\ InstanceInv /\ Instance \in Instances /\ announced \in BOOLEAN
      /\ told = Nothing /\ MarkerIsKept
  BY DEF StatusInv, InstanceInv, TypeOK, GetSandbox
<1>2. announced' \in BOOLEAN /\ UNCHANGED <<up, instance, stopJob, driver>>
  BY <1>1 DEF GetSandbox
<1>3. first' = Instance /\ first' \in Instances BY <1>1 DEF GetSandbox
<1>4. CASE StoppedByTheRuntime(Instance)
  <2>1. pc' = "sleeping" /\ told' = Nothing BY <1>1, <1>4 DEF GetSandbox
  <2>2. first' # Nothing
    <3>1. DOMAIN first' # DOMAIN Nothing BY <1>3 DEF Instance, Nothing
    <3> QED BY <3>1
  <2>3. Told' BY <1>3, <2>1, <2>2 DEF Told
  <2>4. ~ intent BY <1>4, InstanceIsItsParts DEF StoppedByTheRuntime
  <2>5. first'.wanted \notin {"down", "acked"} BY <1>1, <1>3, <2>4, InstanceIsItsParts DEF MarkerIsKept
  <2>6. SleepsOnARestart' BY <1>3, <1>4, <2>5 DEF SleepsOnARestart, StoppedByTheRuntime
  <2>7. ToldInv'
    BY <2>1 DEF ToldInv, RestartIsConfirmed, RuntimeStopsAreTold, RequestedStopsAreTold
  <2> QED BY <1>2, <2>3, <2>6, <2>7, InstanceUntouched
<1>5. CASE ~ StoppedByTheRuntime(Instance)
  <2>1. Tell(Instance, "Discovered", "none") BY <1>5 DEF GetSandbox
  <2>2. RuntimeStopsAreTold' /\ RequestedStopsAreTold' BY <1>1, <2>1, TellingTheInstance
  <2>3. told'.reason = ReadyCondition(Instance, "Discovered") BY <1>1, <2>1, TellingIsTyped
  <2>4. told'.reason # "ContainerRuntimeRestart" BY <1>1, <1>5, <2>3, ReasonsMean
  <2>5. ToldInv' BY <2>2, <2>4 DEF ToldInv, RestartIsConfirmed
  <2> QED BY <1>1, <1>2, <1>3, <2>1, <2>5, TellingEnds
<1> QED BY <1>4, <1>5

(* The second read is of a stop by LXD, or of one that came after the wait *)
(* began; the first one, when it is kept, was of no exit.                  *)
LEMMA ConfirmKeepsStatusInv == StatusInv /\ ConfirmRuntimeRestart => StatusInv'
<1> SUFFICES ASSUME StatusInv, ConfirmRuntimeRestart PROVE StatusInv' OBVIOUS
<1>1. /\ InstanceInv /\ Instance \in Instances /\ announced \in BOOLEAN
      /\ first \in Instances /\ StoppedByTheRuntime(first) /\ first.wanted \notin {"down", "acked"}
  BY DEF StatusInv, InstanceInv, TypeOK, ConfirmRuntimeRestart, SleepsOnARestart
<1>2. /\ announced' \in BOOLEAN /\ UNCHANGED <<up, instance, stopJob, driver>>
      /\ first' = first /\ first' \in Instances
  BY <1>1 DEF ConfirmRuntimeRestart
<1>3. CASE Tell(Instance, "Discovered", "done")
  <2>1. RuntimeStopsAreTold' /\ RequestedStopsAreTold' BY <1>1, <1>3, TellingTheInstance
  <2>2. told'.reason = ReadyCondition(Instance, "Discovered") /\ told'.of = Instance
    BY <1>1, <1>3, TellingIsTyped
  <2>3. RestartIsConfirmed'
    <3> SUFFICES ASSUME told'.reason = "ContainerRuntimeRestart", cause # "runtime"
                 PROVE  told'.of.stops # first'.stops
      BY <2>2, InstanceIsItsParts DEF RestartIsConfirmed
    <3>1. StoppedByTheRuntime(Instance) BY <1>1, <2>2, ReasonsMean
    <3>2. Finishing BY <3>1, InstanceIsItsParts DEF StoppedByTheRuntime, Finishing
    <3>3. stops # first.stops BY <3>2 DEF ConfirmRuntimeRestart
    <3> QED BY <1>2, <2>2, <3>3, InstanceIsItsParts
  <2> QED BY <1>1, <1>2, <1>3, <2>1, <2>3, TellingEnds DEF ToldInv
<1>4. CASE Tell(first, "Discovered", "failed")
  <2>1. /\ told'.reason = ReadyCondition(first, "Discovered") /\ told'.of = first
        /\ told'.reread = "failed"
    BY <1>1, <1>4, TellingIsTyped
  <2>2. told'.reason # "ContainerExited" BY <1>1, <2>1, ReasonsMean
  <2>3. ToldInv'
    BY <1>1, <2>1, <2>2
       DEF ToldInv, RestartIsConfirmed, RuntimeStopsAreTold, RequestedStopsAreTold
  <2> QED BY <1>1, <1>2, <1>4, <2>3, TellingEnds
<1> QED BY <1>3, <1>4 DEF ConfirmRuntimeRestart

LEMMA WatcherKeepsStatusInv == StatusInv /\ (TakeEvent \/ ReadOnEvent) => StatusInv'
<1> SUFFICES ASSUME StatusInv, TakeEvent \/ ReadOnEvent PROVE StatusInv' OBVIOUS
<1>1. /\ InstanceInv /\ Instance \in Instances /\ announced \in BOOLEAN
      /\ told = Nothing /\ first \in Instances \cup {Nothing}
  BY DEF StatusInv, InstanceInv, TypeOK, TakeEvent, ReadOnEvent
<1>2. /\ announced' \in BOOLEAN /\ UNCHANGED <<up, instance, stopJob, driver>>
      /\ first' = first
  BY <1>1 DEF TakeEvent, ReadOnEvent
<1>3. CASE pc' \in {"event", "idle"} /\ told' = told
  <2>1. Told' /\ SleepsOnARestart' BY <1>1, <1>2, <1>3 DEF Told, SleepsOnARestart
  <2>2. ToldInv'
    BY <1>1, <1>3 DEF ToldInv, RestartIsConfirmed, RuntimeStopsAreTold, RequestedStopsAreTold
  <2> QED BY <1>2, <2>1, <2>2, InstanceUntouched
<1>4. CASE Tell(Instance, "Live", "none")
  <2>1. RuntimeStopsAreTold' /\ RequestedStopsAreTold' BY <1>1, <1>4, TellingTheInstance
  <2>2. told'.reason = ReadyCondition(Instance, "Live") BY <1>1, <1>4, TellingIsTyped
  <2>3. told'.reason # "ContainerRuntimeRestart" BY <1>1, <2>2, ReasonsMean
  <2>4. ToldInv' BY <2>1, <2>3 DEF ToldInv, RestartIsConfirmed
  <2> QED BY <1>1, <1>2, <1>4, <2>4, TellingEnds
<1> QED BY <1>3, <1>4 DEF TakeEvent, ReadOnEvent

-----------------------------------------------------------------------------
LEMMA StatusInvIsInvariant == Spec => []StatusInv
<1>1. Init => StatusInv BY InitEstablishesStatusInv
<1>2. StatusInv /\ [Next]_vars => StatusInv'
  <2> SUFFICES ASSUME StatusInv, [Next]_vars PROVE StatusInv' OBVIOUS
  <2>1. CASE Next
    BY <2>1, LxdKeepsStatusInv, DriverKeepsStatusInv, GetSandboxKeepsStatusInv,
       ConfirmKeepsStatusInv, WatcherKeepsStatusInv DEF Next, Observe
  <2>2. CASE UNCHANGED vars
    <3>1. UNCHANGED observer /\ Parts /\ Rest /\ RunningIsRecorded /\ MarkerIsKept
      BY <2>2, TypeOKSplits DEF vars, observer, StatusInv, InstanceInv
    <3>2. Parts' /\ Rest' BY <2>2, <3>1 DEF vars, Parts, Rest
    <3>3. RunningIsRecorded' /\ MarkerIsKept' BY <2>2, <3>1 DEF vars, RunningIsRecorded, MarkerIsKept
    <3> QED BY <3>1, <3>2, <3>3, ObserverUntouched
  <2> QED BY <2>1, <2>2
<1> QED BY <1>1, <1>2, PTL DEF Spec

(* The state stays well typed: in particular the observer has told         *)
(* something exactly when it has answered (to_driver_sandbox).             *)
THEOREM StatusTypeCorrect == Spec => []TypeOK
<1>1. StatusInv => TypeOK BY DEF StatusInv, InstanceInv
<1> QED BY <1>1, StatusInvIsInvariant, PTL

(* However often the sandbox goes down, an exit or a requested stop is     *)
(* told as a stop by LXD only if the second read of                        *)
(* confirm_runtime_restart failed or the sandbox went down once more.      *)
THEOREM RestartsAreConfirmed == Spec => []RestartIsConfirmed
<1>1. StatusInv => RestartIsConfirmed BY DEF StatusInv, ToldInv
<1> QED BY <1>1, StatusInvIsInvariant, PTL

(* A stop by LXD is never told as an exit by GetSandbox or ListSandboxes   *)
(* (ready_condition).                                                      *)
THEOREM RuntimeStopsTold == Spec => []RuntimeStopsAreTold
<1>1. StatusInv => RuntimeStopsAreTold BY DEF StatusInv, ToldInv
<1> QED BY <1>1, StatusInvIsInvariant, PTL

(* A stop whose marker is set is told as requested, while it is under way  *)
(* and once it was acknowledged, until a StartSandbox is made              *)
(* (set_stop_intent, clear_stop_intent).                                   *)
THEOREM RequestedStopsTold == Spec => []RequestedStopsAreTold
<1>1. StatusInv => RequestedStopsAreTold BY DEF StatusInv, ToldInv
<1> QED BY <1>1, StatusInvIsInvariant, PTL

============================================================================
