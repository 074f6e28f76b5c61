--------------------------- MODULE WaitOperation ---------------------------
(***************************************************************************)
(* LxdClient::wait_operation: learn how one LXD operation ended, from a    *)
(* WebSocket event stream that may break and from REST requests that may   *)
(* fail, or, where there is no WebSocket, from REST alone.                 *)
(*                                                                         *)
(* Events of other operations and malformed frames are skipped by the code *)
(* and left out here.  The deadline that callers put around the wait is    *)
(* GiveUp of SandboxLifecycle.                                             *)
(***************************************************************************)
EXTENDS Naturals, Sequences

CONSTANTS
    MaxFaults,  \* bound: how often the transport or the API fails
    MaxQueue    \* bound: events that may wait in the stream

ASSUME WaitAssumption == MaxFaults \in Nat /\ MaxQueue \in Nat \ {0}

Failed == {"Failure", "Cancelled"}
Terminal == {"Success"} \cup Failed
Statuses == {"Running"} \cup Terminal

\* What wait_operation returns: Ok, OperationFailed, or another error.
Answers == {"ok", "operation_failed", "error"}

Labels == {"subscribe", "reconcile", "drain", "fetch", "recheck", "pause", "poll", "check",
           "returned"}

VARIABLES
    op,      \* the operation's status
    purged,  \* whether LXD has forgotten the finished operation
    stream,  \* the event stream: closed, open or ended
    events,  \* statuses announced on it and not read yet
    pc,      \* where wait_operation is
    answer,  \* what it returned
    faults,  \* number of failures so far
    blind    \* history: the look after the last subscription met a transport error

lxd == <<op, purged>>
vars == <<op, purged, stream, events, pc, answer, faults, blind>>

(* The wait has an answer exactly when it has returned, and no answer is   *)
(* an operation that still runs.                                           *)
TypeOK ==
    /\ op \in Statuses
    /\ purged \in BOOLEAN
    /\ stream \in {"closed", "open", "ended"}
    /\ events \in Seq(Statuses)
    /\ pc \in Labels
    /\ answer \in Answers \cup {"none"}
    /\ faults \in 0..MaxFaults
    /\ blind \in BOOLEAN
    /\ pc = "returned" <=> answer # "none"

(* The operation was just accepted, or is over already. *)
Init ==
    /\ op \in Statuses
    /\ purged = FALSE
    /\ stream = "closed" /\ events = <<>>
    /\ pc = "subscribe"
    /\ answer = "none"
    /\ faults = 0 /\ blind = FALSE

-----------------------------------------------------------------------------
(* LXD *)

Announce(status) == events' = IF stream = "open" THEN Append(events, status) ELSE events

Progress ==
    /\ op = "Running" /\ stream = "open" /\ Len(events) < MaxQueue
    /\ Announce("Running")
    /\ UNCHANGED <<lxd, stream, pc, answer, faults, blind>>

Finish ==
    /\ op = "Running"
    /\ op' \in Terminal
    /\ Announce(op')
    /\ UNCHANGED <<purged, stream, pc, answer, faults, blind>>

(* LXD keeps a finished operation for a few seconds. *)
Purge ==
    /\ op \in Terminal /\ ~ purged
    /\ purged' = TRUE
    /\ UNCHANGED <<op, stream, events, pc, answer, faults, blind>>

Fault == faults < MaxFaults /\ faults' = faults + 1

(* The stream ends or fails; what was in flight may be lost. *)
BreakStream ==
    /\ stream = "open"
    /\ Fault
    /\ stream' = "ended"
    /\ \E n \in 0..Len(events) : events' = SubSeq(events, 1, n)
    /\ UNCHANGED <<lxd, pc, answer, blind>>

-----------------------------------------------------------------------------
(* wait_operation *)

Return(a) == pc' = "returned" /\ answer' = a

Goto(label) == pc' = label /\ UNCHANGED answer

(* Mutant: a new stream is drained without asking for the status first. *)
SubscribeAndDrain ==
    /\ pc = "subscribe"
    /\ stream' = "open" /\ events' = <<>> /\ blind' = FALSE
    /\ Goto("drain")
    /\ UNCHANGED <<lxd, faults>>

(* Subscribe first, then look; without a WebSocket, poll. *)
Subscribe ==
    /\ pc = "subscribe"
    /\ blind' = FALSE
    /\ \/ stream' = "open" /\ events' = <<>> /\ Goto("reconcile") /\ UNCHANGED faults
       \/ Fault /\ (Goto("poll") \/ Return("error")) /\ UNCHANGED <<stream, events>>
    /\ UNCHANGED lxd

(* Mutant: the reply is returned whatever its status. *)
ReconcileTakesAny(label, pending) ==
    /\ pc = label
    /\ ~ purged
    /\ \/ op = "Success" /\ Return("ok")
       \/ op \in Failed /\ Return("operation_failed")
       \/ op = "Running" /\ Return("still_running")
    /\ UNCHANGED <<lxd, stream, events, faults, blind>>

(* reconcile_operation: a transport error counts as still pending, any     *)
(* other error, such as an operation LXD has forgotten, ends the wait.     *)
Reconcile(label, pending) ==
    /\ pc = label
    /\ \/ /\ ~ purged
          /\ \/ op = "Success" /\ Return("ok")
             \/ op \in Failed /\ Return("operation_failed")
             \/ op = "Running" /\ Goto(pending)
          /\ UNCHANGED <<faults, blind>>
       \/ purged /\ Return("error") /\ UNCHANGED <<faults, blind>>
       \/ Fault /\ Return("error") /\ UNCHANGED blind
       \/ Fault /\ Goto(pending) /\ blind' = (blind \/ pending = "drain")
    /\ UNCHANGED <<lxd, stream, events>>

(* One event: a success is fetched once more, a failure is final. *)
Drain ==
    /\ pc = "drain" /\ events # <<>>
    /\ events' = Tail(events)
    /\ LET status == Head(events)
       IN  \/ status = "Success" /\ Goto("fetch")
           \/ status \in Failed /\ Return("operation_failed")
           \/ status = "Running" /\ Goto("drain")
    /\ UNCHANGED <<lxd, stream, faults, blind>>

DrainEnds ==
    /\ pc = "drain" /\ events = <<>> /\ stream = "ended"
    /\ Goto("recheck")
    /\ UNCHANGED <<lxd, stream, events, faults, blind>>

(* The get_operation after a success event: its errors are returned. *)
Fetch ==
    /\ pc = "fetch"
    /\ \/ ~ purged /\ Return("ok") /\ UNCHANGED faults
       \/ purged /\ Return("error") /\ UNCHANGED faults
       \/ Fault /\ Return("error")
    /\ UNCHANGED <<lxd, stream, events, blind>>

Pause ==
    /\ pc = "pause"
    /\ Goto("subscribe")
    /\ stream' = "closed" /\ events' = <<>>
    /\ UNCHANGED <<lxd, faults, blind>>

(* Mutant: an answer to the long poll is taken for success. *)
PollTrusts ==
    /\ pc = "poll"
    /\ ~ purged /\ op \in Terminal
    /\ Return("ok")
    /\ UNCHANGED <<lxd, stream, events, faults, blind>>

(* wait_operation_rest: LXD answers the long poll when the operation ends. *)
Poll ==
    /\ pc = "poll"
    /\ \/ /\ ~ purged /\ op \in Terminal
          /\ Return(IF op \in Failed THEN "operation_failed" ELSE "ok")
          /\ UNCHANGED faults
       \/ purged /\ Return("error") /\ UNCHANGED faults
       \/ Fault /\ (Goto("check") \/ Return("error"))
    /\ UNCHANGED <<lxd, stream, events, blind>>

Waiter ==
    \/ Subscribe
    \/ Reconcile("reconcile", "drain") \/ Reconcile("recheck", "pause")
    \/ Drain \/ DrainEnds \/ Fetch \/ Pause
    \/ Poll \/ Reconcile("check", "poll")

Next == Progress \/ Finish \/ Purge \/ BreakStream \/ Waiter

(* The runtime polls the wait; LXD need not finish the operation. *)
Spec == Init /\ [][Next]_vars
FairSpec == Spec /\ WF_vars(Waiter)

-----------------------------------------------------------------------------
(* The answer is true: Ok only if the operation succeeded, OperationFailed *)
(* only if it failed or was cancelled, whichever of the event, the REST    *)
(* reply and the long poll told.                                           *)
AnswersAreTrue ==
    /\ answer = "ok" => op = "Success"
    /\ answer = "operation_failed" => op \in Failed

(* A finished operation is answered for: its end cannot fall between the   *)
(* subscription and the look that follows it, nor be lost with a broken    *)
(* stream, as the comments of wait_operation say (operations.rs, "to close *)
(* the race window between subscribe and check") and of                    *)
(* reconcile_operation ("so the outer loop retries").                      *)
FinishedIsAnswered == op \in Terminal ~> pc = "returned"

(* The wait drains a stream on which nothing more will come, after a look  *)
(* that met a transport error.                                             *)
Stranded ==
    /\ pc = "drain" /\ blind
    /\ op \in Terminal
    /\ stream = "open" /\ events = <<>>

(* A finished operation is answered for, however often streams break and   *)
(* requests fail, unless the wait is stranded for good: a transport error  *)
(* of the look right after a subscription is the only one that can cost    *)
(* the answer (wait_operation, reconcile_operation).                       *)
AnsweredUnlessStranded == FinishedIsAnswered \/ <>[]Stranded

============================================================================
