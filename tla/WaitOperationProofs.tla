------------------------ MODULE WaitOperationProofs ------------------------
(***************************************************************************)
(* wait_operation never misreports how an operation ended, however often   *)
(* the transport fails.                                                    *)
(***************************************************************************)
EXTENDS WaitOperation, TLAPS

(* The end that an unread event announces is the end the operation had,    *)
(* and the fetch that follows a success event is of a success.             *)
EventsAreTrue ==
    /\ \A k \in 1..Len(events) : events[k] \in Terminal => op = events[k]
    /\ pc = "fetch" => op = "Success"

WaitInv == TypeOK /\ EventsAreTrue /\ AnswersAreTrue

-----------------------------------------------------------------------------
LEMMA EmptyQueue == <<>> \in Seq(Statuses) /\ Len(<<>>) = 0
OBVIOUS

LEMMA InitEstablishesWaitInv == Init => WaitInv
<1> SUFFICES ASSUME Init PROVE WaitInv OBVIOUS
<1>1. TypeOK
  <2>1. events \in Seq(Statuses) BY EmptyQueue DEF Init
  <2>2. faults \in 0..MaxFaults BY WaitAssumption DEF Init
  <2> QED BY <2>1, <2>2 DEF Init, TypeOK, Labels
<1>2. EventsAreTrue /\ AnswersAreTrue
  BY EmptyQueue DEF Init, EventsAreTrue, AnswersAreTrue
<1> QED BY <1>1, <1>2 DEF WaitInv

(* Appending, dropping the head and cutting the tail of a sequence of      *)
(* statuses leave a sequence of statuses whose members were there before.  *)
LEMMA QueueSteps ==
    ASSUME NEW s \in Seq(Statuses)
    PROVE  /\ \A x \in Statuses :
                 /\ Append(s, x) \in Seq(Statuses)
                 /\ Len(Append(s, x)) = Len(s) + 1
                 /\ \A k \in 1..Len(s) : Append(s, x)[k] = s[k]
                 /\ Append(s, x)[Len(s) + 1] = x
           /\ \A n \in 0..Len(s) :
                 /\ SubSeq(s, 1, n) \in Seq(Statuses)
                 /\ Len(SubSeq(s, 1, n)) = n
                 /\ \A k \in 1..n : SubSeq(s, 1, n)[k] = s[k]
           /\ s # <<>> =>
                 /\ Head(s) \in Statuses /\ Head(s) = s[1] /\ 1 \in 1..Len(s)
                 /\ Tail(s) \in Seq(Statuses)
                 /\ Len(Tail(s)) = Len(s) - 1
                 /\ \A k \in 1..Len(Tail(s)) : Tail(s)[k] = s[k + 1]
<1>1. \A x \in Statuses :
         /\ Append(s, x) \in Seq(Statuses)
         /\ Len(Append(s, x)) = Len(s) + 1
         /\ \A k \in 1..Len(s) : Append(s, x)[k] = s[k]
         /\ Append(s, x)[Len(s) + 1] = x
  OBVIOUS
<1>2. \A n \in 0..Len(s) :
         /\ SubSeq(s, 1, n) \in Seq(Statuses)
         /\ Len(SubSeq(s, 1, n)) = n
         /\ \A k \in 1..n : SubSeq(s, 1, n)[k] = s[k]
  OBVIOUS
<1>3. s # <<>> =>
         /\ Head(s) \in Statuses /\ Head(s) = s[1] /\ 1 \in 1..Len(s)
         /\ Tail(s) \in Seq(Statuses)
         /\ Len(Tail(s)) = Len(s) - 1
         /\ \A k \in 1..Len(Tail(s)) : Tail(s)[k] = s[k + 1]
  OBVIOUS
<1> QED BY <1>1, <1>2, <1>3

(* What LXD and the network do. *)
LEMMA WorldKeepsWaitInv ==
    ASSUME WaitInv, Progress \/ Finish \/ Purge \/ BreakStream
    PROVE  WaitInv'
<1> USE DEF WaitInv
<1>0. events \in Seq(Statuses) BY DEF TypeOK
<1>1. CASE Progress
  <2>1. TypeOK'
    BY <1>0, <1>1, QueueSteps DEF Progress, Announce, TypeOK, Statuses, lxd
  <2>2. EventsAreTrue' /\ AnswersAreTrue'
    BY <1>0, <1>1, QueueSteps
       DEF Progress, Announce, EventsAreTrue, AnswersAreTrue, Statuses, Terminal, Failed, lxd
  <2> QED BY <2>1, <2>2
<1>2. CASE Finish
  <2>1. op' \in Statuses /\ op = "Running" BY <1>2 DEF Finish, Statuses
  <2>2. TypeOK'
    BY <1>0, <1>2, <2>1, QueueSteps DEF Finish, Announce, TypeOK
  <2>3. EventsAreTrue' /\ AnswersAreTrue'
    BY <1>0, <1>2, <2>1, QueueSteps
       DEF Finish, Announce, EventsAreTrue, AnswersAreTrue, Terminal, Failed
  <2> QED BY <2>2, <2>3
<1>3. CASE Purge
  BY <1>3 DEF Purge, TypeOK, EventsAreTrue, AnswersAreTrue
<1>4. CASE BreakStream
  <2>1. PICK n \in 0..Len(events) : events' = SubSeq(events, 1, n) BY <1>4 DEF BreakStream
  <2>2. TypeOK'
    BY <1>0, <1>4, <2>1, QueueSteps, WaitAssumption DEF BreakStream, Fault, TypeOK, lxd
  <2>3. EventsAreTrue' /\ AnswersAreTrue'
    BY <1>0, <1>4, <2>1, QueueSteps DEF BreakStream, EventsAreTrue, AnswersAreTrue, lxd
  <2> QED BY <2>2, <2>3
<1> QED BY <1>1, <1>2, <1>3, <1>4

(* reconcile_operation, wherever it is called. *)
LEMMA ReconcileKeepsWaitInv ==
    ASSUME WaitInv, NEW label \in {"reconcile", "recheck", "check"},
           NEW pending \in {"drain", "pause", "poll"}, Reconcile(label, pending)
    PROVE  WaitInv'
<1> USE DEF WaitInv
<1>1. /\ UNCHANGED <<op, purged, stream, events>>
      /\ faults' \in 0..MaxFaults
      /\ \/ pc' = "returned" /\ answer' = "ok" /\ op = "Success"
         \/ pc' = "returned" /\ answer' = "operation_failed" /\ op \in Failed
         \/ pc' = "returned" /\ answer' = "error"
         \/ pc' = pending /\ answer' = answer
  BY WaitAssumption
     DEF Reconcile, Return, Goto, Fault, TypeOK, Statuses, Terminal, Failed, lxd
<1>2. pc = label BY DEF Reconcile
<1>2a. blind' \in BOOLEAN
  <2>1. blind \in BOOLEAN BY DEF TypeOK
  <2>2. blind' = blind \/ blind' = (blind \/ pending = "drain") BY DEF Reconcile
  <2> QED BY ONLY <2>1, <2>2
<1>3. TypeOK' BY <1>1, <1>2, <1>2a DEF TypeOK, Labels, Answers
<1>4. EventsAreTrue' /\ AnswersAreTrue'
  BY <1>1, <1>2 DEF EventsAreTrue, AnswersAreTrue, TypeOK, Failed
<1> QED BY <1>3, <1>4

LEMMA WaiterKeepsWaitInv ==
    ASSUME WaitInv, Waiter
    PROVE  WaitInv'
<1> USE DEF WaitInv
<1>0. events \in Seq(Statuses) BY DEF TypeOK
<1>1. CASE Subscribe
  <2>1. /\ events' \in Seq(Statuses)
        /\ \A k \in 1..Len(events') : events'[k] \in Terminal => op = events'[k]
    <3>1. events' = <<>> \/ events' = events BY <1>1 DEF Subscribe
    <3>2. CASE events' = <<>>
      <4>1. Len(events') = 0 /\ events' \in Seq(Statuses) BY <3>2, EmptyQueue
      <4> QED BY <4>1
    <3>3. CASE events' = events BY <1>0, <3>3 DEF EventsAreTrue
    <3> QED BY <3>1, <3>2, <3>3
  <2>2. /\ UNCHANGED <<op, purged>> /\ faults' \in 0..MaxFaults /\ blind' = FALSE
        /\ stream' \in {"closed", "open", "ended"}
        /\ \/ pc' \in {"reconcile", "poll"} /\ answer' = answer
           \/ pc' = "returned" /\ answer' = "error"
    BY <1>1, WaitAssumption DEF Subscribe, Goto, Return, Fault, TypeOK, lxd
  <2>3. pc = "subscribe" BY <1>1 DEF Subscribe
  <2> QED BY <2>1, <2>2, <2>3 DEF TypeOK, EventsAreTrue, AnswersAreTrue, Labels, Answers
<1>2. CASE Reconcile("reconcile", "drain") BY <1>2, ReconcileKeepsWaitInv
<1>3. CASE Reconcile("recheck", "pause") BY <1>3, ReconcileKeepsWaitInv
<1>4. CASE Reconcile("check", "poll") BY <1>4, ReconcileKeepsWaitInv
<1>5. CASE Drain
  <2>1. /\ Head(events) \in Statuses
        /\ Head(events) \in Terminal => op = Head(events)
        /\ events' \in Seq(Statuses)
    BY <1>0, <1>5, QueueSteps DEF Drain, EventsAreTrue
  <2>2. \A k \in 1..Len(events') : events'[k] \in Terminal => op = events'[k]
    BY <1>0, <1>5, QueueSteps DEF Drain, EventsAreTrue
  <2>3. /\ UNCHANGED <<op, purged, stream, faults, blind>>
        /\ \/ pc' = "fetch" /\ answer' = answer /\ op = "Success"
           \/ pc' = "returned" /\ answer' = "operation_failed" /\ op \in Failed
           \/ pc' = "drain" /\ answer' = answer
    BY <1>5, <2>1 DEF Drain, Goto, Return, Statuses, Terminal, Failed, lxd
  <2>4. pc = "drain" BY <1>5 DEF Drain
  <2>5. TypeOK' BY <2>1, <2>3, <2>4 DEF TypeOK, Labels, Answers
  <2>6. EventsAreTrue' /\ AnswersAreTrue'
    BY <2>2, <2>3, <2>4 DEF EventsAreTrue, AnswersAreTrue, TypeOK, Failed
  <2> QED BY <2>5, <2>6
<1>6. CASE DrainEnds
  BY <1>6 DEF DrainEnds, Goto, TypeOK, EventsAreTrue, AnswersAreTrue, Labels, lxd
<1>7. CASE Fetch
  BY <1>7, WaitAssumption
     DEF Fetch, Return, Fault, TypeOK, EventsAreTrue, AnswersAreTrue, Labels, Answers, lxd
<1>8. CASE Pause
  BY <1>8 DEF Pause, Goto, TypeOK, EventsAreTrue, AnswersAreTrue, Labels, lxd
<1>9. CASE Poll
  BY <1>9, WaitAssumption
     DEF Poll, Goto, Return, Fault, TypeOK, EventsAreTrue, AnswersAreTrue, Labels, Answers,
         Terminal, Failed, lxd
<1> QED BY <1>1, <1>2, <1>3, <1>4, <1>5, <1>6, <1>7, <1>8, <1>9 DEF Waiter

LEMMA WaitInvariance == Spec => []WaitInv
<1>1. WaitInv /\ UNCHANGED vars => WaitInv'
  BY DEF vars, WaitInv, TypeOK, EventsAreTrue, AnswersAreTrue
<1>2. WaitInv /\ [Next]_vars => WaitInv'
  BY <1>1, WorldKeepsWaitInv, WaiterKeepsWaitInv DEF Next
<1> QED BY <1>2, InitEstablishesWaitInv, PTL DEF Spec

-----------------------------------------------------------------------------
(* wait_operation has an answer exactly when it has returned, and its      *)
(* state stays well typed.                                                 *)
THEOREM WaitTypeCorrect == Spec => []TypeOK
BY WaitInvariance, PTL DEF WaitInv

(* Whatever is lost, reordered with a reconnection or purged by LXD,       *)
(* wait_operation never says that an operation ended as it did not.        *)
THEOREM WaitAnswersTruly == Spec => []AnswersAreTrue
BY WaitInvariance, PTL DEF WaitInv

============================================================================
