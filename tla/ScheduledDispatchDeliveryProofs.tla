----------------- MODULE ScheduledDispatchDeliveryProofs -----------------
(***************************************************************************)
(* What ScheduledDispatch promises about deliveries, for every value of    *)
(* the constants: terminal rows stay, an approval is spent once, the       *)
(* caller's record is true, the queue implements DeliveryPromise, and it   *)
(* is the dispatcher that SendApprovals assumes.                           *)
(* Each invariant builds on Safe of ScheduledDispatchProofs.               *)
(***************************************************************************)
EXTENDS ScheduledDispatchProofs

\* A held row: it is one of the table's, in flight or reclaimed, and no other
\* invocation holds it.
LEMMA InFlight ==
  ASSUME TypeOK, Safe, NEW w \in Workers, pc[w] \in Holding
  PROVE  /\ cur[w] \in Rows /\ cur[w] # NoRow
         /\ status[cur[w]] \in {"sending", "error"}
         /\ IsMarker(cur[w]) => ApprovalOf[cur[w]] \in Approvals
         /\ \A v \in Workers : pc[v] \in Holding /\ cur[v] = cur[w] => v = w
  BY RowsAreOrdered, ApprovalsAssumption DEF Safe, HeldRow, SingleOwner, IsMarker

\* The history of transmissions only grows, and only at the row that is sent.
LEMMA Grows ==
  ASSUME TypeOK, NEW c \in Rows, Transmit(c) \/ UNCHANGED transmitted
  PROVE  \A r \in Rows : /\ transmitted[r] > 0 => transmitted'[r] > 0
                         /\ r # c => transmitted'[r] = transmitted[r]
  <1>1. transmitted \in [Rows -> Nat]
    BY DEF TypeOK
  <1> QED
    BY <1>1 DEF Transmit

\* A record is settled once: only one that is still pending takes an outcome.
LEMMA Completed ==
  ASSUME TypeOK, NEW a \in Approvals, NEW outcome, CompleteApproved(a, outcome)
  PROVE  \A b \in Approvals :
           \/ ledger'[b] = ledger[b]
           \/ b = a /\ ledger[b] = "pending_approval" /\ ledger'[b] = outcome
  <1>1. ledger \in [Approvals -> {"pending_approval", "succeeded", "failed", "unknown"}]
    BY DEF TypeOK
  <1> QED
    BY <1>1 DEF CompleteApproved

(***************************************************************************)
(* Terminal rows stay.                                                     *)
(***************************************************************************)
\* An invocation's row is 'sending' and was claimed no longer ago than the
\* invocation has lived, so the reclaim never touches it.
Timed ==
  /\ \A w \in Workers : pc[w] \in Holding =>
       status[cur[w]] = "sending" /\ since[cur[w]] <= life[w]
  /\ \A w \in Workers : life[w] <= MaxInvocation

\* The reclaim and the clock respect the rows in flight.
LEMMA TimedStep ==
  TypeOK /\ TypeOK' /\ Safe /\ Safe' /\ Timed /\ [Next]_vars =>
    Timed'
<1> SUFFICES ASSUME TypeOK, TypeOK', Safe, Safe', Timed, [Next]_vars PROVE Timed'
  OBVIOUS
<1> USE RowsAreOrdered, ApprovalsAssumption, LimitsAssumption, InvocationsEndBeforeReclaim
<1> USE DEF Timed, HeldRow, SingleOwner, Safe, TypeOK, Holding, BeforeSend,
            AfterSend, Failing, rowVars, approvalVars, localVars, worldVars, historyVars
<1>1. ASSUME NEW r \in Rows, ScheduleSend(r) PROVE Timed'
  BY <1>1 DEF ScheduleSend, Insert, KeepsOrder
<1>2. ASSUME NEW r \in Rows, InsertMarker(r) PROVE Timed'
  BY <1>2 DEF InsertMarker, Insert, KeepsOrder
<1>3. ASSUME NEW r \in Rows, CancelRead(r) PROVE Timed'
  BY <1>3 DEF CancelRead
<1>4. ASSUME NEW r \in Rows, CancelWrite(r) PROVE Timed'
  BY <1>4 DEF CancelWrite, Cancellable
<1>5. ASSUME NEW r \in Rows, Freeze(r) PROVE Timed'
  BY <1>5 DEF Freeze, Fault
<1>6. ASSUME NEW r \in Rows, Unfreeze(r) PROVE Timed'
  BY <1>6 DEF Unfreeze
<1>7. ASSUME NEW w \in Workers, Reclaim(w) PROVE Timed'
  <2> USE <1>7 DEF Reclaim, Goto
  <2>1. ASSUME NEW v \in Workers, pc[v] \in Holding PROVE v # w /\ ~IsStale(cur[v])
    <3>1. cur[v] \in Rows /\ since[cur[v]] \in Nat /\ life[v] \in Nat
      BY <2>1, InFlight
    <3>2. since[cur[v]] <= life[v] /\ life[v] <= MaxInvocation
      BY <2>1
    <3>3. v # w
      BY <2>1
    <3> HIDE DEF TypeOK, Safe, Timed, HeldRow, SingleOwner
    <3> QED
      BY <3>1, <3>2, <3>3 DEF IsStale
  <2>2. \A v \in Workers : pc'[v] \in Holding => pc[v] \in Holding /\ UNCHANGED <<cur[v], life[v]>>
    OBVIOUS
  <2>3. \A v \in Workers : pc[v] \in Holding =>
          status'[cur[v]] = status[cur[v]] /\ since'[cur[v]] = since[cur[v]]
    BY <2>1
  <2> QED
    BY <2>2, <2>3
<1>8. ASSUME NEW w \in Workers, ReclaimFails(w) PROVE Timed'
  BY <1>8 DEF ReclaimFails, Goto, Fault
<1>9. ASSUME NEW w \in Workers, Fetch(w) PROVE Timed'
  BY <1>9 DEF Fetch, Goto, OldestDue, Due
<1>10. ASSUME NEW w \in Workers, FetchNothing(w) PROVE Timed'
  BY <1>10 DEF FetchNothing, Stop, ForgetRow, Goto, Fault, NoFault
<1>11. ASSUME NEW w \in Workers, Claim(w) PROVE Timed'
  BY <1>11 DEF Claim, Goto, FirstOf, TakeFrom, Claimable
<1>12. ASSUME NEW w \in Workers, Skip(w) PROVE Timed'
  BY <1>12 DEF Skip, FirstOf, TakeFrom, Fault, NoFault
<1>13. ASSUME NEW w \in Workers, Finish(w) PROVE Timed'
  BY <1>13 DEF Finish, Stop, ForgetRow, Goto
<1>14. ASSUME NEW w \in Workers, PassGates(w) PROVE Timed'
  BY <1>14 DEF PassGates, Goto, RowStep
<1>15. ASSUME NEW w \in Workers, RefuseAtGate(w) PROVE Timed'
  BY <1>15 DEF RefuseAtGate, Throw, Goto, RowStep
<1>16. ASSUME NEW w \in Workers, ReadApproval(w) PROVE Timed'
  BY <1>16 DEF ReadApproval, Throw, Goto, RowStep
<1>17. ASSUME NEW w \in Workers, Bind(w) PROVE Timed'
  BY <1>17 DEF Bind, Throw, Goto, RowStep, Bindable
<1>18. ASSUME NEW w \in Workers, BindFails(w) PROVE Timed'
  BY <1>18 DEF BindFails, Throw, Goto, RowStep, Fault, Bindable
<1>19. ASSUME NEW w \in Workers, PassKey(w) PROVE Timed'
  BY <1>19 DEF PassKey, Goto, RowStep
<1>20. ASSUME NEW w \in Workers, RefuseNarrowedKey(w) PROVE Timed'
  BY <1>20 DEF RefuseNarrowedKey, Throw, Goto, RowStep
<1>21. ASSUME NEW w \in Workers, BrakeAllows(w) PROVE Timed'
  BY <1>21 DEF BrakeAllows, Goto, RowStep
<1>22. ASSUME NEW w \in Workers, BrakeFailsOpen(w) PROVE Timed'
  BY <1>22 DEF BrakeFailsOpen, Goto, RowStep, Fault
<1>23. ASSUME NEW w \in Workers, BrakeHolds(w) PROVE Timed'
  BY <1>23 DEF BrakeHolds, Throw, Goto, RowStep
<1>24. ASSUME NEW w \in Workers, SendDirect(w) PROVE Timed'
  BY <1>24 DEF SendDirect, Throw, Goto, SendStep, Transmit
<1>25. ASSUME NEW w \in Workers, SendRerun(w) PROVE Timed'
  BY <1>25 DEF SendRerun, Goto, SendStep, Transmit
<1>26. ASSUME NEW w \in Workers, SettleRerun(w) PROVE Timed'
  BY <1>26 DEF SettleRerun, Throw, Goto, RowStep, CompleteApproved, RerunOutcome
<1>27. ASSUME NEW w \in Workers, SettleSent(w) PROVE Timed'
  BY <1>27 DEF SettleSent, Goto, RowStep, CompleteApproved
<1>28. ASSUME NEW w \in Workers, MarkSent(w) PROVE Timed'
  BY <1>28 DEF MarkSent, WriteBack, NextRow, ForgetRow, Goto
<1>29. ASSUME NEW w \in Workers, Defer(w) PROVE Timed'
  BY <1>29 DEF Defer, Deferrable, WriteBack, NextRow, ForgetRow, Goto
<1>30. ASSUME NEW w \in Workers, Fail(w) PROVE Timed'
  BY <1>30 DEF Fail, Deferrable, Goto, RowStep
<1>31. ASSUME NEW w \in Workers, SettleFailed(w) PROVE Timed'
  BY <1>31 DEF SettleFailed, Goto, RowStep, CompleteApproved, FailureOutcome
<1>32. ASSUME NEW w \in Workers, MarkError(w) PROVE Timed'
  BY <1>32 DEF MarkError, WriteBack, NextRow, ForgetRow, Goto
<1>33. ASSUME NEW w \in Workers, LoseWriteBack(w) PROVE Timed'
  BY <1>33 DEF LoseWriteBack, Deferrable, NextRow, ForgetRow, Goto, Fault
<1>34. ASSUME NEW w \in Workers, LoseSettlement(w) PROVE Timed'
  BY <1>34 DEF LoseSettlement, Throw, Goto, RowStep, Fault
<1>35. ASSUME NEW w \in Workers, Crash(w) PROVE Timed'
  BY <1>35 DEF Crash, Stop, ForgetRow, Goto, Fault
<1>36. CASE Tick
  <2> USE <1>36 DEF Tick
  <2>1. \A v \in Workers : life'[v] <= MaxInvocation
    <3> TAKE v \in Workers
    <3>1. CASE pc[v] = "idle"
      BY <3>1
    <3>2. CASE pc[v] # "idle"
      BY <3>2
    <3> QED
      BY <3>1, <3>2
  <2>2. ASSUME NEW v \in Workers, pc'[v] \in Holding
        PROVE  status'[cur'[v]] = "sending" /\ since'[cur'[v]] <= life'[v]
    <3>1. /\ cur[v] \in Rows /\ cur'[v] = cur[v]
          /\ status[cur[v]] = "sending" /\ since[cur[v]] <= life[v]
      BY <2>2
    <3>2. life'[v] = life[v] + 1
      BY <2>2
    <3>3. since'[cur[v]] \in {since[cur[v]], since[cur[v]] + 1} /\ status' = status
      BY <3>1
    <3>4. since[cur[v]] \in Nat /\ life[v] \in Nat
      <4> HIDE DEF Safe, HeldRow, SingleOwner, Tick
      <4> QED
        BY <3>1
    <3> HIDE DEF TypeOK, Safe, Timed, HeldRow, SingleOwner, Tick
    <3> QED
      BY <3>1, <3>2, <3>3, <3>4
  <2> QED
    BY <2>1, <2>2
<1>37. ASSUME NEW w \in Workers, ClaimLost(w) PROVE Timed'
  BY <1>37 DEF ClaimLost, FirstOf, TakeFrom, Claimable, Fault
<1>38. CASE UNCHANGED vars
  BY <1>38 DEF vars, rowVars, approvalVars, localVars, worldVars, historyVars
<1> QED
  BY <1>1, <1>2, <1>3, <1>4, <1>5, <1>6, <1>7, <1>8, <1>9, <1>10, <1>11, <1>12,
     <1>13, <1>14, <1>15, <1>16, <1>17, <1>18, <1>19, <1>20, <1>21, <1>22, <1>23, <1>24,
     <1>25, <1>26, <1>27, <1>28, <1>29, <1>30, <1>31, <1>32, <1>33, <1>34, <1>35, <1>36,
     <1>37, <1>38
     DEF Next, Write, Step, Incident


\* Every reachable state is typed, safe and timed.
LEMMA TimedAlways == Spec => [](TypeOK /\ Safe /\ Timed)
<1>1. Init => Timed
  BY LimitsAssumption DEF Init, Timed, Holding, BeforeSend, AfterSend, Failing
<1>2. TypeOK /\ Safe /\ Timed /\ [Next]_vars => (TypeOK /\ Safe /\ Timed)'
  BY TypeStep, SafeStep, TimedStep
<1> QED
  BY <1>1, <1>2, SafeInit, PTL DEF Spec

\* Once a row is 'sent', 'error' or 'cancelled' no step changes its status:
\* whoever writes by id alone holds a row that is still 'sending'.
LEMMA TerminalStep ==
  TypeOK /\ Safe /\ Timed /\ [Next]_vars =>
    \A r \in Rows : status[r] \in Terminal => status'[r] = status[r]
<1> SUFFICES ASSUME TypeOK, Safe, Timed, [Next]_vars, NEW r \in Rows, status[r] \in Terminal
             PROVE  status'[r] = status[r]
  OBVIOUS
<1> USE DEF Terminal, rowVars, approvalVars, localVars, worldVars, historyVars
<1>1. CASE UNCHANGED status
  BY <1>1
<1>2. ASSUME NEW s \in Rows, ScheduleSend(s) \/ InsertMarker(s) PROVE status'[r] = status[r]
  BY <1>2 DEF ScheduleSend, InsertMarker, Insert, TypeOK
<1>3. ASSUME NEW s \in Rows, CancelWrite(s) PROVE status'[r] = status[r]
  BY <1>3 DEF CancelWrite, Cancellable, TypeOK
<1>4. ASSUME NEW w \in Workers, Reclaim(w) PROVE status'[r] = status[r]
  BY <1>4 DEF Reclaim, IsStale
<1>5. ASSUME NEW w \in Workers, Claim(w) PROVE status'[r] = status[r]
  BY <1>5 DEF Claim, Claimable, TypeOK
<1>6. ASSUME NEW w \in Workers, MarkSent(w) \/ Defer(w) \/ MarkError(w)
      PROVE  status'[r] = status[r]
  <2>1. status[cur[w]] = "sending"
    BY <1>6 DEF MarkSent, Defer, MarkError, Timed, Holding, AfterSend, Failing
  <2>2. r # cur[w]
    BY <2>1
  <2> QED
    BY <1>6, <2>2 DEF MarkSent, Defer, MarkError, WriteBack, TypeOK
<1>7. ASSUME NEW s \in Rows, Write(s) \/ Freeze(s) \/ Unfreeze(s) PROVE status'[r] = status[r]
  BY <1>2, <1>3, <1>7 DEF Write, CancelRead, Freeze, Unfreeze
<1>8. ASSUME NEW w \in Workers, Step(w) PROVE status'[r] = status[r]
  <2> USE DEF RowStep, SendStep
  <2>1. CASE \/ Reclaim(w) \/ Claim(w) \/ MarkSent(w) \/ Defer(w) \/ MarkError(w)
    BY <2>1, <1>4, <1>5, <1>6
  <2>2. CASE \/ Fetch(w) \/ Finish(w) \/ FetchNothing(w) \/ Skip(w)
             \/ PassGates(w) \/ RefuseAtGate(w) \/ ReadApproval(w) \/ Bind(w)
             \/ PassKey(w) \/ RefuseNarrowedKey(w) \/ BrakeAllows(w) \/ BrakeHolds(w)
    BY <2>2 DEF Fetch, Finish, FetchNothing, Skip, PassGates, RefuseAtGate, ReadApproval,
                Bind, PassKey, RefuseNarrowedKey, BrakeAllows, BrakeHolds
  <2>3. CASE \/ SendDirect(w) \/ SendRerun(w) \/ SettleRerun(w) \/ SettleSent(w)
             \/ Fail(w) \/ SettleFailed(w)
    BY <2>3 DEF SendDirect, SendRerun, SettleRerun, SettleSent, Fail, SettleFailed
  <2> QED
    BY <1>8, <2>1, <2>2, <2>3 DEF Step
<1>9. ASSUME NEW w \in Workers, Incident(w) PROVE status'[r] = status[r]
  <2>1. CASE ClaimLost(w)
    BY <2>1 DEF ClaimLost, Claimable, TypeOK
  <2>2. CASE ~ClaimLost(w)
    BY <1>9, <2>2 DEF Incident, ReclaimFails, BindFails, BrakeFailsOpen, LoseWriteBack,
                      LoseSettlement, Crash, RowStep
  <2> QED
    BY <2>1, <2>2
<1>10. CASE Tick
  BY <1>10 DEF Tick
<1>11. CASE UNCHANGED vars
  BY <1>11 DEF vars
<1> QED
  BY <1>7, <1>8, <1>9, <1>10, <1>11 DEF Next

\* The reclaim, the cancel and every write-back leave terminal rows alone.
THEOREM TerminalRowsStay == Spec => TerminalStays
<1>1. TypeOK /\ Safe /\ Timed /\ [Next]_vars =>
        [\A r \in Rows : status[r] \in Terminal => status'[r] = status[r]]_vars
  BY TerminalStep
<1> QED
  BY <1>1, TimedAlways, PTL DEF Spec, TerminalStays

(***************************************************************************)
(* One approval, one delivery.                                             *)
(***************************************************************************)
\* From the binding to the provider call a marker holds its approval, and a
\* marker that was transmitted holds it for ever.
Spent ==
  /\ \A w \in Workers : pc[w] \in {"approval", "bind", "key"} => IsMarker(cur[w])
  /\ \A w \in Workers : pc[w] \in {"key", "brake", "send"} /\ IsMarker(cur[w]) =>
       bound[ApprovalOf[cur[w]]] = cur[w]
  /\ \A r \in Rows : IsMarker(r) /\ transmitted[r] > 0 => bound[ApprovalOf[r]] = r

\* Only the marker that holds the approval gets past the binding.
LEMMA SpentStep ==
  TypeOK /\ TypeOK' /\ Safe /\ Safe' /\ Spent /\ [Next]_vars =>
    Spent'
<1> SUFFICES ASSUME TypeOK, TypeOK', Safe, Safe', Spent, [Next]_vars PROVE Spent'
  OBVIOUS
<1> USE RowsAreOrdered, ApprovalsAssumption, LimitsAssumption, InvocationsEndBeforeReclaim
<1> USE DEF Spent, HeldRow, SingleOwner, Safe, TypeOK, IsMarker, Holding, BeforeSend,
            AfterSend, Failing, rowVars, approvalVars, localVars, worldVars, historyVars
<1>1. ASSUME NEW r \in Rows, ScheduleSend(r) PROVE Spent'
  BY <1>1 DEF ScheduleSend, Insert, KeepsOrder
<1>2. ASSUME NEW r \in Rows, InsertMarker(r) PROVE Spent'
  BY <1>2 DEF InsertMarker, Insert, KeepsOrder
<1>3. ASSUME NEW r \in Rows, CancelRead(r) PROVE Spent'
  BY <1>3 DEF CancelRead
<1>4. ASSUME NEW r \in Rows, CancelWrite(r) PROVE Spent'
  BY <1>4 DEF CancelWrite, Cancellable
<1>5. ASSUME NEW r \in Rows, Freeze(r) PROVE Spent'
  BY <1>5 DEF Freeze, Fault
<1>6. ASSUME NEW r \in Rows, Unfreeze(r) PROVE Spent'
  BY <1>6 DEF Unfreeze
<1>7. ASSUME NEW w \in Workers, Reclaim(w) PROVE Spent'
  BY <1>7 DEF Reclaim, Goto, ReclaimedTo
<1>8. ASSUME NEW w \in Workers, ReclaimFails(w) PROVE Spent'
  BY <1>8 DEF ReclaimFails, Goto, Fault
<1>9. ASSUME NEW w \in Workers, Fetch(w) PROVE Spent'
  BY <1>9 DEF Fetch, Goto, OldestDue, Due
<1>10. ASSUME NEW w \in Workers, FetchNothing(w) PROVE Spent'
  BY <1>10 DEF FetchNothing, Stop, ForgetRow, Goto, Fault, NoFault
<1>11. ASSUME NEW w \in Workers, Claim(w) PROVE Spent'
  BY <1>11 DEF Claim, Goto, FirstOf, TakeFrom, Claimable
<1>12. ASSUME NEW w \in Workers, Skip(w) PROVE Spent'
  BY <1>12 DEF Skip, FirstOf, TakeFrom, Fault, NoFault
<1>13. ASSUME NEW w \in Workers, Finish(w) PROVE Spent'
  BY <1>13 DEF Finish, Stop, ForgetRow, Goto
<1>14. ASSUME NEW w \in Workers, PassGates(w) PROVE Spent'
  BY <1>14 DEF PassGates, Goto, RowStep
<1>15. ASSUME NEW w \in Workers, RefuseAtGate(w) PROVE Spent'
  BY <1>15 DEF RefuseAtGate, Throw, Goto, RowStep
<1>16. ASSUME NEW w \in Workers, ReadApproval(w) PROVE Spent'
  BY <1>16 DEF ReadApproval, Throw, Goto, RowStep
<1>17. ASSUME NEW w \in Workers, Bind(w) PROVE Spent'
  <2> USE <1>17 DEF Bind, RowStep
  <2>1. CASE /\ Bindable(ApprovalOf[cur[w]]) /\ Goto(w, "key")
             /\ bound' = [bound EXCEPT ![ApprovalOf[cur[w]]] = cur[w]]
    <3>1. cur[w] \in Rows /\ ApprovalOf[cur[w]] \in Approvals /\ bound[ApprovalOf[cur[w]]] = NoRow
      BY <2>1 DEF Bindable
    <3>2. bound'[ApprovalOf[cur[w]]] = cur[w]
      BY <2>1, <3>1
    <3>3. \A a \in Approvals : bound[a] # NoRow => bound'[a] = bound[a]
      BY <2>1, <3>1
    <3>4. \A v \in Workers : pc'[v] \in {"approval", "bind", "key"} => IsMarker(cur'[v])
      BY <2>1 DEF Goto
    <3>5. \A v \in Workers : pc'[v] \in {"key", "brake", "send"} /\ IsMarker(cur'[v]) =>
            bound'[ApprovalOf[cur'[v]]] = cur'[v]
      BY <2>1, <3>1, <3>2, <3>3 DEF Goto
    <3>6. \A r \in Rows : IsMarker(r) /\ transmitted'[r] > 0 => bound'[ApprovalOf[r]] = r
      BY <3>1, <3>3
    <3> QED
      BY <3>4, <3>5, <3>6
  <2>2. CASE Throw(w, "error") /\ UNCHANGED bound
    BY <2>2 DEF Throw, Goto
  <2> QED
    BY <2>1, <2>2
<1>18. ASSUME NEW w \in Workers, BindFails(w) PROVE Spent'
  <2> USE <1>18 DEF BindFails, RowStep, Throw, Goto
  <2>1. CASE /\ Bindable(ApprovalOf[cur[w]])
             /\ bound' = [bound EXCEPT ![ApprovalOf[cur[w]]] = cur[w]]
    <3>1. cur[w] \in Rows /\ ApprovalOf[cur[w]] \in Approvals /\ bound[ApprovalOf[cur[w]]] = NoRow
      BY <2>1 DEF Bindable
    <3>2. \A a \in Approvals : bound[a] # NoRow => bound'[a] = bound[a]
      BY <2>1, <3>1
    <3>3. \A v \in Workers : pc'[v] \in {"approval", "bind", "key"} => IsMarker(cur'[v])
      OBVIOUS
    <3>4. ASSUME NEW v \in Workers, pc'[v] \in {"key", "brake", "send"}, IsMarker(cur'[v])
          PROVE  bound'[ApprovalOf[cur'[v]]] = cur'[v]
      <4>1. pc[v] = pc'[v] /\ cur'[v] = cur[v] /\ bound[ApprovalOf[cur[v]]] = cur[v]
        BY <3>4
      <4>2. cur[v] \in Rows /\ ApprovalOf[cur[v]] \in Approvals /\ cur[v] # NoRow
        BY <3>4, <4>1, InFlight
      <4> QED
        BY <3>2, <4>1, <4>2
    <3>5. \A r \in Rows : IsMarker(r) /\ transmitted'[r] > 0 => bound'[ApprovalOf[r]] = r
      BY <3>2
    <3> QED
      BY <3>3, <3>4, <3>5
  <2>2. CASE UNCHANGED bound
    BY <2>2
  <2> QED
    BY <2>1, <2>2
<1>19. ASSUME NEW w \in Workers, PassKey(w) PROVE Spent'
  BY <1>19 DEF PassKey, Goto, RowStep
<1>20. ASSUME NEW w \in Workers, RefuseNarrowedKey(w) PROVE Spent'
  BY <1>20 DEF RefuseNarrowedKey, Throw, Goto, RowStep
<1>21. ASSUME NEW w \in Workers, BrakeAllows(w) PROVE Spent'
  BY <1>21 DEF BrakeAllows, Goto, RowStep
<1>22. ASSUME NEW w \in Workers, BrakeFailsOpen(w) PROVE Spent'
  BY <1>22 DEF BrakeFailsOpen, Goto, RowStep, Fault
<1>23. ASSUME NEW w \in Workers, BrakeHolds(w) PROVE Spent'
  BY <1>23 DEF BrakeHolds, Throw, Goto, RowStep
<1>24. ASSUME NEW w \in Workers, SendDirect(w) PROVE Spent'
  BY <1>24 DEF SendDirect, Throw, Goto, SendStep, Transmit
<1>25. ASSUME NEW w \in Workers, SendRerun(w) PROVE Spent'
  <2> USE <1>25 DEF SendRerun, Goto, SendStep
  <2>1. \A v \in Workers : pc'[v] \in {"approval", "bind", "key", "brake", "send"} =>
          pc[v] = pc'[v]
    OBVIOUS
  <2>2. \A r \in Rows : transmitted'[r] > 0 => transmitted[r] > 0 \/ r = cur[w]
    BY DEF Transmit
  <2> QED
    BY <2>1, <2>2
<1>26. ASSUME NEW w \in Workers, SettleRerun(w) PROVE Spent'
  BY <1>26 DEF SettleRerun, Throw, Goto, RowStep, CompleteApproved, RerunOutcome
<1>27. ASSUME NEW w \in Workers, SettleSent(w) PROVE Spent'
  BY <1>27 DEF SettleSent, Goto, RowStep, CompleteApproved
<1>28. ASSUME NEW w \in Workers, MarkSent(w) PROVE Spent'
  BY <1>28 DEF MarkSent, WriteBack, NextRow, ForgetRow, Goto
<1>29. ASSUME NEW w \in Workers, Defer(w) PROVE Spent'
  BY <1>29 DEF Defer, Deferrable, WriteBack, NextRow, ForgetRow, Goto
<1>30. ASSUME NEW w \in Workers, Fail(w) PROVE Spent'
  BY <1>30 DEF Fail, Deferrable, Goto, RowStep
<1>31. ASSUME NEW w \in Workers, SettleFailed(w) PROVE Spent'
  BY <1>31 DEF SettleFailed, Goto, RowStep, CompleteApproved, FailureOutcome
<1>32. ASSUME NEW w \in Workers, MarkError(w) PROVE Spent'
  BY <1>32 DEF MarkError, WriteBack, NextRow, ForgetRow, Goto
<1>33. ASSUME NEW w \in Workers, LoseWriteBack(w) PROVE Spent'
  BY <1>33 DEF LoseWriteBack, Deferrable, NextRow, ForgetRow, Goto, Fault
<1>34. ASSUME NEW w \in Workers, LoseSettlement(w) PROVE Spent'
  BY <1>34 DEF LoseSettlement, Throw, Goto, RowStep, Fault
<1>35. ASSUME NEW w \in Workers, Crash(w) PROVE Spent'
  BY <1>35 DEF Crash, Stop, ForgetRow, Goto, Fault
<1>36. CASE Tick
  BY <1>36 DEF Tick
<1>37. ASSUME NEW w \in Workers, ClaimLost(w) PROVE Spent'
  BY <1>37 DEF ClaimLost, FirstOf, TakeFrom, Claimable, Fault
<1>38. CASE UNCHANGED vars
  BY <1>38 DEF vars, rowVars, approvalVars, localVars, worldVars, historyVars
<1> QED
  BY <1>1, <1>2, <1>3, <1>4, <1>5, <1>6, <1>7, <1>8, <1>9, <1>10, <1>11, <1>12,
     <1>13, <1>14, <1>15, <1>16, <1>17, <1>18, <1>19, <1>20, <1>21, <1>22, <1>23, <1>24,
     <1>25, <1>26, <1>27, <1>28, <1>29, <1>30, <1>31, <1>32, <1>33, <1>34, <1>35, <1>36,
     <1>37, <1>38
     DEF Next, Write, Step, Incident


\* Every reachable state is typed, safe and spends approvals by their binding.
LEMMA SpentAlways == Spec => [](TypeOK /\ Safe /\ Spent)
<1>1. Init => Spent
  BY DEF Init, Spent
<1>2. TypeOK /\ Safe /\ Spent /\ [Next]_vars => (TypeOK /\ Safe /\ Spent)'
  BY TypeStep, SafeStep, SpentStep
<1> QED
  BY <1>1, <1>2, SafeInit, PTL DEF Spec

\* Of all the markers that name one approval at most one is transmitted.
THEOREM OneDeliveryPerApproval == Spec => []ApprovalSpentOnce
<1>1. Spent => ApprovalSpentOnce
  BY DEF Spent, ApprovalSpentOnce, IsMarker
<1> QED
  BY <1>1, SpentAlways, PTL

(***************************************************************************)
(* The caller's record is true.                                            *)
(***************************************************************************)
\* The invocation that settles a schedule's record holds the approval's marker.
Settler ==
  /\ \A w \in Workers : settles[w] =>
       /\ pc[w] \in Holding
       /\ IsMarker(cur[w]) /\ ~IsRerun(cur[w])
       /\ bound[ApprovalOf[cur[w]]] = cur[w]
  /\ \A w \in Workers : pc[w] \in {"settle_sent", "settle_failed"} => settles[w]
  /\ \A w \in Workers : pc[w] = "settle_rerun" => IsRerun(cur[w])

\* The duty to settle begins with the key check and ends with the row.
LEMMA SettlerStep ==
  TypeOK /\ TypeOK' /\ Safe /\ Spent /\ Spent' /\ Settler /\ [Next]_vars =>
    Settler'
<1> SUFFICES ASSUME TypeOK, TypeOK', Safe, Spent, Spent', Settler, [Next]_vars PROVE Settler'
  OBVIOUS
<1> USE RowsAreOrdered, ApprovalsAssumption, LimitsAssumption, InvocationsEndBeforeReclaim
<1> USE DEF Settler, Spent, HeldRow, SingleOwner, Safe, TypeOK, IsMarker, IsRerun,
            Holding, BeforeSend, AfterSend, Failing, rowVars, approvalVars, localVars,
            worldVars, historyVars
<1>1. ASSUME NEW r \in Rows, ScheduleSend(r) PROVE Settler'
  BY <1>1 DEF ScheduleSend, Insert, KeepsOrder
<1>2. ASSUME NEW r \in Rows, InsertMarker(r) PROVE Settler'
  BY <1>2 DEF InsertMarker, Insert, KeepsOrder
<1>3. ASSUME NEW r \in Rows, CancelRead(r) PROVE Settler'
  BY <1>3 DEF CancelRead
<1>4. ASSUME NEW r \in Rows, CancelWrite(r) PROVE Settler'
  BY <1>4 DEF CancelWrite, Cancellable
<1>5. ASSUME NEW r \in Rows, Freeze(r) PROVE Settler'
  BY <1>5 DEF Freeze, Fault
<1>6. ASSUME NEW r \in Rows, Unfreeze(r) PROVE Settler'
  BY <1>6 DEF Unfreeze
<1>7. ASSUME NEW w \in Workers, Reclaim(w) PROVE Settler'
  BY <1>7 DEF Reclaim, Goto, ReclaimedTo
<1>8. ASSUME NEW w \in Workers, ReclaimFails(w) PROVE Settler'
  BY <1>8 DEF ReclaimFails, Goto, Fault
<1>9. ASSUME NEW w \in Workers, Fetch(w) PROVE Settler'
  BY <1>9 DEF Fetch, Goto, OldestDue, Due
<1>10. ASSUME NEW w \in Workers, FetchNothing(w) PROVE Settler'
  BY <1>10 DEF FetchNothing, Stop, ForgetRow, Goto, Fault, NoFault
<1>11. ASSUME NEW w \in Workers, Claim(w) PROVE Settler'
  BY <1>11 DEF Claim, Goto, FirstOf, TakeFrom, Claimable
<1>12. ASSUME NEW w \in Workers, Skip(w) PROVE Settler'
  BY <1>12 DEF Skip, FirstOf, TakeFrom, Fault, NoFault
<1>13. ASSUME NEW w \in Workers, Finish(w) PROVE Settler'
  BY <1>13 DEF Finish, Stop, ForgetRow, Goto
<1>14. ASSUME NEW w \in Workers, PassGates(w) PROVE Settler'
  BY <1>14 DEF PassGates, Goto, RowStep
<1>15. ASSUME NEW w \in Workers, RefuseAtGate(w) PROVE Settler'
  BY <1>15 DEF RefuseAtGate, Throw, Goto, RowStep
<1>16. ASSUME NEW w \in Workers, ReadApproval(w) PROVE Settler'
  <2> USE <1>16 DEF ReadApproval, RowStep
  <2>1. \A v \in Workers : pc'[v] \in {"settle_sent", "settle_failed", "settle_rerun"} =>
          pc'[v] = pc[v]
    BY DEF Throw, Goto
  <2>2. \A v \in Workers : pc[v] \in Holding => pc'[v] \in Holding
    BY DEF Throw, Goto
  <2> QED
    BY <2>1, <2>2
<1>17. ASSUME NEW w \in Workers, Bind(w) PROVE Settler'
  <2> USE <1>17 DEF Bind, RowStep
  <2>1. \A v \in Workers : v # w => pc'[v] = pc[v]
    BY DEF Throw, Goto
  <2>2. pc'[w] \in {"key", "caught"} /\ pc[w] = "bind"
    BY DEF Throw, Goto
  <2>3. \A a \in Approvals : bound[a] \in Rows => bound'[a] = bound[a]
    BY DEF Bindable
  <2> QED
    BY <2>1, <2>2, <2>3
<1>18. ASSUME NEW w \in Workers, BindFails(w) PROVE Settler'
  BY <1>18 DEF BindFails, Throw, Goto, RowStep, Fault, Bindable
<1>19. ASSUME NEW w \in Workers, PassKey(w) PROVE Settler'
  BY <1>19 DEF PassKey, Goto, RowStep
<1>20. ASSUME NEW w \in Workers, RefuseNarrowedKey(w) PROVE Settler'
  BY <1>20 DEF RefuseNarrowedKey, Throw, Goto, RowStep
<1>21. ASSUME NEW w \in Workers, BrakeAllows(w) PROVE Settler'
  BY <1>21 DEF BrakeAllows, Goto, RowStep
<1>22. ASSUME NEW w \in Workers, BrakeFailsOpen(w) PROVE Settler'
  BY <1>22 DEF BrakeFailsOpen, Goto, RowStep, Fault
<1>23. ASSUME NEW w \in Workers, BrakeHolds(w) PROVE Settler'
  BY <1>23 DEF BrakeHolds, Throw, Goto, RowStep
<1>24. ASSUME NEW w \in Workers, SendDirect(w) PROVE Settler'
  BY <1>24 DEF SendDirect, Throw, Goto, SendStep, Transmit
<1>25. ASSUME NEW w \in Workers, SendRerun(w) PROVE Settler'
  BY <1>25 DEF SendRerun, Goto, SendStep, Transmit
<1>26. ASSUME NEW w \in Workers, SettleRerun(w) PROVE Settler'
  <2>1. UNCHANGED <<settles, cur, bound>>
    BY <1>26 DEF SettleRerun, RowStep
  <2>2. /\ pc[w] = "settle_rerun"
        /\ \E l \in {"mark_sent", "caught"} : pc' = [pc EXCEPT ![w] = l]
    BY <1>26 DEF SettleRerun, Throw, Goto
  <2> QED
    BY <2>1, <2>2
<1>27. ASSUME NEW w \in Workers, SettleSent(w) PROVE Settler'
  BY <1>27 DEF SettleSent, Goto, RowStep, CompleteApproved
<1>28. ASSUME NEW w \in Workers, MarkSent(w) PROVE Settler'
  BY <1>28 DEF MarkSent, WriteBack, NextRow, ForgetRow, Goto
<1>29. ASSUME NEW w \in Workers, Defer(w) PROVE Settler'
  BY <1>29 DEF Defer, Deferrable, WriteBack, NextRow, ForgetRow, Goto
<1>30. ASSUME NEW w \in Workers, Fail(w) PROVE Settler'
  BY <1>30 DEF Fail, Deferrable, Goto, RowStep
<1>31. ASSUME NEW w \in Workers, SettleFailed(w) PROVE Settler'
  BY <1>31 DEF SettleFailed, Goto, RowStep, CompleteApproved, FailureOutcome
<1>32. ASSUME NEW w \in Workers, MarkError(w) PROVE Settler'
  BY <1>32 DEF MarkError, WriteBack, NextRow, ForgetRow, Goto
<1>33. ASSUME NEW w \in Workers, LoseWriteBack(w) PROVE Settler'
  BY <1>33 DEF LoseWriteBack, Deferrable, NextRow, ForgetRow, Goto, Fault
<1>34. ASSUME NEW w \in Workers, LoseSettlement(w) PROVE Settler'
  <2> USE <1>34 DEF LoseSettlement, RowStep
  <2>1. \A v \in Workers : pc'[v] \in {"settle_sent", "settle_failed", "settle_rerun"} =>
          pc'[v] = pc[v]
    BY DEF Throw, Goto
  <2>2. \A v \in Workers : pc[v] \in Holding => pc'[v] \in Holding
    BY DEF Throw, Goto
  <2> QED
    BY <2>1, <2>2
<1>35. ASSUME NEW w \in Workers, Crash(w) PROVE Settler'
  BY <1>35 DEF Crash, Stop, ForgetRow, Goto, Fault
<1>36. CASE Tick
  BY <1>36 DEF Tick
<1>37. ASSUME NEW w \in Workers, ClaimLost(w) PROVE Settler'
  BY <1>37 DEF ClaimLost, FirstOf, TakeFrom, Claimable, Fault
<1>38. CASE UNCHANGED vars
  BY <1>38 DEF vars, rowVars, approvalVars, localVars, worldVars, historyVars
<1> QED
  BY <1>1, <1>2, <1>3, <1>4, <1>5, <1>6, <1>7, <1>8, <1>9, <1>10, <1>11, <1>12,
     <1>13, <1>14, <1>15, <1>16, <1>17, <1>18, <1>19, <1>20, <1>21, <1>22, <1>23, <1>24,
     <1>25, <1>26, <1>27, <1>28, <1>29, <1>30, <1>31, <1>32, <1>33, <1>34, <1>35, <1>36,
     <1>37, <1>38
     DEF Next, Write, Step, Incident

\* What it knows when it reports a failure as certain.
Certain ==
  \A w \in Workers :
    /\ pc[w] \in {"caught", "settle_failed"}
    /\ (settles[w] /\ ~attempted[w]) \/ err[w] \in {"held", "not_sent", "refused"}
    => transmitted[cur[w]] = 0

\* A failure before the provider call, or one the provider vouches for, sent nothing.
LEMMA CertainStep ==
  TypeOK /\ TypeOK' /\ Safe /\ Safe' /\ Settler /\ Settler' /\ Certain /\ [Next]_vars =>
    Certain'
<1> SUFFICES ASSUME TypeOK, TypeOK', Safe, Safe', Settler, Settler', Certain,
                    [Next]_vars
             PROVE  Certain'
  OBVIOUS
<1> USE RowsAreOrdered, ApprovalsAssumption, LimitsAssumption, InvocationsEndBeforeReclaim
<1> USE DEF Certain, Settler, HeldRow, SingleOwner, UnsentInv, Untransmitted, Safe, TypeOK, IsRerun,
            Holding, BeforeSend,
            AfterSend, Failing, rowVars, approvalVars, localVars, worldVars, historyVars
<1>1. ASSUME NEW r \in Rows, ScheduleSend(r) PROVE Certain'
  BY <1>1 DEF ScheduleSend, Insert, KeepsOrder
<1>2. ASSUME NEW r \in Rows, InsertMarker(r) PROVE Certain'
  BY <1>2 DEF InsertMarker, Insert, KeepsOrder
<1>3. ASSUME NEW r \in Rows, CancelRead(r) PROVE Certain'
  BY <1>3 DEF CancelRead
<1>4. ASSUME NEW r \in Rows, CancelWrite(r) PROVE Certain'
  BY <1>4 DEF CancelWrite, Cancellable
<1>5. ASSUME NEW r \in Rows, Freeze(r) PROVE Certain'
  BY <1>5 DEF Freeze, Fault
<1>6. ASSUME NEW r \in Rows, Unfreeze(r) PROVE Certain'
  BY <1>6 DEF Unfreeze
<1>7. ASSUME NEW w \in Workers, Reclaim(w) PROVE Certain'
  BY <1>7 DEF Reclaim, Goto, ReclaimedTo
<1>8. ASSUME NEW w \in Workers, ReclaimFails(w) PROVE Certain'
  BY <1>8 DEF ReclaimFails, Goto, Fault
<1>9. ASSUME NEW w \in Workers, Fetch(w) PROVE Certain'
  BY <1>9 DEF Fetch, Goto, OldestDue, Due
<1>10. ASSUME NEW w \in Workers, FetchNothing(w) PROVE Certain'
  BY <1>10 DEF FetchNothing, Stop, ForgetRow, Goto, Fault, NoFault
<1>11. ASSUME NEW w \in Workers, Claim(w) PROVE Certain'
  BY <1>11 DEF Claim, Goto, FirstOf, TakeFrom, Claimable
<1>12. ASSUME NEW w \in Workers, Skip(w) PROVE Certain'
  BY <1>12 DEF Skip, FirstOf, TakeFrom, Fault, NoFault
<1>13. ASSUME NEW w \in Workers, Finish(w) PROVE Certain'
  BY <1>13 DEF Finish, Stop, ForgetRow, Goto
<1>14. ASSUME NEW w \in Workers, PassGates(w) PROVE Certain'
  BY <1>14 DEF PassGates, Goto, RowStep
<1>15. ASSUME NEW w \in Workers, RefuseAtGate(w) PROVE Certain'
  BY <1>15 DEF RefuseAtGate, Throw, Goto, RowStep
<1>16. ASSUME NEW w \in Workers, ReadApproval(w) PROVE Certain'
  BY <1>16 DEF ReadApproval, Throw, Goto, RowStep
<1>17. ASSUME NEW w \in Workers, Bind(w) PROVE Certain'
  BY <1>17 DEF Bind, Throw, Goto, RowStep, Bindable
<1>18. ASSUME NEW w \in Workers, BindFails(w) PROVE Certain'
  BY <1>18 DEF BindFails, Throw, Goto, RowStep, Fault, Bindable
<1>19. ASSUME NEW w \in Workers, PassKey(w) PROVE Certain'
  BY <1>19 DEF PassKey, Goto, RowStep
<1>20. ASSUME NEW w \in Workers, RefuseNarrowedKey(w) PROVE Certain'
  BY <1>20 DEF RefuseNarrowedKey, Throw, Goto, RowStep
<1>21. ASSUME NEW w \in Workers, BrakeAllows(w) PROVE Certain'
  BY <1>21 DEF BrakeAllows, Goto, RowStep
<1>22. ASSUME NEW w \in Workers, BrakeFailsOpen(w) PROVE Certain'
  BY <1>22 DEF BrakeFailsOpen, Goto, RowStep, Fault
<1>23. ASSUME NEW w \in Workers, BrakeHolds(w) PROVE Certain'
  BY <1>23 DEF BrakeHolds, Throw, Goto, RowStep
<1>24. ASSUME NEW w \in Workers, SendDirect(w) PROVE Certain'
  <2> USE <1>24 DEF SendDirect, SendStep
  <2>1. \A v \in Workers : v # w /\ pc[v] \in Holding => cur[v] # cur[w]
    OBVIOUS
  <2>2. CASE Transmit(cur[w]) /\ Goto(w, IF settles[w] THEN "settle_sent" ELSE "mark_sent")
             /\ UNCHANGED err
    BY <2>1, <2>2 DEF Transmit, Goto
  <2>3. CASE Transmit(cur[w]) /\ Throw(w, "error")
    BY <2>1, <2>3 DEF Transmit, Throw, Goto
  <2>4. ASSUME NEW e \in {"not_sent", "refused", "error"}, Throw(w, e), UNCHANGED transmitted
        PROVE  Certain'
    BY <2>4 DEF Throw, Goto
  <2> QED
    BY <2>2, <2>3, <2>4
<1>25. ASSUME NEW w \in Workers, SendRerun(w) PROVE Certain'
  <2> USE <1>25 DEF SendRerun, SendStep, Goto
  <2>1. \A v \in Workers : v # w /\ pc[v] \in Holding => cur[v] # cur[w]
    OBVIOUS
  <2>2. ASSUME NEW v \in Workers, v # w, pc[v] \in Holding
        PROVE  transmitted'[cur[v]] = transmitted[cur[v]]
    <3>1. cur[v] \in Rows /\ cur[w] \in Rows /\ cur[v] # cur[w]
      BY <2>1, <2>2, InFlight
    <3>2. Transmit(cur[w]) \/ UNCHANGED transmitted
      OBVIOUS
    <3> HIDE DEF TypeOK, Safe, Settler, Certain, UnsentInv, SendRerun, SendStep
    <3> QED
      BY <3>1, <3>2, Grows
  <2>3. pc'[w] = "settle_rerun" /\ \A v \in Workers : v # w => pc'[v] = pc[v]
    OBVIOUS
  <2> QED
    BY <2>2, <2>3
<1>26. ASSUME NEW w \in Workers, SettleRerun(w) PROVE Certain'
  BY <1>26 DEF SettleRerun, Throw, Goto, RowStep, CompleteApproved, RerunOutcome
<1>27. ASSUME NEW w \in Workers, SettleSent(w) PROVE Certain'
  BY <1>27 DEF SettleSent, Goto, RowStep, CompleteApproved
<1>28. ASSUME NEW w \in Workers, MarkSent(w) PROVE Certain'
  BY <1>28 DEF MarkSent, WriteBack, NextRow, ForgetRow, Goto
<1>29. ASSUME NEW w \in Workers, Defer(w) PROVE Certain'
  BY <1>29 DEF Defer, Deferrable, WriteBack, NextRow, ForgetRow, Goto
<1>30. ASSUME NEW w \in Workers, Fail(w) PROVE Certain'
  BY <1>30 DEF Fail, Deferrable, Goto, RowStep
<1>31. ASSUME NEW w \in Workers, SettleFailed(w) PROVE Certain'
  BY <1>31 DEF SettleFailed, Goto, RowStep, CompleteApproved, FailureOutcome
<1>32. ASSUME NEW w \in Workers, MarkError(w) PROVE Certain'
  BY <1>32 DEF MarkError, WriteBack, NextRow, ForgetRow, Goto
<1>33. ASSUME NEW w \in Workers, LoseWriteBack(w) PROVE Certain'
  BY <1>33 DEF LoseWriteBack, Deferrable, NextRow, ForgetRow, Goto, Fault
<1>34. ASSUME NEW w \in Workers, LoseSettlement(w) PROVE Certain'
  BY <1>34 DEF LoseSettlement, Throw, Goto, RowStep, Fault
<1>35. ASSUME NEW w \in Workers, Crash(w) PROVE Certain'
  BY <1>35 DEF Crash, Stop, ForgetRow, Goto, Fault
<1>36. CASE Tick
  BY <1>36 DEF Tick
<1>37. ASSUME NEW w \in Workers, ClaimLost(w) PROVE Certain'
  BY <1>37 DEF ClaimLost, FirstOf, TakeFrom, Claimable, Fault
<1>38. CASE UNCHANGED vars
  BY <1>38 DEF vars, rowVars, approvalVars, localVars, worldVars, historyVars
<1> QED
  BY <1>1, <1>2, <1>3, <1>4, <1>5, <1>6, <1>7, <1>8, <1>9, <1>10, <1>11, <1>12,
     <1>13, <1>14, <1>15, <1>16, <1>17, <1>18, <1>19, <1>20, <1>21, <1>22, <1>23, <1>24,
     <1>25, <1>26, <1>27, <1>28, <1>29, <1>30, <1>31, <1>32, <1>33, <1>34, <1>35, <1>36,
     <1>37, <1>38
     DEF Next, Write, Step, Incident

\* A record that says succeeded has its delivery; a schedule's record that
\* says failed belongs to a marker that was not sent and is not sent later.
Recorded ==
  \A a \in Approvals :
    /\ ledger[a] = "succeeded" =>
         \E r \in Rows : ApprovalOf[r] = a /\ transmitted[r] > 0
    /\ ledger[a] = "failed" /\ a \in ScheduleOps =>
         /\ bound[a] \in Rows
         /\ transmitted[bound[a]] = 0
         /\ status[bound[a]] \in {"sending", "error"}
         /\ \A w \in Workers :
              pc[w] \in Holding /\ cur[w] = bound[a] => pc[w] = "mark_error"

\* Settling a record keeps it true, and no step falsifies it later.
LEMMA RecordedStep ==
  TypeOK /\ TypeOK' /\ Safe /\ Safe' /\ Spent /\ Spent' /\ Settler /\ Certain /\
  Recorded /\ [Next]_vars =>
    Recorded'
<1> SUFFICES ASSUME TypeOK, TypeOK', Safe, Safe', Spent, Spent', Settler,
                    Certain, Recorded, [Next]_vars
             PROVE  Recorded'
  OBVIOUS
<1> USE RowsAreOrdered, ApprovalsAssumption, LimitsAssumption, InvocationsEndBeforeReclaim
<1> USE DEF Recorded, Spent, HeldRow, SingleOwner, Safe, TypeOK, IsMarker, Holding, BeforeSend,
            AfterSend, Failing, rowVars, approvalVars, localVars, worldVars, historyVars
<1>1. ASSUME NEW r \in Rows, ScheduleSend(r) PROVE Recorded'
  BY <1>1 DEF ScheduleSend, Insert, KeepsOrder
<1>2. ASSUME NEW r \in Rows, InsertMarker(r) PROVE Recorded'
  BY <1>2 DEF InsertMarker, Insert, KeepsOrder
<1>3. ASSUME NEW r \in Rows, CancelRead(r) PROVE Recorded'
  BY <1>3 DEF CancelRead
<1>4. ASSUME NEW r \in Rows, CancelWrite(r) PROVE Recorded'
  BY <1>4 DEF CancelWrite, Cancellable
<1>5. ASSUME NEW r \in Rows, Freeze(r) PROVE Recorded'
  BY <1>5 DEF Freeze, Fault
<1>6. ASSUME NEW r \in Rows, Unfreeze(r) PROVE Recorded'
  BY <1>6 DEF Unfreeze
<1>7. ASSUME NEW w \in Workers, Reclaim(w) PROVE Recorded'
  BY <1>7 DEF Reclaim, Goto, ReclaimedTo
<1>8. ASSUME NEW w \in Workers, ReclaimFails(w) PROVE Recorded'
  BY <1>8 DEF ReclaimFails, Goto, Fault
<1>9. ASSUME NEW w \in Workers, Fetch(w) PROVE Recorded'
  BY <1>9 DEF Fetch, Goto, OldestDue, Due
<1>10. ASSUME NEW w \in Workers, FetchNothing(w) PROVE Recorded'
  BY <1>10 DEF FetchNothing, Stop, ForgetRow, Goto, Fault, NoFault
<1>11. ASSUME NEW w \in Workers, Claim(w) PROVE Recorded'
  BY <1>11 DEF Claim, Goto, FirstOf, TakeFrom, Claimable
<1>12. ASSUME NEW w \in Workers, Skip(w) PROVE Recorded'
  BY <1>12 DEF Skip, FirstOf, TakeFrom, Fault, NoFault
<1>13. ASSUME NEW w \in Workers, Finish(w) PROVE Recorded'
  BY <1>13 DEF Finish, Stop, ForgetRow, Goto
<1>14. ASSUME NEW w \in Workers, PassGates(w) PROVE Recorded'
  BY <1>14 DEF PassGates, Goto, RowStep
<1>15. ASSUME NEW w \in Workers, RefuseAtGate(w) PROVE Recorded'
  BY <1>15 DEF RefuseAtGate, Throw, Goto, RowStep
<1>16. ASSUME NEW w \in Workers, ReadApproval(w) PROVE Recorded'
  <2> USE <1>16 DEF ReadApproval, RowStep
  <2>1. \A v \in Workers : pc[v] = "mark_error" => pc'[v] = pc[v]
    BY DEF Throw, Goto
  <2>2. \A v \in Workers : pc'[v] \in Holding => pc[v] \in Holding
    BY DEF Throw, Goto
  <2>3. UNCHANGED <<ledger, bound, status, cur, transmitted>>
    OBVIOUS
  <2> HIDE DEF TypeOK, Safe, HeldRow, SingleOwner, Spent, ReadApproval
  <2> QED
    BY <2>1, <2>2, <2>3
<1>17. ASSUME NEW w \in Workers, Bind(w) PROVE Recorded'
  <2> USE <1>17 DEF Bind, RowStep
  <2>1. ASSUME NEW a \in Approvals
        PROVE  /\ ledger[a] = "succeeded" =>
                    \E r \in Rows : ApprovalOf[r] = a /\ transmitted[r] > 0
               /\ ledger[a] = "failed" /\ a \in ScheduleOps =>
                    /\ bound[a] \in Rows /\ transmitted[bound[a]] = 0
                    /\ status[bound[a]] \in {"sending", "error"}
                    /\ bound[a] # cur[w]
                    /\ \A v \in Workers :
                         pc[v] \in Holding /\ cur[v] = bound[a] => pc[v] = "mark_error"
    OBVIOUS
  <2>2. \A a \in Approvals : bound[a] # NoRow => bound'[a] = bound[a]
    BY DEF Bindable
  <2>3. UNCHANGED <<ledger, status, cur, transmitted>> /\ NoRow \notin Rows
    OBVIOUS
  <2>4. \A v \in Workers : v # w => pc'[v] = pc[v]
    BY DEF Throw, Goto
  <2>5. \A a \in Approvals : bound'[a] = bound[a] \/ bound[a] = NoRow
    BY <2>2
  <2> HIDE DEF TypeOK, Safe, HeldRow, SingleOwner, Spent, Bind
  <2> QED
    BY <2>1, <2>3, <2>4, <2>5
<1>18. ASSUME NEW w \in Workers, BindFails(w) PROVE Recorded'
  <2> USE <1>18 DEF BindFails, RowStep
  <2>1. ASSUME NEW a \in Approvals
        PROVE  /\ ledger[a] = "succeeded" =>
                    \E r \in Rows : ApprovalOf[r] = a /\ transmitted[r] > 0
               /\ ledger[a] = "failed" /\ a \in ScheduleOps =>
                    /\ bound[a] \in Rows /\ transmitted[bound[a]] = 0
                    /\ status[bound[a]] \in {"sending", "error"}
                    /\ bound[a] # cur[w]
                    /\ \A v \in Workers :
                         pc[v] \in Holding /\ cur[v] = bound[a] => pc[v] = "mark_error"
    OBVIOUS
  <2>2. \A a \in Approvals : bound'[a] = bound[a] \/ bound[a] = NoRow
    BY DEF Bindable
  <2>3. UNCHANGED <<ledger, status, cur, transmitted>> /\ NoRow \notin Rows
    OBVIOUS
  <2>4. \A v \in Workers : v # w => pc'[v] = pc[v]
    BY DEF Throw, Goto
  <2> HIDE DEF TypeOK, Safe, HeldRow, SingleOwner, Spent, BindFails
  <2> QED
    BY <2>1, <2>2, <2>3, <2>4
<1>19. ASSUME NEW w \in Workers, PassKey(w) PROVE Recorded'
  BY <1>19 DEF PassKey, Goto, RowStep
<1>20. ASSUME NEW w \in Workers, RefuseNarrowedKey(w) PROVE Recorded'
  BY <1>20 DEF RefuseNarrowedKey, Throw, Goto, RowStep
<1>21. ASSUME NEW w \in Workers, BrakeAllows(w) PROVE Recorded'
  BY <1>21 DEF BrakeAllows, Goto, RowStep
<1>22. ASSUME NEW w \in Workers, BrakeFailsOpen(w) PROVE Recorded'
  BY <1>22 DEF BrakeFailsOpen, Goto, RowStep, Fault
<1>23. ASSUME NEW w \in Workers, BrakeHolds(w) PROVE Recorded'
  BY <1>23 DEF BrakeHolds, Throw, Goto, RowStep
<1>24. ASSUME NEW w \in Workers, SendDirect(w) PROVE Recorded'
  <2> USE <1>24 DEF SendDirect, SendStep
  <2>1. ASSUME NEW a \in Approvals
        PROVE  /\ ledger[a] = "succeeded" =>
                    \E r \in Rows : ApprovalOf[r] = a /\ transmitted[r] > 0
               /\ ledger[a] = "failed" /\ a \in ScheduleOps =>
                    /\ bound[a] \in Rows /\ transmitted[bound[a]] = 0
                    /\ status[bound[a]] \in {"sending", "error"}
                    /\ bound[a] # cur[w]
                    /\ \A v \in Workers :
                         pc[v] \in Holding /\ cur[v] = bound[a] => pc[v] = "mark_error"
    OBVIOUS
  <2>2. cur[w] \in Rows /\ (Transmit(cur[w]) \/ UNCHANGED transmitted)
    BY InFlight
  <2>3. UNCHANGED <<ledger, bound, status, cur>> /\ \A v \in Workers : v # w => pc'[v] = pc[v]
    BY DEF Throw, Goto
  <2> HIDE DEF TypeOK, Safe, HeldRow, SingleOwner, Spent, Recorded, SendDirect, SendRerun
  <2>4. \A r \in Rows : /\ transmitted[r] > 0 => transmitted'[r] > 0
                        /\ r # cur[w] => transmitted'[r] = transmitted[r]
    BY <2>2, Grows
  <2>5. ASSUME NEW a \in Approvals, ledger'[a] = "succeeded"
        PROVE  \E r \in Rows : ApprovalOf[r] = a /\ transmitted'[r] > 0
    BY <2>1, <2>3, <2>4, <2>5
  <2>6. ASSUME NEW a \in Approvals, ledger'[a] = "failed", a \in ScheduleOps
        PROVE  /\ bound'[a] \in Rows /\ transmitted'[bound'[a]] = 0
               /\ status'[bound'[a]] \in {"sending", "error"}
               /\ \A v \in Workers :
                    pc'[v] \in Holding /\ cur'[v] = bound'[a] => pc'[v] = "mark_error"
    <3>1. ledger[a] = "failed" /\ bound'[a] = bound[a] /\ cur' = cur /\ status' = status
      BY <2>3, <2>6
    <3>2. /\ bound[a] \in Rows /\ transmitted'[bound[a]] = 0
          /\ status[bound[a]] \in {"sending", "error"}
      <4>1. /\ bound[a] \in Rows /\ transmitted[bound[a]] = 0 /\ bound[a] # cur[w]
            /\ status[bound[a]] \in {"sending", "error"}
        BY <2>1, <2>6, <3>1
      <4> QED
        BY <2>4, <4>1
    <3>3. ASSUME NEW v \in Workers, pc'[v] \in Holding, cur[v] = bound[a]
          PROVE  pc'[v] = "mark_error"
      <4>1. v # w
        BY <2>1, <2>6, <3>1, <3>3
      <4> QED
        BY <2>1, <2>3, <2>6, <3>1, <3>3, <4>1
    <3> QED
      BY <3>1, <3>2, <3>3
  <2> QED
    BY <2>5, <2>6 DEF Recorded
<1>25. ASSUME NEW w \in Workers, SendRerun(w) PROVE Recorded'
  <2> USE <1>25 DEF SendRerun, SendStep
  <2>1. ASSUME NEW a \in Approvals
        PROVE  /\ ledger[a] = "succeeded" =>
                    \E r \in Rows : ApprovalOf[r] = a /\ transmitted[r] > 0
               /\ ledger[a] = "failed" /\ a \in ScheduleOps =>
                    /\ bound[a] \in Rows /\ transmitted[bound[a]] = 0
                    /\ status[bound[a]] \in {"sending", "error"}
                    /\ bound[a] # cur[w]
                    /\ \A v \in Workers :
                         pc[v] \in Holding /\ cur[v] = bound[a] => pc[v] = "mark_error"
    OBVIOUS
  <2>2. cur[w] \in Rows /\ (Transmit(cur[w]) \/ UNCHANGED transmitted)
    BY InFlight
  <2>3. UNCHANGED <<ledger, bound, status, cur>> /\ \A v \in Workers : v # w => pc'[v] = pc[v]
    BY DEF Goto
  <2> HIDE DEF TypeOK, Safe, HeldRow, SingleOwner, Spent, Recorded, SendDirect, SendRerun
  <2>4. \A r \in Rows : /\ transmitted[r] > 0 => transmitted'[r] > 0
                        /\ r # cur[w] => transmitted'[r] = transmitted[r]
    BY <2>2, Grows
  <2>5. ASSUME NEW a \in Approvals, ledger'[a] = "succeeded"
        PROVE  \E r \in Rows : ApprovalOf[r] = a /\ transmitted'[r] > 0
    BY <2>1, <2>3, <2>4, <2>5
  <2>6. ASSUME NEW a \in Approvals, ledger'[a] = "failed", a \in ScheduleOps
        PROVE  /\ bound'[a] \in Rows /\ transmitted'[bound'[a]] = 0
               /\ status'[bound'[a]] \in {"sending", "error"}
               /\ \A v \in Workers :
                    pc'[v] \in Holding /\ cur'[v] = bound'[a] => pc'[v] = "mark_error"
    <3>1. ledger[a] = "failed" /\ bound'[a] = bound[a] /\ cur' = cur /\ status' = status
      BY <2>3, <2>6
    <3>2. /\ bound[a] \in Rows /\ transmitted'[bound[a]] = 0
          /\ status[bound[a]] \in {"sending", "error"}
      <4>1. /\ bound[a] \in Rows /\ transmitted[bound[a]] = 0 /\ bound[a] # cur[w]
            /\ status[bound[a]] \in {"sending", "error"}
        BY <2>1, <2>6, <3>1
      <4> QED
        BY <2>4, <4>1
    <3>3. ASSUME NEW v \in Workers, pc'[v] \in Holding, cur[v] = bound[a]
          PROVE  pc'[v] = "mark_error"
      <4>1. v # w
        BY <2>1, <2>6, <3>1, <3>3
      <4> QED
        BY <2>1, <2>3, <2>6, <3>1, <3>3, <4>1
    <3> QED
      BY <3>1, <3>2, <3>3
  <2> QED
    BY <2>5, <2>6 DEF Recorded
<1>26. ASSUME NEW w \in Workers, SettleRerun(w) PROVE Recorded'
  <2> USE <1>26 DEF SettleRerun, RowStep
  <2>1. ASSUME NEW a \in Approvals
        PROVE  /\ ledger[a] = "succeeded" =>
                    \E r \in Rows : ApprovalOf[r] = a /\ transmitted[r] > 0
               /\ ledger[a] = "failed" /\ a \in ScheduleOps =>
                    /\ bound[a] \in Rows /\ transmitted[bound[a]] = 0
                    /\ status[bound[a]] \in {"sending", "error"}
                    /\ bound[a] # cur[w]
                    /\ \A v \in Workers :
                         pc[v] \in Holding /\ cur[v] = bound[a] => pc[v] = "mark_error"
    OBVIOUS
  <2>2. /\ cur[w] \in Rows /\ ApprovalOf[cur[w]] \in Approvals
        /\ ApprovalOf[cur[w]] \notin ScheduleOps
    BY InFlight DEF IsRerun, Settler
  <2>3. UNCHANGED <<bound, status, cur, transmitted>>
    OBVIOUS
  <2>4. \A v \in Workers : v # w => pc'[v] = pc[v]
    BY DEF Throw, Goto
  <2>5. RerunOutcome(result[w]) = "succeeded" => transmitted[cur[w]] > 0
    BY DEF RerunOutcome, SentInv, Transmitted
  <2>6. CompleteApproved(ApprovalOf[cur[w]], RerunOutcome(result[w]))
    OBVIOUS
  <2> HIDE DEF TypeOK, Safe, HeldRow, SingleOwner, Spent, SettleRerun
  <2>7. \A a \in Approvals : \/ ledger'[a] = ledger[a]
                             \/ a = ApprovalOf[cur[w]] /\ ledger'[a] = RerunOutcome(result[w])
    BY <2>2, <2>6, Completed
  <2>8. ASSUME NEW a \in Approvals, ledger'[a] = "succeeded"
        PROVE  \E r \in Rows : ApprovalOf[r] = a /\ transmitted'[r] > 0
    <3>1. CASE ledger[a] = "succeeded"
      BY <2>1, <2>3, <3>1
    <3>2. CASE ledger[a] # "succeeded"
      <4>1. a = ApprovalOf[cur[w]] /\ transmitted'[cur[w]] > 0 /\ cur[w] \in Rows
        BY <2>1, <2>2, <2>3, <2>4, <2>5, <2>7, <3>2, <2>8
      <4> QED
        BY <4>1
    <3> QED
      BY <3>1, <3>2
  <2>9. ASSUME NEW a \in Approvals, ledger'[a] = "failed", a \in ScheduleOps
        PROVE  /\ bound'[a] \in Rows /\ transmitted'[bound'[a]] = 0
               /\ status'[bound'[a]] \in {"sending", "error"}
               /\ \A v \in Workers :
                    pc'[v] \in Holding /\ cur'[v] = bound'[a] => pc'[v] = "mark_error"
    BY <2>1, <2>2, <2>3, <2>4, <2>5, <2>7, <2>9
  <2> QED
    BY <2>8, <2>9
<1>27. ASSUME NEW w \in Workers, SettleSent(w) PROVE Recorded'
  <2> USE <1>27 DEF SettleSent, Goto, RowStep
  <2>1. ASSUME NEW a \in Approvals
        PROVE  /\ ledger[a] = "succeeded" =>
                    \E r \in Rows : ApprovalOf[r] = a /\ transmitted[r] > 0
               /\ ledger[a] = "failed" /\ a \in ScheduleOps =>
                    /\ bound[a] \in Rows /\ transmitted[bound[a]] = 0
                    /\ status[bound[a]] \in {"sending", "error"}
                    /\ \A v \in Workers :
                         pc[v] \in Holding /\ cur[v] = bound[a] => pc[v] = "mark_error"
    OBVIOUS
  <2>2. cur[w] \in Rows /\ ApprovalOf[cur[w]] \in Approvals /\ transmitted[cur[w]] > 0
    BY InFlight DEF Settler, SentInv, Transmitted
  <2>3. UNCHANGED <<bound, status, cur, transmitted>>
    OBVIOUS
  <2>4. \A v \in Workers : v # w => pc'[v] = pc[v]
    OBVIOUS
  <2>5. CompleteApproved(ApprovalOf[cur[w]], "succeeded")
    OBVIOUS
  <2> HIDE DEF TypeOK, Safe, HeldRow, SingleOwner, Spent, SettleSent
  <2>6. \A a \in Approvals :
          ledger'[a] = ledger[a] \/ (a = ApprovalOf[cur[w]] /\ ledger'[a] = "succeeded")
    BY <2>2, <2>5, Completed
  <2>7. ASSUME NEW a \in Approvals, ledger'[a] = "succeeded"
        PROVE  \E r \in Rows : ApprovalOf[r] = a /\ transmitted'[r] > 0
    <3>1. CASE ledger[a] = "succeeded"
      BY <2>1, <2>3, <3>1
    <3>2. CASE ledger[a] # "succeeded"
      <4>1. a = ApprovalOf[cur[w]] /\ transmitted'[cur[w]] > 0 /\ cur[w] \in Rows
        BY <2>1, <2>2, <2>3, <2>4, <2>6, <3>2, <2>7
      <4> QED
        BY <4>1
    <3> QED
      BY <3>1, <3>2
  <2>8. ASSUME NEW a \in Approvals, ledger'[a] = "failed", a \in ScheduleOps
        PROVE  /\ bound'[a] \in Rows /\ transmitted'[bound'[a]] = 0
               /\ status'[bound'[a]] \in {"sending", "error"}
               /\ \A v \in Workers :
                    pc'[v] \in Holding /\ cur'[v] = bound'[a] => pc'[v] = "mark_error"
    BY <2>1, <2>2, <2>3, <2>4, <2>6, <2>8
  <2> QED
    BY <2>7, <2>8
<1>28. ASSUME NEW w \in Workers, MarkSent(w) PROVE Recorded'
  BY <1>28 DEF MarkSent, WriteBack, NextRow, ForgetRow, Goto
<1>29. ASSUME NEW w \in Workers, Defer(w) PROVE Recorded'
  BY <1>29 DEF Defer, Deferrable, WriteBack, NextRow, ForgetRow, Goto
<1>30. ASSUME NEW w \in Workers, Fail(w) PROVE Recorded'
  BY <1>30 DEF Fail, Deferrable, Goto, RowStep
<1>31. ASSUME NEW w \in Workers, SettleFailed(w) PROVE Recorded'
  <2> USE <1>31 DEF SettleFailed, Goto, RowStep
  <2>1. ASSUME NEW a \in Approvals
        PROVE  /\ ledger[a] = "succeeded" =>
                    \E r \in Rows : ApprovalOf[r] = a /\ transmitted[r] > 0
               /\ ledger[a] = "failed" /\ a \in ScheduleOps =>
                    /\ bound[a] \in Rows /\ transmitted[bound[a]] = 0
                    /\ status[bound[a]] \in {"sending", "error"}
                    /\ \A v \in Workers :
                         pc[v] \in Holding /\ cur[v] = bound[a] => pc[v] = "mark_error"
    OBVIOUS
  <2>2. /\ cur[w] \in Rows /\ ApprovalOf[cur[w]] \in Approvals
        /\ bound[ApprovalOf[cur[w]]] = cur[w] /\ status[cur[w]] \in {"sending", "error"}
        /\ \A v \in Workers : pc[v] \in Holding /\ cur[v] = cur[w] => v = w
    BY InFlight DEF Settler
  <2>3. UNCHANGED <<bound, status, cur, transmitted>>
    OBVIOUS
  <2>4. pc'[w] = "mark_error" /\ \A v \in Workers : v # w => pc'[v] = pc[v]
    OBVIOUS
  <2>5. /\ FailureOutcome(w) # "succeeded"
        /\ FailureOutcome(w) = "failed" => transmitted[cur[w]] = 0
    BY DEF FailureOutcome, Certain, Settler
  <2>6. CompleteApproved(ApprovalOf[cur[w]], FailureOutcome(w))
    OBVIOUS
  <2> HIDE DEF TypeOK, Safe, HeldRow, SingleOwner, Spent, SettleFailed
  <2>7. \A a \in Approvals :
          ledger'[a] = ledger[a] \/ (a = ApprovalOf[cur[w]] /\ ledger'[a] = FailureOutcome(w))
    BY <2>2, <2>6, Completed
  <2>8. ASSUME NEW a \in Approvals, ledger'[a] = "succeeded"
        PROVE  \E r \in Rows : ApprovalOf[r] = a /\ transmitted'[r] > 0
    <3>1. CASE ledger[a] = "succeeded"
      BY <2>1, <2>3, <3>1
    <3>2. CASE ledger[a] # "succeeded"
      <4>1. a = ApprovalOf[cur[w]] /\ transmitted'[cur[w]] > 0 /\ cur[w] \in Rows
        BY <2>1, <2>2, <2>3, <2>4, <2>5, <2>7, <3>2, <2>8
      <4> QED
        BY <4>1
    <3> QED
      BY <3>1, <3>2
  <2>9. ASSUME NEW a \in Approvals, ledger'[a] = "failed", a \in ScheduleOps
        PROVE  /\ bound'[a] \in Rows /\ transmitted'[bound'[a]] = 0
               /\ status'[bound'[a]] \in {"sending", "error"}
               /\ \A v \in Workers :
                    pc'[v] \in Holding /\ cur'[v] = bound'[a] => pc'[v] = "mark_error"
    BY <2>1, <2>2, <2>3, <2>4, <2>5, <2>7, <2>9
  <2> QED
    BY <2>8, <2>9
<1>32. ASSUME NEW w \in Workers, MarkError(w) PROVE Recorded'
  BY <1>32 DEF MarkError, WriteBack, NextRow, ForgetRow, Goto
<1>33. ASSUME NEW w \in Workers, LoseWriteBack(w) PROVE Recorded'
  BY <1>33 DEF LoseWriteBack, Deferrable, NextRow, ForgetRow, Goto, Fault
<1>34. ASSUME NEW w \in Workers, LoseSettlement(w) PROVE Recorded'
  BY <1>34 DEF LoseSettlement, Throw, Goto, RowStep, Fault
<1>35. ASSUME NEW w \in Workers, Crash(w) PROVE Recorded'
  BY <1>35 DEF Crash, Stop, ForgetRow, Goto, Fault
<1>36. CASE Tick
  BY <1>36 DEF Tick
<1>37. ASSUME NEW w \in Workers, ClaimLost(w) PROVE Recorded'
  BY <1>37 DEF ClaimLost, FirstOf, TakeFrom, Claimable, Fault
<1>38. CASE UNCHANGED vars
  BY <1>38 DEF vars, rowVars, approvalVars, localVars, worldVars, historyVars
<1> QED
  BY <1>1, <1>2, <1>3, <1>4, <1>5, <1>6, <1>7, <1>8, <1>9, <1>10, <1>11, <1>12,
     <1>13, <1>14, <1>15, <1>16, <1>17, <1>18, <1>19, <1>20, <1>21, <1>22, <1>23, <1>24,
     <1>25, <1>26, <1>27, <1>28, <1>29, <1>30, <1>31, <1>32, <1>33, <1>34, <1>35, <1>36,
     <1>37, <1>38
     DEF Next, Write, Step, Incident


\* The four invariants about records hold together in every reachable state.
LEMMA RecordedAlways == Spec => [](TypeOK /\ Safe /\ Spent /\ Settler /\ Certain /\ Recorded)
<1> DEFINE Known == TypeOK /\ Safe /\ Spent /\ Settler /\ Certain /\ Recorded
<1>1. Init => Known
  <2> SUFFICES ASSUME Init PROVE Spent /\ Settler /\ Certain /\ Recorded
    BY SafeInit
  <2>1. Spent
    BY DEF Init, Spent
  <2>2. Settler /\ Certain
    BY DEF Init, Settler, Certain
  <2>3. Recorded
    BY DEF Init, Recorded
  <2> QED
    BY <2>1, <2>2, <2>3
<1>2. Known /\ [Next]_vars => Known'
  <2> SUFFICES ASSUME Known, [Next]_vars PROVE Known'
    OBVIOUS
  <2>1. TypeOK' /\ Safe'
    BY TypeStep, SafeStep
  <2>2. Spent'
    BY <2>1, SpentStep
  <2>3. Settler'
    BY <2>1, <2>2, SettlerStep
  <2>4. Certain'
    BY <2>1, <2>3, CertainStep
  <2>5. Recorded'
    BY <2>1, <2>2, RecordedStep
  <2> QED
    BY <2>1, <2>2, <2>3, <2>4, <2>5
<1> QED
  BY <1>1, <1>2, PTL DEF Spec

\* "succeeded" has its delivery, and a schedule that "failed" sent nothing.
THEOREM TruthfulLedger == Spec => []LedgerIsTruth
<1>1. TypeOK /\ Spent /\ Recorded => LedgerIsTruth
  <2> SUFFICES ASSUME TypeOK, Spent, Recorded, NEW a \in Approvals
               PROVE  /\ ledger[a] = "succeeded" =>
                           \E r \in Rows : ApprovalOf[r] = a /\ transmitted[r] > 0
                      /\ ledger[a] = "failed" /\ a \in ScheduleOps =>
                           \A r \in Rows : ApprovalOf[r] = a => transmitted[r] = 0
    BY DEF LedgerIsTruth
  <2>1. ASSUME ledger[a] = "failed", a \in ScheduleOps, NEW r \in Rows, ApprovalOf[r] = a,
               transmitted[r] # 0
        PROVE  FALSE
    <3>1. transmitted[r] > 0 /\ IsMarker(r)
      BY <2>1, ApprovalsAssumption DEF TypeOK, IsMarker
    <3>2. bound[a] = r /\ transmitted[bound[a]] = 0
      BY <2>1, <3>1 DEF Spent, Recorded
    <3> QED
      BY <2>1, <3>2
  <2> QED
    BY <2>1 DEF Recorded
<1> QED
  BY <1>1, RecordedAlways, PTL

(***************************************************************************)
(* The queue implements DeliveryPromise.                                   *)
(***************************************************************************)
\* The queue starts with nothing accepted and nothing delivered.
LEMMA PromiseInit == Init => Promise!Init
  BY DEF Init, Promise!Init, Fate

\* What a step that leaves every status and transmission alone is to a user.
LEMMA NothingHappens ==
  ASSUME UNCHANGED <<status, transmitted>>
  PROVE  UNCHANGED <<[r \in Rows |-> Fate(r)], transmitted>>
  BY DEF Fate

\* Every step of the queue is a step of the promise or invisible to it.
LEMMA PromiseStep ==
  TypeOK /\ Safe /\ Timed /\ [Next]_vars =>
    [Promise!Next]_<<[r \in Rows |-> Fate(r)], transmitted>>
<1> DEFINE fates == [r \in Rows |-> Fate(r)]
<1> SUFFICES ASSUME TypeOK, Safe, Timed, [Next]_vars
             PROVE  Promise!Next \/ UNCHANGED <<fates, transmitted>>
  OBVIOUS
<1> USE DEF rowVars, approvalVars, localVars, worldVars, historyVars
<1>1. \A r \in Rows : /\ transmitted[r] \in Nat /\ status[r] \in Statuses
                      /\ status[r] \in {"absent", "pending", "cancelled"} => transmitted[r] = 0
                      /\ status[r] = "sent" => transmitted[r] > 0
  BY DEF TypeOK, Safe, StatusIsTruth
<1>2. ASSUME NEW M \in SUBSET Rows, UNCHANGED transmitted,
             \A r \in M : status[r] \in {"pending", "sending"},
             \A r \in Rows : status'[r] = IF r \in M THEN "error" ELSE status[r]
      PROVE  Promise!Next \/ UNCHANGED <<fates, transmitted>>
  <2> DEFINE N == {r \in M : transmitted[r] = 0}
  <2>1. \A r \in N : fates[r] = "queued" /\ fates'[r] = "failed"
    BY <1>1, <1>2 DEF Fate
  <2>2. \A r \in Rows \ N : fates'[r] = fates[r]
    BY <1>1, <1>2 DEF Fate
  <2>3. CASE N = {}
    BY <1>2, <2>2, <2>3
  <2>4. CASE N # {}
    <3>1. fates' = [r \in Rows |-> IF r \in N THEN "failed" ELSE fates[r]]
      BY <2>1, <2>2
    <3>2. Promise!GiveUp(N)
      BY <1>2, <2>1, <2>4, <3>1 DEF Promise!GiveUp
    <3> QED
      BY <3>2 DEF Promise!Next
  <2> QED
    BY <2>3, <2>4
<1>3. ASSUME NEW r \in Rows, Insert(r, late'[r]) PROVE Promise!Next
  <2>1. status[r] = "absent" /\ status' = [status EXCEPT ![r] = "pending"] /\ UNCHANGED transmitted
    BY <1>3 DEF Insert
  <2>2. fates[r] = "none" /\ fates' = [fates EXCEPT ![r] = "queued"]
    <3>1. fates[r] = "none" /\ fates'[r] = "queued"
      BY <1>1, <2>1 DEF Fate, TypeOK
    <3>2. \A s \in Rows : s # r => fates'[s] = fates[s]
      BY <2>1 DEF Fate
    <3>3. fates = [s \in Rows |-> fates[s]] /\ fates' = [s \in Rows |-> fates'[s]]
      OBVIOUS
    <3> HIDE DEF fates
    <3> QED
      BY <3>1, <3>2, <3>3
  <2>3. Promise!Accept(r)
    BY <2>1, <2>2 DEF Promise!Accept, Promise!Become
  <2> QED
    BY <2>3 DEF Promise!Next
<1>4. ASSUME NEW r \in Rows, CancelWrite(r) PROVE Promise!Next \/ UNCHANGED <<fates, transmitted>>
  <2>1. CASE Cancellable(r)
    <3>1. /\ status[r] = "pending" /\ status' = [status EXCEPT ![r] = "cancelled"]
          /\ UNCHANGED transmitted
      BY <1>4, <2>1 DEF CancelWrite, Cancellable
    <3>2. fates[r] = "queued" /\ fates' = [fates EXCEPT ![r] = "cancelled"]
      <4>1. fates[r] = "queued" /\ fates'[r] = "cancelled"
        BY <1>1, <3>1 DEF Fate, TypeOK
      <4>2. \A s \in Rows : s # r => fates'[s] = fates[s]
        BY <3>1 DEF Fate
      <4>3. fates = [s \in Rows |-> fates[s]] /\ fates' = [s \in Rows |-> fates'[s]]
        OBVIOUS
      <4> HIDE DEF fates
      <4> QED
        BY <4>1, <4>2, <4>3
    <3>3. Promise!Withdraw(r)
      BY <3>1, <3>2 DEF Promise!Withdraw, Promise!Become
    <3> QED
      BY <3>3 DEF Promise!Next
  <2>2. CASE ~Cancellable(r)
    BY <1>4, <2>2, NothingHappens DEF CancelWrite
  <2> QED
    BY <2>1, <2>2
<1>5. ASSUME NEW w \in Workers, Reclaim(w) PROVE Promise!Next \/ UNCHANGED <<fates, transmitted>>
  <2> DEFINE M == {r \in Rows : IsStale(r)}
  <2>1. M \in SUBSET Rows /\ \A r \in M : status[r] \in {"pending", "sending"}
    BY DEF IsStale
  <2>2. UNCHANGED transmitted /\ \A r \in Rows : status'[r] = IF r \in M THEN "error" ELSE status[r]
    BY <1>5 DEF Reclaim, ReclaimedTo
  <2> HIDE DEF M
  <2> QED
    BY <1>2, <2>1, <2>2
<1>6. ASSUME NEW w \in Workers, Claim(w) PROVE UNCHANGED <<fates, transmitted>>
  <2>1. PICK r \in Rows : status[r] = "pending" /\ status' = [status EXCEPT ![r] = "sending"]
    BY <1>6 DEF Claim, Claimable
  <2>2. UNCHANGED transmitted
    BY <1>6 DEF Claim
  <2> QED
    BY <1>1, <2>1, <2>2 DEF Fate, TypeOK
<1>7. ASSUME NEW w \in Workers, SendDirect(w) \/ SendRerun(w)
      PROVE  Promise!Next \/ UNCHANGED <<fates, transmitted>>
  <2>1. /\ pc[w] = "send" /\ UNCHANGED status
        /\ Transmit(cur[w]) \/ UNCHANGED transmitted
    BY <1>7 DEF SendDirect, SendRerun, SendStep
  <2>2. cur[w] \in Rows /\ status[cur[w]] = "sending" /\ transmitted[cur[w]] = 0
    BY <2>1, InFlight DEF Holding, BeforeSend, Timed, Safe, UnsentInv, Untransmitted
  <2>3. CASE Transmit(cur[w])
    <3>1. transmitted' = [transmitted EXCEPT ![cur[w]] = @ + 1] /\ transmitted'[cur[w]] > 0
      BY <2>2, <2>3 DEF Transmit, TypeOK
    <3>2. fates[cur[w]] = "queued" /\ fates' = [fates EXCEPT ![cur[w]] = "delivered"]
      BY <1>1, <2>1, <2>2, <3>1 DEF Fate
    <3>3. Promise!Deliver(cur[w])
      BY <3>1, <3>2 DEF Promise!Deliver, Promise!Become
    <3> QED
      BY <2>2, <3>3 DEF Promise!Next
  <2>4. CASE UNCHANGED transmitted
    BY <2>1, <2>4, NothingHappens
  <2> QED
    BY <2>1, <2>3, <2>4
<1>8. ASSUME NEW w \in Workers, MarkSent(w) \/ Defer(w) PROVE UNCHANGED <<fates, transmitted>>
  <2>1. /\ cur[w] \in Rows /\ status[cur[w]] = "sending" /\ UNCHANGED transmitted
        /\ \/ status' = [status EXCEPT ![cur[w]] = "sent"] /\ transmitted[cur[w]] > 0
           \/ status' = [status EXCEPT ![cur[w]] = "pending"] /\ transmitted[cur[w]] = 0
    BY <1>8, InFlight DEF MarkSent, Defer, Deferrable, WriteBack, Holding, AfterSend, Failing,
       Timed, Safe, UnsentInv, Untransmitted, SentInv, Transmitted
  <2> QED
    BY <1>1, <2>1 DEF Fate, TypeOK
<1>9. ASSUME NEW w \in Workers, MarkError(w) PROVE Promise!Next \/ UNCHANGED <<fates, transmitted>>
  <2>1. cur[w] \in Rows /\ status[cur[w]] = "sending"
    BY <1>9, InFlight DEF MarkError, Holding, Failing, Timed
  <2>2. status' = [status EXCEPT ![cur[w]] = "error"] /\ UNCHANGED transmitted
    BY <1>9 DEF MarkError, WriteBack
  <2>3. {cur[w]} \in SUBSET Rows /\ \A r \in {cur[w]} : status[r] \in {"pending", "sending"}
    BY <2>1
  <2>4. \A r \in Rows : status'[r] = IF r \in {cur[w]} THEN "error" ELSE status[r]
    BY <2>1, <2>2 DEF TypeOK
  <2> QED
    BY <1>2, <2>2, <2>3, <2>4
<1>10. ASSUME NEW r \in Rows, Write(r) \/ Freeze(r) \/ Unfreeze(r)
       PROVE  Promise!Next \/ UNCHANGED <<fates, transmitted>>
  <2>1. CASE ScheduleSend(r) \/ InsertMarker(r)
    <3>1. \E l \in Int : Insert(r, l)
      BY <2>1, LimitsAssumption DEF ScheduleSend, InsertMarker
    <3>2. Insert(r, late'[r])
      BY <3>1 DEF Insert, TypeOK
    <3> QED
      BY <1>3, <3>2
  <2>2. CASE CancelWrite(r)
    BY <1>4, <2>2
  <2>3. CASE CancelRead(r) \/ Freeze(r) \/ Unfreeze(r)
    BY <2>3, NothingHappens DEF CancelRead, Freeze, Unfreeze
  <2> QED
    BY <1>10, <2>1, <2>2, <2>3 DEF Write
<1>11. ASSUME NEW w \in Workers, Step(w) PROVE Promise!Next \/ UNCHANGED <<fates, transmitted>>
  <2> USE DEF RowStep
  <2>1. CASE \/ Reclaim(w) \/ Claim(w) \/ SendDirect(w) \/ SendRerun(w)
             \/ MarkSent(w) \/ Defer(w) \/ MarkError(w)
    BY <2>1, <1>5, <1>6, <1>7, <1>8, <1>9
  <2>2. CASE \/ Fetch(w) \/ Finish(w) \/ FetchNothing(w) \/ Skip(w)
             \/ PassGates(w) \/ RefuseAtGate(w) \/ ReadApproval(w) \/ Bind(w)
             \/ PassKey(w) \/ RefuseNarrowedKey(w) \/ BrakeAllows(w) \/ BrakeHolds(w)
             \/ SettleRerun(w) \/ SettleSent(w) \/ Fail(w) \/ SettleFailed(w)
    <3>1. UNCHANGED <<status, transmitted>>
      BY <2>2 DEF Fetch, Finish, FetchNothing, Skip, PassGates, RefuseAtGate, ReadApproval,
                  Bind, PassKey, RefuseNarrowedKey, BrakeAllows, BrakeHolds, SettleRerun,
                  SettleSent, Fail, SettleFailed
    <3> QED
      BY <3>1, NothingHappens
  <2> QED
    BY <1>11, <2>1, <2>2 DEF Step
<1>12. ASSUME NEW w \in Workers, Incident(w) PROVE UNCHANGED <<fates, transmitted>>
  <2>1. CASE ClaimLost(w)
    <3>1. PICK r \in Rows : status[r] = "pending" /\ status' = [status EXCEPT ![r] = "sending"]
      BY <2>1 DEF ClaimLost, Claimable
    <3>2. UNCHANGED transmitted
      BY <2>1 DEF ClaimLost
    <3> QED
      BY <1>1, <3>1, <3>2 DEF Fate, TypeOK
  <2>2. CASE ~ClaimLost(w)
    <3>1. UNCHANGED <<status, transmitted>>
      BY <1>12, <2>2 DEF Incident, ReclaimFails, BindFails, BrakeFailsOpen, LoseWriteBack,
                         LoseSettlement, Crash, RowStep
    <3> QED
      BY <3>1, NothingHappens
  <2> QED
    BY <2>1, <2>2
<1>13. CASE Tick \/ UNCHANGED vars
  <2>1. UNCHANGED <<status, transmitted>>
    BY <1>13 DEF Tick, vars
  <2> QED
    BY <2>1, NothingHappens
<1> HIDE DEF fates
<1> QED
  BY <1>10, <1>11, <1>12, <1>13 DEF Next

\* Whatever invocations, crashes and retries do, the person who queued a
\* message sees DeliveryPromise: delivered at most once, and final answers.
THEOREM QueueKeepsPromise == Spec => Promise!Spec
<1>1. Spec => [](TypeOK /\ Safe /\ Timed)
  BY TimedAlways
<1> QED
  BY <1>1, PromiseInit, PromiseStep, PTL DEF Spec, Promise!Spec

(***************************************************************************)
(* The queue is the dispatcher of SendApprovals.  A marker that nobody     *)
(* holds is where its status says, a held one where its invocation has     *)
(* got to; a step moves one marker, and the moves are those that           *)
(* SendApprovals has for it.                                               *)
(***************************************************************************)
FreeMark(r) ==
  IF transmitted[r] > 0 THEN "sent"
  ELSE IF status[r] = "absent" THEN "none"
  ELSE IF status[r] = "pending" THEN "queued"
  ELSE IF status[r] = "cancelled" THEN "cancelled"
  ELSE "error"

HeldMark(r, l) ==
  IF transmitted[r] > 0 THEN "sent"
  ELSE IF l = "bind" THEN "read"
  ELSE IF l \in {"gates", "approval"} \/ bound[ApprovalOf[r]] # r THEN "queued"
  ELSE "bound"

Marked ==
  /\ \A r \in Rows : ~HeldAt(r, Holding) => MarkerAt(r) = FreeMark(r)
  /\ \A r \in Rows, w \in Workers, l \in Holding :
       pc[w] = l /\ cur[w] = r => MarkerAt(r) = HeldMark(r, l)

\* A marker that is about to be bound has no approval yet.
Unbound == \A w \in Workers : pc[w] = "bind" => bound[ApprovalOf[cur[w]]] # cur[w]

\* What Safe and Timed say of statuses makes a marker's place the one of its invocation:
\* nobody holds it, or exactly the one that Timed names.
LEMMA MarkedAlways == TypeOK /\ Safe /\ Timed => Marked
<1> SUFFICES ASSUME TypeOK, Safe, Timed PROVE Marked
  OBVIOUS
<1> USE DEF TypeOK
<1>1. ASSUME NEW r \in Rows, ~HeldAt(r, Holding) PROVE MarkerAt(r) = FreeMark(r)
  <2>1. transmitted[r] \in Nat /\ status[r] \in Statuses
    OBVIOUS
  <2> QED
    BY <1>1, <2>1 DEF MarkerAt, FreeMark, Statuses
<1>2. ASSUME NEW r \in Rows, NEW w \in Workers, NEW l \in Holding, pc[w] = l, cur[w] = r
      PROVE  MarkerAt(r) = HeldMark(r, l)
  <2>1. /\ status[r] = "sending"
        /\ \A v \in Workers : pc[v] \in Holding /\ cur[v] = r => v = w
    BY <1>2, InFlight DEF Timed
  <2>2. /\ HeldAt(r, Holding)
        /\ HeldAt(r, {"bind"}) <=> l = "bind"
        /\ HeldAt(r, {"gates", "approval"}) <=> l \in {"gates", "approval"}
    BY <1>2, <2>1 DEF HeldAt, Holding, BeforeSend
  <2>3. transmitted[r] \in Nat
    OBVIOUS
  <2> QED
    BY <2>1, <2>2, <2>3 DEF MarkerAt, HeldMark
<1> QED
  BY <1>1, <1>2 DEF Marked

\* The markers of an approval as SendApprovals sees them.
Marks(a) == [r \in MarkersOf(a) |-> MarkerAt(r)]

\* A step that moves no marker of an approval but c.
MovesOnly(a, c) ==
  \A r \in MarkersOf(a) :
    /\ r # c => MarkerAt(r)' = MarkerAt(r)
    /\ r # c => (transmitted'[r] > 0 <=> transmitted[r] > 0)
    /\ r # c => (status'[r] = "absent" <=> status[r] = "absent")

\* Storing the marker of an approved request is SendApprovals' Insert.
LEMMA InsertServes ==
  ASSUME NEW a \in Approvals, NEW c \in MarkersOf(a), MovesOnly(a, c),
         status[c] = "absent", status'[c] # "absent", transmitted'[c] = transmitted[c],
         MarkerAt(c)' = "queued", bound'[a] = bound[a]
  PROVE  DispatcherStep(a)
<1>1. [r \in MarkersOf(a) |-> MarkerAt(r)]' = [[r \in MarkersOf(a) |-> MarkerAt(r)] EXCEPT ![c] = "queued"]
  BY DEF MovesOnly, MarkersOf
<1>2. [r \in MarkersOf(a) |-> IF status[r] = "absent" THEN "insert" ELSE "approved"]'
        = [[r \in MarkersOf(a) |-> IF status[r] = "absent" THEN "insert" ELSE "approved"] EXCEPT ![c] = "approved"]
  BY DEF MovesOnly, MarkersOf
<1>3. [r \in MarkersOf(a) |-> IF transmitted[r] > 0 THEN {Request} ELSE {}]'
        = [r \in MarkersOf(a) |-> IF transmitted[r] > 0 THEN {Request} ELSE {}]
  BY DEF MovesOnly, MarkersOf, Request
<1>4. Review(a)!Insert(c)
  BY <1>1, <1>2, <1>3 DEF Review!Insert, Review!MarkerGoto, Review!ReviewGoto, Review!ReviewStep,
     Review!boundVars, Review!cardVars, Request, MarkersOf
<1> QED
  BY <1>4 DEF DispatcherStep

Settled(c) ==
  /\ transmitted'[c] > 0 <=> transmitted[c] > 0
  /\ status'[c] = "absent" <=> status[c] = "absent"

\* What SendApprovals sees besides the markers stays as it is.
ReviewRest(a) ==
  /\ [r \in MarkersOf(a) |-> IF status[r] = "absent" THEN "insert" ELSE "approved"]'
       = [r \in MarkersOf(a) |-> IF status[r] = "absent" THEN "insert" ELSE "approved"]
  /\ [r \in MarkersOf(a) |-> IF transmitted[r] > 0 THEN {Request} ELSE {}]'
       = [r \in MarkersOf(a) |-> IF transmitted[r] > 0 THEN {Request} ELSE {}]

\* A step that moves only the marker c, without inserting or sending it, changes nothing
\* else that SendApprovals sees.
LEMMA MovesReview ==
  ASSUME NEW a \in Approvals, NEW c \in MarkersOf(a), MovesOnly(a, c), Settled(c)
  PROVE  Marks(a)' = [Marks(a) EXCEPT ![c] = MarkerAt(c)'] /\ ReviewRest(a)
  BY DEF MovesOnly, MarkersOf, Settled, ReviewRest, Marks, Request


\* ... the approval is read: the marker is refused, holds it, or goes on to bind it.
LEMMA ReadServes ==
  ASSUME NEW a \in Approvals, NEW c \in MarkersOf(a), MovesOnly(a, c), Settled(c),
         MarkerAt(c) = "queued", bound'[a] = bound[a],
         MarkerAt(c)' = IF bound[a] \notin {c, NoRow} THEN "error"
                        ELSE IF bound[a] = c THEN "bound" ELSE "read"
  PROVE  DispatcherStep(a)
<1>1. Marks(a)' = [Marks(a) EXCEPT ![c] = MarkerAt(c)'] /\ ReviewRest(a)
  BY MovesReview
<1>2. Review(a)!DispatchRead(c)
  BY <1>1 DEF ReviewRest, Marks, MarkersOf, Review!DispatchRead, Review!MarkerGoto, Review!MarkerStep,
     Review!reviewVars, Review!cardVars, Review!boundVars, Review!LapsedBeforeDecision, Review!IsExpired
<1> QED
  BY <1>2 DEF DispatcherStep


\* ... the binding is written.
LEMMA BindServes ==
  ASSUME NEW a \in Approvals, NEW c \in MarkersOf(a), MovesOnly(a, c), Settled(c),
         MarkerAt(c) = "read", bound[a] = NoRow, bound'[a] = c, MarkerAt(c)' = "bound"
  PROVE  DispatcherStep(a)
<1>1. Marks(a)' = [Marks(a) EXCEPT ![c] = MarkerAt(c)'] /\ ReviewRest(a)
  BY MovesReview
<1>2. Review(a)!DispatchBind(c)
  BY <1>1 DEF ReviewRest, Marks, MarkersOf, Review!DispatchBind, Review!MarkerGoto, Review!MarkerStep,
     Review!reviewVars, Review!cardVars, Review!boundVars, Review!Bindable
<1> QED
  BY <1>2 DEF DispatcherStep


\* ... nothing was sent.
LEMMA FailsServes ==
  ASSUME NEW a \in Approvals, NEW c \in MarkersOf(a), MovesOnly(a, c), Settled(c),
         MarkerAt(c) \in {"queued", "read", "bound"}, MarkerAt(c)' \in {"queued", "error"},
         bound'[a] = bound[a]
  PROVE  DispatcherStep(a)
<1>1. Marks(a)' = [Marks(a) EXCEPT ![c] = MarkerAt(c)'] /\ ReviewRest(a)
  BY MovesReview
<1>2. Review(a)!DispatchFails(c)
  BY <1>1 DEF ReviewRest, Marks, MarkersOf, Review!DispatchFails, Review!MarkerGoto, Review!MarkerStep,
     Review!reviewVars, Review!cardVars, Review!boundVars
<1> QED
  BY <1>2 DEF DispatcherStep


\* ... the marker is cancelled.
LEMMA CancelServes ==
  ASSUME NEW a \in Approvals, NEW c \in MarkersOf(a), MovesOnly(a, c), Settled(c),
         MarkerAt(c) = "queued", MarkerAt(c)' = "cancelled", bound'[a] = bound[a]
  PROVE  DispatcherStep(a)
<1>1. Marks(a)' = [Marks(a) EXCEPT ![c] = MarkerAt(c)'] /\ ReviewRest(a)
  BY MovesReview
<1>2. Review(a)!CancelMarker(c)
  BY <1>1 DEF ReviewRest, Marks, MarkersOf, Review!CancelMarker, Review!MarkerGoto, Review!MarkerStep,
     Review!reviewVars, Review!cardVars, Review!boundVars
<1> QED
  BY <1>2 DEF DispatcherStep


\* ... its message goes out.
LEMMA SendServes ==
  ASSUME NEW a \in Approvals, NEW c \in MarkersOf(a), MovesOnly(a, c),
         status'[c] = "absent" <=> status[c] = "absent",
         ~(transmitted[c] > 0), transmitted'[c] > 0,
         MarkerAt(c) = "bound", MarkerAt(c)' = "sent", bound'[a] = bound[a]
  PROVE  DispatcherStep(a)
<1>1. Marks(a)' = [Marks(a) EXCEPT ![c] = "sent"]
  BY DEF MovesOnly, MarkersOf, Marks
<1>2. [r \in MarkersOf(a) |-> IF status[r] = "absent" THEN "insert" ELSE "approved"]'
        = [r \in MarkersOf(a) |-> IF status[r] = "absent" THEN "insert" ELSE "approved"]
  BY DEF MovesOnly, MarkersOf
<1>3. [r \in MarkersOf(a) |-> IF transmitted[r] > 0 THEN {Request} ELSE {}]'
        = [[r \in MarkersOf(a) |-> IF transmitted[r] > 0 THEN {Request} ELSE {}]
             EXCEPT ![c] = @ \cup {[edits |-> {}, sendAt |-> "due"]}]
  BY DEF MovesOnly, MarkersOf, Request
<1>4. Review(a)!DispatchSend(c)
  BY <1>1, <1>2, <1>3 DEF Marks, MarkersOf, Review!DispatchSend, Review!MarkerGoto,
     Review!MarkerStep, Review!reviewVars, Review!cardVars, Review!boundVars
<1> QED
  BY <1>4 DEF DispatcherStep

\* A step that moves none is none of the approval's.
LEMMA NoneServed ==
  ASSUME NEW a \in Approvals, bound'[a] = bound[a],
         \A r \in MarkersOf(a) : MarkerAt(r)' = MarkerAt(r)
  PROVE  UNCHANGED <<[r \in MarkersOf(a) |-> MarkerAt(r)], bound[a]>>
  BY DEF MarkersOf

(***************************************************************************)
(* Which marker a step moves, and from where to where.                     *)
(***************************************************************************)
Served == \A a \in Approvals : [DispatcherStep(a)]_<<[r \in MarkersOf(a) |-> MarkerAt(r)], bound[a]>>

\* Nobody but the marker's own approval is concerned.
LEMMA RowServed ==
  ASSUME NEW c \in Rows,
         \A a \in Approvals : MovesOnly(a, c),
         \A a \in Approvals : a # ApprovalOf[c] => bound'[a] = bound[a],
         IsMarker(c) =>
           \/ DispatcherStep(ApprovalOf[c])
           \/ MarkerAt(c)' = MarkerAt(c) /\ bound'[ApprovalOf[c]] = bound[ApprovalOf[c]]
  PROVE  Served
<1> SUFFICES ASSUME NEW a \in Approvals, ~DispatcherStep(a)
             PROVE  UNCHANGED <<[r \in MarkersOf(a) |-> MarkerAt(r)], bound[a]>>
  BY DEF Served
<1>1. a = ApprovalOf[c] => IsMarker(c)
  BY ApprovalsAssumption DEF IsMarker
<1>2. bound'[a] = bound[a]
  BY <1>1
<1>3. \A r \in MarkersOf(a) : MarkerAt(r)' = MarkerAt(r)
  <2> TAKE r \in MarkersOf(a)
  <2>1. CASE r = c
    BY <1>1, <2>1 DEF MarkersOf
  <2>2. CASE r # c
    BY <2>2 DEF MovesOnly
  <2> QED
    BY <2>1, <2>2
<1> QED
  BY <1>2, <1>3, NoneServed

\* A step of an invocation and the row it holds, or of no invocation, leaves
\* every other row where it is.
LEMMA OthersStay ==
  ASSUME TypeOK, TypeOK', NEW w \in Workers, NEW c \in Rows,
         \A v \in Workers : v # w => pc'[v] = pc[v] /\ cur'[v] = cur[v],
         pc[w] \in Holding => cur[w] = c,
         pc'[w] \in Holding => cur'[w] = c,
         \A r \in Rows : r # c => status'[r] = status[r] /\ transmitted'[r] = transmitted[r],
         \A r \in Rows : r # c /\ IsMarker(r) =>
           (bound'[ApprovalOf[r]] = r <=> bound[ApprovalOf[r]] = r)
  PROVE  \A a \in Approvals : MovesOnly(a, c)
<1> SUFFICES ASSUME NEW a \in Approvals, NEW r \in MarkersOf(a), r # c
             PROVE  /\ MarkerAt(r)' = MarkerAt(r)
                    /\ status'[r] = status[r] /\ transmitted'[r] = transmitted[r]
  BY DEF MovesOnly
<1>1. r \in Rows /\ IsMarker(r)
  BY ApprovalsAssumption DEF MarkersOf, IsMarker
<1>2. ASSUME NEW L \in SUBSET Holding PROVE HeldAt(r, L)' = HeldAt(r, L)
  <2>1. \A v \in Workers : (pc'[v] \in L /\ cur'[v] = r) <=> (pc[v] \in L /\ cur[v] = r)
    <3> TAKE v \in Workers
    <3>1. CASE v = w
      BY <3>1
    <3>2. CASE v # w
      BY <3>2
    <3> QED
      BY <3>1, <3>2
  <2> QED
    BY <2>1 DEF HeldAt
<1>3. /\ HeldAt(r, Holding)' = HeldAt(r, Holding)
      /\ HeldAt(r, {"bind"})' = HeldAt(r, {"bind"})
      /\ HeldAt(r, {"gates", "approval"})' = HeldAt(r, {"gates", "approval"})
  <2>1. Holding \in SUBSET Holding /\ {"bind"} \in SUBSET Holding
        /\ {"gates", "approval"} \in SUBSET Holding
    BY DEF Holding, BeforeSend
  <2> QED
    BY <1>2, <2>1
<1>4. /\ status'[r] = status[r] /\ transmitted'[r] = transmitted[r]
      /\ bound'[ApprovalOf[r]] = r <=> bound[ApprovalOf[r]] = r
  BY <1>1
<1> HIDE DEF HeldAt
<1> QED
  BY <1>3, <1>4 DEF MarkerAt

\* A step of an invocation with the row it holds: where the marker was, where it is.
LEMMA HolderMarks ==
  ASSUME TypeOK, TypeOK', Safe, Marked, Marked', NEW w \in Workers, NEW c \in Rows,
         cur[w] = c, pc[w] \in Holding, NEW l \in Holding, Goto(w, l),
         UNCHANGED <<status, cur>>, Transmit(c) \/ UNCHANGED transmitted,
         \/ UNCHANGED bound
         \/ /\ IsMarker(c) /\ bound[ApprovalOf[c]] = NoRow
            /\ bound' = [bound EXCEPT ![ApprovalOf[c]] = c]
  PROVE  /\ \A a \in Approvals : MovesOnly(a, c)
         /\ \A a \in Approvals : a # ApprovalOf[c] => bound'[a] = bound[a]
         /\ IsMarker(c) => ApprovalOf[c] \in Approvals /\ c \in MarkersOf(ApprovalOf[c])
         /\ MarkerAt(c) = HeldMark(c, pc[w])
         /\ MarkerAt(c)' = HeldMark(c, l)'
         /\ status'[c] = "absent" <=> status[c] = "absent"
<1> USE RowsAreOrdered, ApprovalsAssumption
<1>1. pc'[w] = l /\ \A v \in Workers : v # w => pc'[v] = pc[v] /\ cur'[v] = cur[v]
  BY DEF Goto, TypeOK
<1>2. \A r \in Rows : r # c => status'[r] = status[r] /\ transmitted'[r] = transmitted[r]
  BY DEF Transmit, TypeOK
<1>3. \A a \in Approvals : a # ApprovalOf[c] => bound'[a] = bound[a]
  BY DEF TypeOK
<1>4. IsMarker(c) => ApprovalOf[c] \in Approvals /\ c \in MarkersOf(ApprovalOf[c])
  BY DEF IsMarker, MarkersOf
<1>5. \A r \in Rows : r # c /\ IsMarker(r) =>
        (bound'[ApprovalOf[r]] = r <=> bound[ApprovalOf[r]] = r)
  <2> TAKE r \in Rows
  <2>1. IsMarker(r) => ApprovalOf[r] \in Approvals
    BY DEF IsMarker
  <2> QED
    BY <1>4, <2>1 DEF TypeOK
<1>6. \A a \in Approvals : MovesOnly(a, c)
  BY <1>1, <1>2, <1>5, OthersStay
<1>7. MarkerAt(c) = HeldMark(c, pc[w]) /\ MarkerAt(c)' = HeldMark(c, l)'
  BY <1>1 DEF Marked
<1> QED
  BY <1>3, <1>4, <1>6, <1>7


\* Such a step is one that SendApprovals has for the marker, or none.
LEMMA HolderServed ==
  ASSUME TypeOK, TypeOK', Safe, Marked, Marked', NEW w \in Workers, NEW c \in Rows,
         cur[w] = c, pc[w] \in Holding, NEW l \in Holding, Goto(w, l),
         UNCHANGED <<status, cur>>, Transmit(c) \/ UNCHANGED transmitted,
         \/ UNCHANGED bound
         \/ /\ IsMarker(c) /\ bound[ApprovalOf[c]] = NoRow
            /\ bound' = [bound EXCEPT ![ApprovalOf[c]] = c],
         NEW m, NEW n, m = HeldMark(c, pc[w]), n = HeldMark(c, l)',
         IsMarker(c) =>
           \/ n = m /\ UNCHANGED bound
           \/ /\ m \in {"queued", "read", "bound"} /\ n \in {"queued", "error"}
              /\ UNCHANGED <<bound, transmitted>>
           \/ /\ m = "queued" /\ UNCHANGED <<bound, transmitted>>
              /\ n = IF bound[ApprovalOf[c]] \notin {c, NoRow} THEN "error"
                     ELSE IF bound[ApprovalOf[c]] = c THEN "bound" ELSE "read"
           \/ /\ m = "read" /\ n = "bound" /\ UNCHANGED transmitted
              /\ bound[ApprovalOf[c]] = NoRow /\ bound'[ApprovalOf[c]] = c
           \/ /\ m = "bound" /\ n = "sent" /\ UNCHANGED bound
              /\ ~(transmitted[c] > 0) /\ transmitted'[c] > 0
  PROVE  Served
<1>1. /\ \A a \in Approvals : MovesOnly(a, c)
      /\ \A a \in Approvals : a # ApprovalOf[c] => bound'[a] = bound[a]
      /\ IsMarker(c) => ApprovalOf[c] \in Approvals /\ c \in MarkersOf(ApprovalOf[c])
      /\ MarkerAt(c) = m /\ MarkerAt(c)' = n
      /\ status'[c] = "absent" <=> status[c] = "absent"
  BY HolderMarks
<1>2. ASSUME IsMarker(c), NEW a \in Approvals, a = ApprovalOf[c]
      PROVE  \/ DispatcherStep(a)
             \/ MarkerAt(c)' = MarkerAt(c) /\ bound'[a] = bound[a]
  <2>1. c \in MarkersOf(a) /\ MovesOnly(a, c) /\ (transmitted' = transmitted => Settled(c))
    BY <1>1, <1>2 DEF Settled
  <2>2. CASE n = m /\ UNCHANGED bound
    BY <1>1, <2>2
  <2>3. CASE /\ m \in {"queued", "read", "bound"} /\ n \in {"queued", "error"}
             /\ UNCHANGED <<bound, transmitted>>
    BY <1>1, <2>1, <2>3, FailsServes
  <2>4. CASE /\ m = "queued" /\ UNCHANGED <<bound, transmitted>>
             /\ n = IF bound[a] \notin {c, NoRow} THEN "error"
                    ELSE IF bound[a] = c THEN "bound" ELSE "read"
    BY <1>1, <2>1, <2>4, ReadServes
  <2>5. CASE m = "read" /\ n = "bound" /\ UNCHANGED transmitted /\ bound[a] = NoRow /\ bound'[a] = c
    BY <1>1, <2>1, <2>5, BindServes
  <2>6. CASE /\ m = "bound" /\ n = "sent" /\ UNCHANGED bound
             /\ ~(transmitted[c] > 0) /\ transmitted'[c] > 0
    BY <1>1, <2>1, <2>6, SendServes
  <2> QED
    BY <1>2, <2>2, <2>3, <2>4, <2>5, <2>6
<1>3. IsMarker(c) =>
        \/ DispatcherStep(ApprovalOf[c])
        \/ MarkerAt(c)' = MarkerAt(c) /\ bound'[ApprovalOf[c]] = bound[ApprovalOf[c]]
  BY <1>1, <1>2
<1> QED
  BY <1>1, <1>3, RowServed

\* Past the binding, or on the way out, only a transmission or a write-back
\* moves the marker.
LEMMA CarriesOn ==
  ASSUME TypeOK, TypeOK', Safe, Marked, Marked', NEW w \in Workers,
         pc[w] \in Holding \ {"gates", "approval", "bind"},
         NEW l \in Holding \ {"gates", "approval", "bind"}, Goto(w, l),
         UNCHANGED <<status, cur, transmitted, bound>>
  PROVE  Served
<1> SUFFICES ASSUME NEW c \in Rows, cur[w] = c PROVE Served
  BY InFlight
<1>1. HeldMark(c, l)' = HeldMark(c, pc[w])
  BY DEF HeldMark
<1> QED
  BY <1>1, HolderServed

\* A step that lets go of a row, or takes it: the row was or is in nobody's hands.
LEMMA Frees ==
  ASSUME TypeOK, TypeOK', Safe, Marked', NEW w \in Workers, NEW c \in Rows,
         \A v \in Workers : v # w => pc'[v] = pc[v] /\ cur'[v] = cur[v],
         pc[w] \in Holding => cur[w] = c,
         \A v \in Workers : pc[v] \in Holding /\ cur[v] = c => v = w,
         pc'[w] \notin Holding, UNCHANGED <<bound, transmitted>>,
         \A r \in Rows : r # c => status'[r] = status[r]
  PROVE  /\ \A a \in Approvals : MovesOnly(a, c)
         /\ MarkerAt(c)' = FreeMark(c)'
<1>1. \A a \in Approvals : MovesOnly(a, c)
  BY OthersStay
<1>2. ~HeldAt(c, Holding)'
  BY DEF HeldAt
<1> QED
  BY <1>1, <1>2 DEF Marked

\* Only the marker's own invocation could bind it, and it has not yet.
LEMMA UnboundStep ==
  TypeOK /\ TypeOK' /\ Safe /\ Spent /\ Unbound /\ [Next]_vars => Unbound'
<1> SUFFICES ASSUME TypeOK, TypeOK', Safe, Spent, Unbound, [Next]_vars PROVE Unbound'
  OBVIOUS
<1> USE RowsAreOrdered, ApprovalsAssumption
<1> USE DEF Unbound, TypeOK, Holding, BeforeSend, AfterSend, Failing,
            rowVars, approvalVars, localVars, worldVars, historyVars
<1>1. CASE UNCHANGED <<pc, cur, bound>>
  BY <1>1
<1>2. ASSUME NEW w \in Workers, NEW l \in Locations \ {"bind"}, Goto(w, l), UNCHANGED <<cur, bound>>
      PROVE  Unbound'
  BY <1>2 DEF Goto
<1>3. ASSUME NEW r \in Rows, Write(r) \/ Freeze(r) \/ Unfreeze(r) PROVE Unbound'
  BY <1>1, <1>3 DEF Write, ScheduleSend, InsertMarker, Insert, CancelRead, CancelWrite, Freeze, Unfreeze
<1>4. ASSUME NEW w \in Workers, Claim(w) PROVE Unbound'
  <2>1. PICK r \in Rows : cur' = [cur EXCEPT ![w] = r]
    BY <1>4 DEF Claim
  <2>2. pc' = [pc EXCEPT ![w] = "gates"] /\ UNCHANGED bound
    BY <1>4 DEF Claim, Goto
  <2> QED
    BY <2>1, <2>2
<1>5. ASSUME NEW w \in Workers, Skip(w) \/ ClaimLost(w) PROVE Unbound'
  BY <1>1, <1>5 DEF Skip, ClaimLost
<1>6. ASSUME NEW w \in Workers,
             FetchNothing(w) \/ Finish(w) \/ Crash(w) \/ MarkSent(w) \/ Defer(w) \/ MarkError(w)
               \/ LoseWriteBack(w)
      PROVE  Unbound'
  <2>1. UNCHANGED bound /\ ForgetRow(w) /\ \E l \in {"idle", "loop"} : Goto(w, l)
    BY <1>6 DEF FetchNothing, Finish, Crash, MarkSent, Defer, MarkError, LoseWriteBack, WriteBack,
       NextRow, Stop
  <2> QED
    BY <2>1 DEF ForgetRow, Goto
<1>7. ASSUME NEW w \in Workers,
             Reclaim(w) \/ ReclaimFails(w) \/ Fetch(w) \/ PassGates(w) \/ RefuseAtGate(w)
               \/ PassKey(w) \/ RefuseNarrowedKey(w) \/ BrakeAllows(w) \/ BrakeFailsOpen(w)
               \/ BrakeHolds(w)
      PROVE  Unbound'
  <2>1. UNCHANGED <<cur, bound>> /\ \E l \in Locations \ {"bind"} : Goto(w, l)
    BY <1>7 DEF Reclaim, ReclaimFails, Fetch, PassGates, RefuseAtGate, PassKey, RefuseNarrowedKey,
       BrakeAllows, BrakeFailsOpen, BrakeHolds, Throw, RowStep, Locations
  <2> QED
    BY <1>2, <2>1
<1>8. ASSUME NEW w \in Workers,
             SendDirect(w) \/ SendRerun(w) \/ SettleRerun(w) \/ SettleSent(w) \/ SettleFailed(w)
               \/ LoseSettlement(w) \/ Fail(w)
      PROVE  Unbound'
  <2>1. UNCHANGED <<cur, bound>> /\ \E l \in Locations \ {"bind"} : Goto(w, l)
    BY <1>8 DEF SendDirect, SendRerun, SettleRerun, SettleSent, SettleFailed, LoseSettlement, Fail,
       Throw, RowStep, SendStep, Locations
  <2> QED
    BY <1>2, <2>1
<1>9. ASSUME NEW w \in Workers, ReadApproval(w) PROVE Unbound'
  <2>1. IsMarker(cur[w]) /\ cur[w] \in Rows /\ cur[w] # NoRow
    BY <1>9, InFlight DEF ReadApproval, Spent
  <2> QED
    BY <1>9, <2>1 DEF ReadApproval, RowStep, Throw, Goto
<1>10. ASSUME NEW w \in Workers, Bind(w) \/ BindFails(w) PROVE Unbound'
  <2>1. /\ UNCHANGED cur /\ pc[w] = "bind"
        /\ \E l \in Locations \ {"bind"} : Goto(w, l)
        /\ \/ bound' = [bound EXCEPT ![ApprovalOf[cur[w]]] = cur[w]]
           \/ UNCHANGED bound
    BY <1>10 DEF Bind, BindFails, RowStep, Throw, Locations
  <2> SUFFICES ASSUME NEW v \in Workers, pc'[v] = "bind"
               PROVE  bound'[ApprovalOf[cur[v]]] # cur[v]
    BY <2>1
  <2>2. v # w /\ pc[v] = "bind"
    BY <2>1 DEF Goto
  <2>3. cur[v] # cur[w] /\ ApprovalOf[cur[v]] \in Approvals
    BY <2>1, <2>2, InFlight DEF Spent
  <2>4. bound[ApprovalOf[cur[v]]] # cur[v]
    BY <2>2
  <2>5. bound \in [Approvals -> Rows \cup {NoRow}]
    OBVIOUS
  <2> HIDE DEF Unbound, TypeOK
  <2> QED
    BY <2>1, <2>3, <2>4, <2>5
<1>11. CASE Tick
  BY <1>1, <1>11 DEF Tick
<1>12. CASE UNCHANGED vars
  BY <1>1, <1>12 DEF vars
<1> QED
  BY <1>3, <1>4, <1>5, <1>6, <1>7, <1>8, <1>9, <1>10, <1>11, <1>12 DEF Next, Step, Incident

\* A step that takes up no row and drops none, and changes no status but that of
\* a row that was left 'sending'.
LEMMA NothingMoves ==
  ASSUME \A v \in Workers : \/ pc'[v] = pc[v] /\ cur'[v] = cur[v]
                            \/ pc[v] \notin Holding /\ pc'[v] \notin Holding,
         UNCHANGED <<transmitted, bound>>,
         \A r \in Rows : \/ status'[r] = status[r]
                         \/ /\ ~HeldAt(r, Holding)
                            /\ status[r] = "sending" /\ status'[r] = "error"
  PROVE  Served
<1> SUFFICES ASSUME NEW a \in Approvals, NEW r \in MarkersOf(a) PROVE MarkerAt(r)' = MarkerAt(r)
  BY NoneServed DEF Served
<1>1. r \in Rows
  BY DEF MarkersOf
<1>2. ASSUME NEW L \in SUBSET Holding PROVE HeldAt(r, L)' = HeldAt(r, L)
  <2>1. \A v \in Workers : (pc'[v] \in L /\ cur'[v] = r) <=> (pc[v] \in L /\ cur[v] = r)
    OBVIOUS
  <2> QED
    BY <2>1 DEF HeldAt
<1>3. /\ HeldAt(r, Holding)' = HeldAt(r, Holding)
      /\ HeldAt(r, {"bind"})' = HeldAt(r, {"bind"})
      /\ HeldAt(r, {"gates", "approval"})' = HeldAt(r, {"gates", "approval"})
  <2>1. Holding \in SUBSET Holding /\ {"bind"} \in SUBSET Holding
        /\ {"gates", "approval"} \in SUBSET Holding
    BY DEF Holding, BeforeSend
  <2> QED
    BY <1>2, <2>1
<1>4. \/ status'[r] = status[r]
      \/ ~HeldAt(r, Holding) /\ status[r] = "sending" /\ status'[r] = "error"
  BY <1>1
<1> HIDE DEF HeldAt
<1> QED
  BY <1>3, <1>4 DEF MarkerAt

\* What a writer or the world does to a marker that nobody holds.
LEMMA WriterServed ==
  ASSUME TypeOK, TypeOK', Safe, Marked, Marked', NEW c \in Rows,
         ScheduleSend(c) \/ InsertMarker(c) \/ CancelWrite(c)
  PROVE  Served
<1> USE ApprovalsAssumption
<1> USE DEF ScheduleSend, InsertMarker, Insert, CancelWrite, Cancellable, approvalVars, localVars, historyVars
<1>1. UNCHANGED <<pc, cur, bound, transmitted>> /\ \A r \in Rows : r # c => status'[r] = status[r]
  BY DEF TypeOK
<1>2. CASE status' = status
  BY <1>1, <1>2, NothingMoves
<1>3. CASE status' # status
  <2>1. /\ status[c] \in {"absent", "pending"} /\ transmitted[c] = 0
        /\ \/ status[c] = "absent" /\ status'[c] = "pending"
           \/ status[c] = "pending" /\ status'[c] = "cancelled"
    BY <1>3 DEF TypeOK, Safe, StatusIsTruth
  <2>2. ~HeldAt(c, Holding)
    BY <2>1 DEF HeldAt, Safe, HeldRow
  <2>3. ~HeldAt(c, Holding)'
    BY <1>1, <2>2 DEF HeldAt
  <2>4. MarkerAt(c) = FreeMark(c) /\ MarkerAt(c)' = FreeMark(c)'
    BY <2>2, <2>3 DEF Marked
  <2>5. ASSUME NEW a \in Approvals, NEW r \in MarkersOf(a), r # c
        PROVE  MarkerAt(r)' = MarkerAt(r) /\ status'[r] = status[r] /\ transmitted'[r] = transmitted[r]
    <3>1. r \in Rows
      BY DEF MarkersOf
    <3> QED
      BY <1>1, <2>5, <3>1 DEF MarkerAt, HeldAt
  <2>6. \A a \in Approvals : MovesOnly(a, c)
    BY <2>5 DEF MovesOnly
  <2>7. ASSUME IsMarker(c), NEW a \in Approvals, a = ApprovalOf[c] PROVE DispatcherStep(a)
    <3>1. c \in MarkersOf(a) /\ MovesOnly(a, c) /\ bound'[a] = bound[a]
      BY <1>1, <2>6, <2>7 DEF MarkersOf
    <3>2. CASE status[c] = "absent" /\ status'[c] = "pending"
      <4>1. MarkerAt(c)' = "queued" /\ transmitted'[c] = transmitted[c]
        BY <1>1, <2>1, <2>4, <3>2 DEF FreeMark
      <4> QED
        BY <3>1, <3>2, <4>1, InsertServes
    <3>3. CASE status[c] = "pending" /\ status'[c] = "cancelled"
      <4>1. MarkerAt(c) = "queued" /\ MarkerAt(c)' = "cancelled" /\ Settled(c)
        BY <1>1, <2>1, <2>4, <3>3 DEF FreeMark, Settled
      <4> QED
        BY <3>1, <4>1, CancelServes
    <3> QED
      BY <2>1, <3>2, <3>3
  <2>8. IsMarker(c) => DispatcherStep(ApprovalOf[c])
    BY <2>7 DEF IsMarker
  <2> QED
    BY <1>1, <2>6, <2>8, RowServed
<1> QED
  BY <1>2, <1>3

\* Taking a row moves its marker nowhere.
LEMMA ClaimServed ==
  ASSUME TypeOK, TypeOK', Safe, Safe', Marked, Marked', NEW w \in Workers, Claim(w)
  PROVE  Served
<1> USE DEF approvalVars, historyVars
<1>1. PICK c \in Rows : /\ status[c] = "pending"
                        /\ status' = [status EXCEPT ![c] = "sending"]
                        /\ cur' = [cur EXCEPT ![w] = c]
  BY DEF Claim, Claimable
<1>2. /\ pc[w] \notin Holding /\ pc'[w] = "gates" /\ cur'[w] = c
      /\ \A v \in Workers : v # w => pc'[v] = pc[v] /\ cur'[v] = cur[v]
      /\ UNCHANGED <<bound, transmitted>>
  BY <1>1 DEF Claim, Goto, TypeOK, Holding, BeforeSend, AfterSend, Failing
<1>3. \A r \in Rows : r # c => status'[r] = status[r] /\ transmitted'[r] = transmitted[r]
  BY <1>1, <1>2 DEF TypeOK
<1>4. \A a \in Approvals : MovesOnly(a, c)
  BY <1>2, <1>3, OthersStay
<1>5. ~HeldAt(c, Holding) /\ transmitted[c] = 0
  BY <1>1 DEF HeldAt, Safe, HeldRow, StatusIsTruth
<1>6. MarkerAt(c) = "queued"
  BY <1>1, <1>5 DEF Marked, FreeMark
<1>7. MarkerAt(c)' = "queued"
  <2>1. MarkerAt(c)' = HeldMark(c, "gates")'
    BY <1>2 DEF Marked, Holding, BeforeSend
  <2> QED
    BY <1>2, <1>5, <2>1 DEF HeldMark
<1> QED
  BY <1>2, <1>4, <1>6, <1>7, RowServed

\* A row is left in nobody's hands: its marker was sent, is queued again or has
\* failed.
LEMMA LetGoServed ==
  ASSUME TypeOK, TypeOK', Safe, Marked, Marked', NEW w \in Workers, NEW c \in Rows,
         \/ pc[w] \in Holding /\ cur[w] = c
         \/ pc[w] \notin Holding /\ status[c] = "pending",
         \A v \in Workers : v # w => pc'[v] = pc[v] /\ cur'[v] = cur[v],
         pc'[w] \notin Holding, UNCHANGED <<bound, transmitted>>,
         \A r \in Rows : r # c => status'[r] = status[r],
         \/ status'[c] \in {"sending", "error"}
         \/ status'[c] = "sent" /\ transmitted[c] > 0
         \/ status'[c] = "pending" /\ ~(transmitted[c] > 0)
  PROVE  Served
<1> USE ApprovalsAssumption
<1>1. \A v \in Workers : pc[v] \in Holding /\ cur[v] = c => v = w
  BY DEF Safe, HeldRow, SingleOwner
<1>2. (\A a \in Approvals : MovesOnly(a, c)) /\ MarkerAt(c)' = FreeMark(c)'
  BY <1>1, Frees
<1>3. /\ transmitted[c] > 0 => MarkerAt(c) = "sent"
      /\ ~(transmitted[c] > 0) => MarkerAt(c) \in {"queued", "read", "bound"}
      /\ status[c] # "absent"
  <2>1. CASE pc[w] \in Holding /\ cur[w] = c
    <3>1. MarkerAt(c) = HeldMark(c, pc[w])
      BY <2>1 DEF Marked
    <3> QED
      BY <2>1, <3>1 DEF HeldMark, Safe, HeldRow
  <2>2. CASE pc[w] \notin Holding /\ status[c] = "pending"
    <3>1. ~HeldAt(c, Holding)
      BY <2>2 DEF HeldAt, Safe, HeldRow
    <3>2. MarkerAt(c) = FreeMark(c)
      BY <3>1 DEF Marked
    <3> QED
      BY <2>2, <3>2 DEF FreeMark
  <2> QED
    BY <2>1, <2>2
<1>4. /\ transmitted[c] > 0 => MarkerAt(c)' = "sent"
      /\ ~(transmitted[c] > 0) => MarkerAt(c)' \in {"queued", "error"}
      /\ status'[c] # "absent"
  BY <1>2 DEF FreeMark
<1>5. ASSUME IsMarker(c), ~(transmitted[c] > 0), NEW a \in Approvals, a = ApprovalOf[c]
      PROVE  DispatcherStep(a)
  <2>1. c \in MarkersOf(a) /\ MovesOnly(a, c) /\ Settled(c)
    BY <1>2, <1>3, <1>4, <1>5 DEF MarkersOf, Settled
  <2> QED
    BY <1>3, <1>4, <1>5, <2>1, FailsServes
<1>6. IsMarker(c) => DispatcherStep(ApprovalOf[c]) \/ MarkerAt(c)' = MarkerAt(c)
  BY <1>3, <1>4, <1>5 DEF IsMarker
<1> QED
  BY <1>2, <1>6, RowServed

\* From the gates to the provider: each call of an invocation that holds a row.
LEMMA HolderStepServed ==
  ASSUME TypeOK, TypeOK', Safe, Spent, Unbound, Marked, Marked', NEW w \in Workers,
         \/ PassGates(w) \/ RefuseAtGate(w) \/ ReadApproval(w) \/ Bind(w) \/ BindFails(w)
         \/ SendDirect(w) \/ SendRerun(w)
  PROVE  Served
<1> USE RowsAreOrdered, ApprovalsAssumption
<1> USE DEF rowVars, approvalVars
<1>1. pc[w] \in BeforeSend /\ pc[w] \in Holding
  BY DEF PassGates, RefuseAtGate, ReadApproval, Bind, BindFails, SendDirect, SendRerun, Holding, BeforeSend
<1> SUFFICES ASSUME NEW c \in Rows, cur[w] = c PROVE Served
  BY <1>1, InFlight
<1>2. /\ ~(transmitted[c] > 0) /\ c # NoRow
      /\ IsMarker(c) => ApprovalOf[c] \in Approvals
      /\ pc[w] \in {"key", "send"} /\ IsMarker(c) => bound[ApprovalOf[c]] = c
      /\ pc[w] \in {"approval", "bind", "key"} => IsMarker(c)
      /\ pc[w] = "bind" => bound[ApprovalOf[c]] # c
  BY <1>1 DEF Safe, UnsentInv, Untransmitted, Spent, Unbound, IsMarker
<1>3. UNCHANGED <<status, cur>>
  BY DEF PassGates, RefuseAtGate, ReadApproval, Bind, BindFails, SendDirect, SendRerun, RowStep, SendStep
<1> USE DEF HeldMark
<1>4. CASE PassGates(w)
  <2>1. PICK l \in {"approval", "brake"} : Goto(w, l) /\ (IsMarker(c) => l = "approval")
    BY <1>4 DEF PassGates
  <2>2. pc[w] = "gates" /\ UNCHANGED <<bound, transmitted>> /\ l \in Holding
    BY <1>4 DEF PassGates, RowStep, Holding, BeforeSend
  <2>3. IsMarker(c) => HeldMark(c, l)' = HeldMark(c, pc[w])
    BY <1>2, <2>1, <2>2
  <2> QED
    BY <1>1, <1>3, <2>1, <2>2, <2>3, HolderServed
<1>5. CASE RefuseAtGate(w)
  <2>1. Goto(w, "caught") /\ UNCHANGED <<bound, transmitted>> /\ "caught" \in Holding
    BY <1>5 DEF RefuseAtGate, Throw, RowStep, Holding, Failing
  <2>2. CASE pc[w] = "key"
    <3>1. HeldMark(c, "caught")' = HeldMark(c, pc[w])
      BY <2>1, <2>2
    <3> QED
      BY <1>1, <1>3, <2>1, <3>1, HolderServed
  <2>3. CASE pc[w] \in {"gates", "approval"}
    <3>1. HeldMark(c, pc[w]) = "queued"
      BY <1>2, <2>3
    <3>2. HeldMark(c, "caught")' = IF bound[ApprovalOf[c]] = c THEN "bound" ELSE "queued"
      BY <1>2, <2>1
    <3> QED
      BY <1>1, <1>2, <1>3, <2>1, <3>1, <3>2, HolderServed
  <2> QED
    BY <1>5, <2>2, <2>3 DEF RefuseAtGate
<1>6. CASE ReadApproval(w)
  <2>1. pc[w] = "approval" /\ UNCHANGED <<bound, transmitted>> /\ HeldMark(c, pc[w]) = "queued"
    BY <1>2, <1>6 DEF ReadApproval, RowStep
  <2>2. PICK l \in {"key", "bind", "caught"} :
          /\ Goto(w, l)
          /\ \/ l = "key" /\ bound[ApprovalOf[c]] = c
             \/ l = "bind" /\ bound[ApprovalOf[c]] = NoRow
             \/ l = "caught" /\ bound[ApprovalOf[c]] \notin {c, NoRow}
    BY <1>6 DEF ReadApproval, Throw
  <2>3. l \in Holding
    BY DEF Holding, BeforeSend, Failing
  <2>4. HeldMark(c, l)' = IF l = "key" THEN "bound" ELSE IF l = "bind" THEN "read" ELSE "queued"
    BY <1>2, <2>1, <2>2
  <2> QED
    BY <1>1, <1>2, <1>3, <2>1, <2>2, <2>3, <2>4, HolderServed
<1>7. CASE Bind(w) \/ BindFails(w)
  <2>1. pc[w] = "bind" /\ UNCHANGED transmitted /\ HeldMark(c, pc[w]) = "read" /\ IsMarker(c)
    BY <1>2, <1>7 DEF Bind, BindFails, RowStep
  <2>2. PICK l \in {"key", "caught"} :
          /\ Goto(w, l)
          /\ \/ /\ bound[ApprovalOf[c]] = NoRow
                /\ bound' = [bound EXCEPT ![ApprovalOf[c]] = c]
             \/ l = "caught" /\ UNCHANGED bound
    BY <1>7 DEF Bind, BindFails, Throw, Bindable
  <2>3. l \in Holding
    BY DEF Holding, BeforeSend, Failing
  <2>4. CASE bound[ApprovalOf[c]] = NoRow /\ bound' = [bound EXCEPT ![ApprovalOf[c]] = c]
    <3>1. bound'[ApprovalOf[c]] = c
      BY <1>2, <2>1, <2>4 DEF TypeOK
    <3>2. HeldMark(c, l)' = "bound"
      BY <1>2, <2>1, <2>2, <3>1
    <3> QED
      BY <1>1, <1>3, <2>1, <2>2, <2>3, <2>4, <3>1, <3>2, HolderServed
  <2>5. CASE l = "caught" /\ UNCHANGED bound
    <3>1. HeldMark(c, l)' = "queued"
      BY <1>2, <2>1, <2>5
    <3> QED
      BY <1>1, <1>3, <2>1, <2>2, <2>3, <2>5, <3>1, HolderServed
  <2> QED
    BY <2>2, <2>4, <2>5
<1>8. CASE SendDirect(w) \/ SendRerun(w)
  <2>1. pc[w] = "send" /\ UNCHANGED bound /\ (IsMarker(c) => HeldMark(c, pc[w]) = "bound")
    BY <1>2, <1>8 DEF SendDirect, SendRerun, SendStep
  <2>2. PICK l \in AfterSend \cup {"caught"} :
          Goto(w, l) /\ (Transmit(c) \/ UNCHANGED transmitted)
    BY <1>8 DEF SendDirect, SendRerun, Throw, AfterSend
  <2>3. l \in Holding /\ l \notin {"gates", "approval", "bind"}
    BY DEF Holding, AfterSend, Failing
  <2>4. CASE Transmit(c)
    <3>1. transmitted'[c] > 0
      BY <2>4 DEF Transmit, TypeOK
    <3>2. HeldMark(c, l)' = "sent"
      BY <3>1
    <3> QED
      BY <1>1, <1>2, <1>3, <2>1, <2>2, <2>3, <3>1, <3>2, HolderServed
  <2>5. CASE UNCHANGED transmitted
    <3>1. IsMarker(c) => HeldMark(c, l)' = "bound"
      BY <1>2, <2>1, <2>3, <2>5
    <3> QED
      BY <1>1, <1>3, <2>1, <2>2, <2>3, <2>5, <3>1, HolderServed
  <2> QED
    BY <2>2, <2>4, <2>5
<1> QED
  BY <1>4, <1>5, <1>6, <1>7, <1>8

\* Every step of the queue.
LEMMA ServedStep ==
  ASSUME TypeOK, TypeOK', Safe, Safe', Timed, Spent, Unbound, Marked, Marked', [Next]_vars
  PROVE  Served
<1> USE DEF rowVars, approvalVars, localVars, worldVars, historyVars
<1>1. ASSUME NEW r \in Rows, Write(r) PROVE Served
  <2>1. CASE CancelRead(r)
    BY <2>1, NothingMoves DEF CancelRead
  <2> QED
    BY <1>1, <2>1, WriterServed DEF Write
<1>2. CASE \/ \E r \in Rows : Freeze(r) \/ Unfreeze(r)
           \/ Tick \/ UNCHANGED vars
  <2>1. UNCHANGED <<status, pc, cur, bound, transmitted>>
    BY <1>2 DEF Freeze, Unfreeze, Tick, vars
  <2> QED
    BY <2>1, NothingMoves
<1>3. ASSUME NEW w \in Workers, Reclaim(w) PROVE Served
  <2>1. pc[w] \notin Holding /\ pc'[w] \notin Holding /\ \A v \in Workers : v # w => pc'[v] = pc[v]
    BY <1>3 DEF Reclaim, Goto, TypeOK, Holding, BeforeSend, AfterSend, Failing
  <2>2. UNCHANGED <<cur, bound, transmitted>>
    BY <1>3 DEF Reclaim
  <2>3. ASSUME NEW r \in Rows, status'[r] # status[r]
        PROVE  ~HeldAt(r, Holding) /\ status[r] = "sending" /\ status'[r] = "error"
    <3>1. IsStale(r) /\ status'[r] = "error"
      BY <1>3, <2>3 DEF Reclaim, ReclaimedTo
    <3>2. ASSUME NEW v \in Workers, pc[v] \in Holding, cur[v] = r PROVE FALSE
      <4>1. since[r] <= life[v] /\ life[v] <= MaxInvocation /\ since[r] > STALE_SENDING
        BY <3>1, <3>2 DEF Timed, IsStale
      <4>2. since[r] \in Nat /\ life[v] \in Nat
        BY DEF TypeOK
      <4> QED
        BY <4>1, <4>2, InvocationsEndBeforeReclaim, LimitsAssumption
    <3> QED
      BY <3>1, <3>2 DEF HeldAt, IsStale
  <2> QED
    BY <2>1, <2>2, <2>3, NothingMoves
<1>4. ASSUME NEW w \in Workers, pc[w] \notin Holding, NEW l \in {"idle", "fetch", "loop"},
             pc' = [pc EXCEPT ![w] = l], \A v \in Workers : v # w => cur'[v] = cur[v],
             UNCHANGED <<status, bound, transmitted>>
      PROVE  Served
  <2>1. pc'[w] \notin Holding /\ \A v \in Workers : v # w => pc'[v] = pc[v]
    BY <1>4 DEF TypeOK, Holding, BeforeSend, AfterSend, Failing
  <2> QED
    BY <1>4, <2>1, NothingMoves
<1>5. ASSUME NEW w \in Workers, ReclaimFails(w) \/ Fetch(w) PROVE Served
  BY <1>4, <1>5 DEF ReclaimFails, Fetch, Goto, Holding, BeforeSend, AfterSend, Failing
<1>6. ASSUME NEW w \in Workers, FetchNothing(w) \/ Finish(w) PROVE Served
  BY <1>4, <1>6 DEF FetchNothing, Finish, Stop, ForgetRow, Goto, TypeOK, Holding, BeforeSend,
     AfterSend, Failing
<1>7. ASSUME NEW w \in Workers, Skip(w) PROVE Served
  BY <1>7, NothingMoves DEF Skip
<1>8. ASSUME NEW w \in Workers, Claim(w) PROVE Served
  BY <1>8, ClaimServed
<1>9. ASSUME NEW w \in Workers, ClaimLost(w) PROVE Served
  <2>1. PICK c \in Rows : status[c] = "pending" /\ status' = [status EXCEPT ![c] = "sending"]
    BY <1>9 DEF ClaimLost, Claimable
  <2>2. UNCHANGED <<pc, cur, bound, transmitted>> /\ pc[w] \notin Holding
    BY <1>9 DEF ClaimLost, Holding, BeforeSend, AfterSend, Failing
  <2>3. status'[c] = "sending" /\ \A r \in Rows : r # c => status'[r] = status[r]
    BY <2>1 DEF TypeOK
  <2> QED
    BY <2>1, <2>2, <2>3, LetGoServed
<1>10. ASSUME NEW w \in Workers,
              MarkSent(w) \/ Defer(w) \/ MarkError(w) \/ LoseWriteBack(w) \/ Crash(w)
       PROVE  Served
  <2>1. /\ \E l \in {"idle", "loop"} : pc' = [pc EXCEPT ![w] = l]
        /\ ForgetRow(w) /\ UNCHANGED <<bound, transmitted>>
    BY <1>10 DEF MarkSent, Defer, MarkError, LoseWriteBack, Crash, WriteBack, NextRow, Stop, Goto
  <2>2. /\ \A v \in Workers : v # w => pc'[v] = pc[v] /\ cur'[v] = cur[v]
        /\ pc'[w] \notin Holding
    BY <2>1 DEF ForgetRow, TypeOK, Holding, BeforeSend, AfterSend, Failing
  <2>3. CASE pc[w] \notin Holding
    <3>1. Crash(w)
      BY <1>10, <2>3 DEF MarkSent, Defer, MarkError, LoseWriteBack, Holding, AfterSend, Failing
    <3> QED
      BY <1>4, <2>1, <2>2, <2>3, <3>1 DEF Crash
  <2>4. CASE pc[w] \in Holding
    <3> SUFFICES ASSUME NEW c \in Rows, cur[w] = c PROVE Served
      BY <2>4, InFlight
    <3>1. status[c] = "sending"
      BY <2>4 DEF Timed
    <3>2. \A r \in Rows : r # c => status'[r] = status[r]
      BY <1>10 DEF MarkSent, Defer, MarkError, LoseWriteBack, Crash, WriteBack, TypeOK
    <3>3. CASE MarkSent(w)
      <4>1. status'[c] = "sent"
        BY <3>3 DEF MarkSent, WriteBack, TypeOK
      <4>2. transmitted[c] > 0
        BY <3>3 DEF MarkSent, Safe, SentInv, Transmitted
      <4> QED
        BY <2>1, <2>2, <2>4, <3>2, <4>1, <4>2, LetGoServed
    <3>4. CASE Defer(w)
      <4>1. status'[c] = "pending"
        BY <3>4 DEF Defer, WriteBack, TypeOK
      <4>2. transmitted[c] = 0
        BY <3>4 DEF Defer, Deferrable, Safe, UnsentInv, Untransmitted
      <4> QED
        BY <2>1, <2>2, <2>4, <3>2, <4>1, <4>2, LetGoServed
    <3>5. CASE MarkError(w) \/ LoseWriteBack(w) \/ Crash(w)
      <4>1. status'[c] \in {"sending", "error"}
        BY <3>1, <3>5 DEF MarkError, LoseWriteBack, Crash, WriteBack, TypeOK
      <4> QED
        BY <2>1, <2>2, <2>4, <3>2, <4>1, LetGoServed
    <3> QED
      BY <1>10, <3>3, <3>4, <3>5
  <2> QED
    BY <2>3, <2>4
<1>11. ASSUME NEW w \in Workers,
              \/ PassKey(w) \/ RefuseNarrowedKey(w) \/ BrakeAllows(w) \/ BrakeFailsOpen(w)
              \/ BrakeHolds(w) \/ SettleRerun(w) \/ SettleSent(w) \/ Fail(w) \/ SettleFailed(w)
              \/ LoseSettlement(w)
       PROVE  Served
  <2>1. /\ pc[w] \in Holding \ {"gates", "approval", "bind"}
        /\ UNCHANGED <<status, cur, transmitted, bound>>
        /\ \E l \in Holding \ {"gates", "approval", "bind"} : Goto(w, l)
    BY <1>11 DEF PassKey, RefuseNarrowedKey, BrakeAllows, BrakeFailsOpen, BrakeHolds, SettleRerun,
       SettleSent, Fail, SettleFailed, LoseSettlement, RowStep, Throw, Holding, BeforeSend,
       AfterSend, Failing
  <2> QED
    BY <2>1, CarriesOn
<1> QED
  BY <1>1, <1>2, <1>3, <1>5, <1>6, <1>7, <1>8, <1>9, <1>10, <1>11, HolderStepServed
  DEF Next, Step, Incident

\* Whatever the queue does to an approval and its markers, with any number of
\* invocations that overlap, crash, defer and reclaim, is a step that
\* SendApprovals allows its dispatcher: what is proved there of a request holds
\* with this queue behind it.
THEOREM QueueServesApprovals == Spec => ServesApprovals
<1>1. Init => Unbound
  BY DEF Init, Unbound
<1>2. TypeOK /\ TypeOK' /\ Safe /\ Spent /\ Unbound /\ [Next]_vars => Unbound'
  BY UnboundStep
<1>3. Spec => []Unbound
  BY <1>1, <1>2, SpentAlways, PTL DEF Spec
<1>4. Spec => []Marked
  BY MarkedAlways, TimedAlways, PTL
<1>5. TypeOK /\ TypeOK' /\ Safe /\ Safe' /\ Timed /\ Spent /\ Unbound /\ Marked /\ Marked'
        /\ [Next]_vars => [Served]_vars
  BY ServedStep
<1> QED
  BY <1>3, <1>4, <1>5, TimedAlways, SpentAlways, PTL DEF Spec, ServesApprovals, Served

=============================================================================
