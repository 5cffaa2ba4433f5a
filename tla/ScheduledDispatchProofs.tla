---------------------- MODULE ScheduledDispatchProofs ----------------------
(***************************************************************************)
(* Proofs about ScheduledDispatch, for every set of rows, invocations and  *)
(* approvals and every value of the limits.                                *)
(***************************************************************************)
EXTENDS ScheduledDispatch, TLAPS

(***************************************************************************)
(* Type correctness: every column, loop variable and history variable      *)
(* keeps its type along every behaviour of the queue and its dispatchers.  *)
(***************************************************************************)
\* No step of a writer, an invocation, an incident or the clock leaves the types.
LEMMA TypeStep == TypeOK /\ [Next]_vars => TypeOK'
<1> SUFFICES ASSUME TypeOK, [Next]_vars PROVE TypeOK'
  OBVIOUS
<1> USE RowsAreOrdered, ApprovalsAssumption, LimitsAssumption
<1> USE DEF TypeOK, Statuses, Details, Errors, Results, Locations, Holding, BeforeSend,
            AfterSend, Failing, rowVars, approvalVars, localVars, worldVars, historyVars
<1>1. ASSUME NEW r \in Rows, ScheduleSend(r) PROVE TypeOK'
  BY <1>1 DEF ScheduleSend, Insert, KeepsOrder
<1>2. ASSUME NEW r \in Rows, InsertMarker(r) PROVE TypeOK'
  BY <1>2 DEF InsertMarker, Insert, KeepsOrder
<1>3. ASSUME NEW r \in Rows, CancelRead(r) PROVE TypeOK'
  BY <1>3 DEF CancelRead
<1>4. ASSUME NEW r \in Rows, CancelWrite(r) PROVE TypeOK'
  BY <1>4 DEF CancelWrite, Cancellable
<1>5. ASSUME NEW r \in Rows, Freeze(r) PROVE TypeOK'
  BY <1>5 DEF Freeze, Fault
<1>6. ASSUME NEW r \in Rows, Unfreeze(r) PROVE TypeOK'
  BY <1>6 DEF Unfreeze
<1>7. ASSUME NEW w \in Workers, Reclaim(w) PROVE TypeOK'
  BY <1>7 DEF Reclaim, Goto, ReclaimedTo
<1>8. ASSUME NEW w \in Workers, ReclaimFails(w) PROVE TypeOK'
  BY <1>8 DEF ReclaimFails, Goto, Fault
<1>9. ASSUME NEW w \in Workers, Fetch(w) PROVE TypeOK'
  BY <1>9 DEF Fetch, Goto, OldestDue, Due
<1>10. ASSUME NEW w \in Workers, FetchNothing(w) PROVE TypeOK'
  BY <1>10 DEF FetchNothing, Stop, ForgetRow, Goto, Fault, NoFault
<1>11. ASSUME NEW w \in Workers, Claim(w) PROVE TypeOK'
  BY <1>11 DEF Claim, Goto, FirstOf, TakeFrom, Claimable
<1>12. ASSUME NEW w \in Workers, Skip(w) PROVE TypeOK'
  BY <1>12 DEF Skip, FirstOf, TakeFrom, Fault, NoFault
<1>13. ASSUME NEW w \in Workers, Finish(w) PROVE TypeOK'
  BY <1>13 DEF Finish, Stop, ForgetRow, Goto
<1>14. ASSUME NEW w \in Workers, PassGates(w) PROVE TypeOK'
  BY <1>14 DEF PassGates, Goto, RowStep
<1>15. ASSUME NEW w \in Workers, RefuseAtGate(w) PROVE TypeOK'
  BY <1>15 DEF RefuseAtGate, Throw, Goto, RowStep
<1>16. ASSUME NEW w \in Workers, ReadApproval(w) PROVE TypeOK'
  <2> USE <1>16 DEF ReadApproval, RowStep
  <2>1. pc' \in [Workers -> Locations]
    <3>1. \E l \in {"key", "bind", "caught"} : Goto(w, l)
      BY DEF Throw
    <3> QED
      BY <3>1 DEF Goto
  <2>2. err' \in [Workers -> Errors]
    BY DEF Throw
  <2> QED
    BY <2>1, <2>2
<1>17. ASSUME NEW w \in Workers, Bind(w) PROVE TypeOK'
  <2> USE <1>17 DEF Bind, RowStep
  <2>1. bound' \in [Approvals -> Rows \cup {NoRow}]
    OBVIOUS
  <2>2. pc' \in [Workers -> Locations]
    <3>1. \E l \in {"key", "caught"} : Goto(w, l)
      BY DEF Throw
    <3> QED
      BY <3>1 DEF Goto
  <2>3. err' \in [Workers -> Errors]
    BY DEF Throw
  <2> QED
    BY <2>1, <2>2, <2>3
<1>18. ASSUME NEW w \in Workers, BindFails(w) PROVE TypeOK'
  BY <1>18 DEF BindFails, Throw, Goto, RowStep, Fault, Bindable
<1>19. ASSUME NEW w \in Workers, PassKey(w) PROVE TypeOK'
  BY <1>19 DEF PassKey, Goto, RowStep
<1>20. ASSUME NEW w \in Workers, RefuseNarrowedKey(w) PROVE TypeOK'
  BY <1>20 DEF RefuseNarrowedKey, Throw, Goto, RowStep
<1>21. ASSUME NEW w \in Workers, BrakeAllows(w) PROVE TypeOK'
  <2> USE <1>21 DEF BrakeAllows, Goto, RowStep
  <2>1. charged' \in [Rows -> {"no", "counted", "open"}]
    OBVIOUS
  <2>2. counted' \in [Workers -> BOOLEAN]
    OBVIOUS
  <2>3. pc' \in [Workers -> Locations]
    OBVIOUS
  <2> QED
    BY <2>1, <2>2, <2>3
<1>22. ASSUME NEW w \in Workers, BrakeFailsOpen(w) PROVE TypeOK'
  <2> USE <1>22 DEF BrakeFailsOpen, Goto, RowStep, Fault
  <2>1. charged' \in [Rows -> {"no", "counted", "open"}]
    OBVIOUS
  <2>2. counted' \in [Workers -> BOOLEAN]
    OBVIOUS
  <2>3. pc' \in [Workers -> Locations]
    OBVIOUS
  <2> QED
    BY <2>1, <2>2, <2>3
<1>23. ASSUME NEW w \in Workers, BrakeHolds(w) PROVE TypeOK'
  BY <1>23 DEF BrakeHolds, Throw, Goto, RowStep
<1>24. ASSUME NEW w \in Workers, SendDirect(w) PROVE TypeOK'
  <2> USE <1>24 DEF SendDirect, SendStep
  <2>1. pc' \in [Workers -> Locations]
    <3>1. \E l \in {"settle_sent", "mark_sent", "caught"} : Goto(w, l)
      BY DEF Throw
    <3> QED
      BY <3>1 DEF Goto
  <2>2. err' \in [Workers -> Errors]
    BY DEF Throw
  <2>3. transmitted' \in [Rows -> Nat]
    BY DEF Transmit
  <2> QED
    BY <2>1, <2>2, <2>3
<1>25. ASSUME NEW w \in Workers, SendRerun(w) PROVE TypeOK'
  <2> USE <1>25 DEF SendRerun, Goto, SendStep, Transmit
  <2>1. transmitted' \in [Rows -> Nat]
    OBVIOUS
  <2>2. result' \in [Workers -> Results]
    OBVIOUS
  <2>3. pc' \in [Workers -> Locations]
    OBVIOUS
  <2> QED
    BY <2>1, <2>2, <2>3
<1>26. ASSUME NEW w \in Workers, SettleRerun(w) PROVE TypeOK'
  <2> USE <1>26 DEF SettleRerun, RowStep
  <2>1. ledger' \in [Approvals -> {"pending_approval", "succeeded", "failed", "unknown"}]
    BY DEF CompleteApproved, RerunOutcome
  <2>2. pc' \in [Workers -> Locations]
    <3>1. \E l \in {"mark_sent", "caught"} : Goto(w, l)
      BY DEF Throw
    <3> QED
      BY <3>1 DEF Goto
  <2>3. err' \in [Workers -> Errors]
    BY DEF Throw
  <2> QED
    BY <2>1, <2>2, <2>3
<1>27. ASSUME NEW w \in Workers, SettleSent(w) PROVE TypeOK'
  BY <1>27 DEF SettleSent, Goto, RowStep, CompleteApproved
<1>28. ASSUME NEW w \in Workers, MarkSent(w) PROVE TypeOK'
  BY <1>28 DEF MarkSent, WriteBack, NextRow, ForgetRow, Goto
<1>29. ASSUME NEW w \in Workers, Defer(w) PROVE TypeOK'
  BY <1>29 DEF Defer, Deferrable, WriteBack, NextRow, ForgetRow, Goto
<1>30. ASSUME NEW w \in Workers, Fail(w) PROVE TypeOK'
  BY <1>30 DEF Fail, Deferrable, Goto, RowStep
<1>31. ASSUME NEW w \in Workers, SettleFailed(w) PROVE TypeOK'
  BY <1>31 DEF SettleFailed, Goto, RowStep, CompleteApproved, FailureOutcome
<1>32. ASSUME NEW w \in Workers, MarkError(w) PROVE TypeOK'
  BY <1>32 DEF MarkError, WriteBack, NextRow, ForgetRow, Goto
<1>33. ASSUME NEW w \in Workers, LoseWriteBack(w) PROVE TypeOK'
  BY <1>33 DEF LoseWriteBack, Deferrable, NextRow, ForgetRow, Goto, Fault
<1>34. ASSUME NEW w \in Workers, LoseSettlement(w) PROVE TypeOK'
  <2> USE <1>34 DEF LoseSettlement, RowStep
  <2>1. pc' \in [Workers -> Locations]
    <3>1. \E l \in Locations : Goto(w, l)
      BY DEF Throw
    <3> QED
      BY <3>1 DEF Goto
  <2>2. err' \in [Workers -> Errors]
    BY DEF Throw
  <2>3. faults' \in Nat
    BY DEF Fault
  <2> QED
    BY <2>1, <2>2, <2>3
<1>35. ASSUME NEW w \in Workers, Crash(w) PROVE TypeOK'
  BY <1>35 DEF Crash, Stop, ForgetRow, Goto, Fault
<1>36. CASE Tick
  BY <1>36 DEF Tick
<1>37. ASSUME NEW w \in Workers, ClaimLost(w) PROVE TypeOK'
  BY <1>37 DEF ClaimLost, FirstOf, TakeFrom, Claimable, Fault
<1>38. CASE UNCHANGED vars
  BY <1>38 DEF vars, rowVars, approvalVars, localVars, worldVars, historyVars
<1> QED
  BY <1>1, <1>2, <1>3, <1>4, <1>5, <1>6, <1>7, <1>8, <1>9, <1>10, <1>11, <1>12,
     <1>13, <1>14, <1>15, <1>16, <1>17, <1>18, <1>19, <1>20, <1>21, <1>22, <1>23, <1>24,
     <1>25, <1>26, <1>27, <1>28, <1>29, <1>30, <1>31, <1>32, <1>33, <1>34, <1>35, <1>36,
     <1>37, <1>38
     DEF Next, Write, Step, Incident

\* The scheduled_sends columns, the dispatcher's variables and the histories
\* have their types in every reachable state.
THEOREM TypeCorrect == Spec => []TypeOK
<1>1. Init => TypeOK
  BY ApprovalsAssumption DEF Init, TypeOK, Statuses, Details, Errors, Results, Locations
<1> QED
  BY <1>1, TypeStep, PTL DEF Spec

(***************************************************************************)
(* At most one transmission per row.  The argument: a row is held by at    *)
(* most one invocation, because only a 'pending' row can be claimed and a  *)
(* held row is 'sending' or was failed by the reclaim; and the only way    *)
(* back to 'pending' is a deferral, which an invocation takes only when    *)
(* the provider has none of the message.  Nothing here depends on how long *)
(* an invocation lives.                                                    *)
(***************************************************************************)
\* The invocation knows the provider has its row's message ...
Transmitted(w) ==
  \/ pc[w] \in {"settle_sent", "mark_sent"}
  \/ pc[w] = "settle_rerun" /\ result[w] = "success"

\* ... or knows that it has none of it.
Untransmitted(w) ==
  \/ pc[w] \in BeforeSend
  \/ pc[w] = "settle_rerun" /\ result[w] = "not_sent"
  \/ pc[w] = "caught" /\ err[w] \in {"held", "not_sent"}

HeldRow ==
  \A w \in Workers : pc[w] \in Holding =>
    cur[w] \in Rows /\ status[cur[w]] \in {"sending", "error"}

UnsentInv == \A w \in Workers : Untransmitted(w) => transmitted[cur[w]] = 0
SentInv == \A w \in Workers : Transmitted(w) => transmitted[cur[w]] > 0

Safe == HeldRow /\ SingleOwner /\ AtMostOnce /\ StatusIsTruth /\ UnsentInv /\ SentInv

\* The strengthened invariant is kept by every step.
LEMMA SafeStep == TypeOK /\ TypeOK' /\ Safe /\ [Next]_vars => Safe'
<1> SUFFICES ASSUME TypeOK, TypeOK', Safe, [Next]_vars PROVE Safe'
  OBVIOUS
<1> USE RowsAreOrdered, ApprovalsAssumption, LimitsAssumption
<1> USE DEF Safe, HeldRow, SingleOwner, AtMostOnce, StatusIsTruth, UnsentInv, SentInv,
            Transmitted, Untransmitted, TypeOK, Statuses, Holding, BeforeSend, AfterSend,
            Failing, rowVars, approvalVars, localVars, worldVars, historyVars
<1>1. ASSUME NEW r \in Rows, ScheduleSend(r) PROVE Safe'
  BY <1>1 DEF ScheduleSend, Insert, KeepsOrder
<1>2. ASSUME NEW r \in Rows, InsertMarker(r) PROVE Safe'
  BY <1>2 DEF InsertMarker, Insert, KeepsOrder
<1>3. ASSUME NEW r \in Rows, CancelRead(r) PROVE Safe'
  BY <1>3 DEF CancelRead
<1>4. ASSUME NEW r \in Rows, CancelWrite(r) PROVE Safe'
  BY <1>4 DEF CancelWrite, Cancellable
<1>5. ASSUME NEW r \in Rows, Freeze(r) PROVE Safe'
  BY <1>5 DEF Freeze, Fault
<1>6. ASSUME NEW r \in Rows, Unfreeze(r) PROVE Safe'
  BY <1>6 DEF Unfreeze
<1>7. ASSUME NEW w \in Workers, Reclaim(w) PROVE Safe'
  BY <1>7 DEF Reclaim, Goto, ReclaimedTo
<1>8. ASSUME NEW w \in Workers, ReclaimFails(w) PROVE Safe'
  BY <1>8 DEF ReclaimFails, Goto, Fault
<1>9. ASSUME NEW w \in Workers, Fetch(w) PROVE Safe'
  BY <1>9 DEF Fetch, Goto, OldestDue, Due
<1>10. ASSUME NEW w \in Workers, FetchNothing(w) PROVE Safe'
  BY <1>10 DEF FetchNothing, Stop, ForgetRow, Goto, Fault, NoFault
<1>11. ASSUME NEW w \in Workers, Claim(w) PROVE Safe'
  <2> USE <1>11 DEF Claim, Goto, Claimable
  <2>1. PICK r \in Rows :
          /\ status[r] = "pending"
          /\ status' = [status EXCEPT ![r] = "sending"]
          /\ cur' = [cur EXCEPT ![w] = r]
    OBVIOUS
  <2>2. transmitted[r] = 0
    BY <2>1
  <2>3. \A v \in Workers : pc[v] \in Holding => cur[v] # r
    BY <2>1
  <2>4. pc' = [pc EXCEPT ![w] = "gates"] /\ UNCHANGED <<err, result, transmitted>>
    OBVIOUS
  <2>5. HeldRow'
    BY <2>1, <2>3, <2>4
  <2>6. SingleOwner'
    BY <2>1, <2>3, <2>4
  <2>7. UnsentInv' /\ SentInv'
    BY <2>1, <2>2, <2>3, <2>4
  <2>8. AtMostOnce' /\ StatusIsTruth'
    BY <2>1, <2>2, <2>4
  <2> QED
    BY <2>5, <2>6, <2>7, <2>8
<1>12. ASSUME NEW w \in Workers, Skip(w) PROVE Safe'
  BY <1>12 DEF Skip, FirstOf, TakeFrom, Fault, NoFault
<1>13. ASSUME NEW w \in Workers, Finish(w) PROVE Safe'
  BY <1>13 DEF Finish, Stop, ForgetRow, Goto
<1>14. ASSUME NEW w \in Workers, PassGates(w) PROVE Safe'
  BY <1>14 DEF PassGates, Goto, RowStep
<1>15. ASSUME NEW w \in Workers, RefuseAtGate(w) PROVE Safe'
  BY <1>15 DEF RefuseAtGate, Throw, Goto, RowStep
<1>16. ASSUME NEW w \in Workers, ReadApproval(w) PROVE Safe'
  <2> USE <1>16 DEF ReadApproval, RowStep
  <2>1. CASE \E l \in {"key", "bind"} : Goto(w, l) /\ UNCHANGED err
    BY <2>1 DEF Goto
  <2>2. CASE Throw(w, "error")
    BY <2>2 DEF Throw, Goto
  <2> QED
    BY <2>1, <2>2
<1>17. ASSUME NEW w \in Workers, Bind(w) PROVE Safe'
  <2> USE <1>17 DEF Bind, RowStep
  <2>1. CASE Goto(w, "key") /\ UNCHANGED err
    BY <2>1 DEF Goto
  <2>2. CASE Throw(w, "error")
    BY <2>2 DEF Throw, Goto
  <2> QED
    BY <2>1, <2>2
<1>18. ASSUME NEW w \in Workers, BindFails(w) PROVE Safe'
  BY <1>18 DEF BindFails, Throw, Goto, RowStep, Fault, Bindable
<1>19. ASSUME NEW w \in Workers, PassKey(w) PROVE Safe'
  BY <1>19 DEF PassKey, Goto, RowStep
<1>20. ASSUME NEW w \in Workers, RefuseNarrowedKey(w) PROVE Safe'
  BY <1>20 DEF RefuseNarrowedKey, Throw, Goto, RowStep
<1>21. ASSUME NEW w \in Workers, BrakeAllows(w) PROVE Safe'
  BY <1>21 DEF BrakeAllows, Goto, RowStep
<1>22. ASSUME NEW w \in Workers, BrakeFailsOpen(w) PROVE Safe'
  BY <1>22 DEF BrakeFailsOpen, Goto, RowStep, Fault
<1>23. ASSUME NEW w \in Workers, BrakeHolds(w) PROVE Safe'
  BY <1>23 DEF BrakeHolds, Throw, Goto, RowStep
<1>24. ASSUME NEW w \in Workers, SendDirect(w) PROVE Safe'
  <2> USE <1>24 DEF SendDirect, SendStep
  <2>1. cur[w] \in Rows /\ transmitted[cur[w]] = 0 /\ status[cur[w]] \in {"sending", "error"}
    OBVIOUS
  <2>2. \A v \in Workers : pc[v] \in Holding /\ v # w => cur[v] # cur[w]
    OBVIOUS
  <2>3. CASE /\ Transmit(cur[w]) /\ UNCHANGED err
             /\ Goto(w, IF settles[w] THEN "settle_sent" ELSE "mark_sent")
    BY <2>1, <2>2, <2>3 DEF Transmit, Goto
  <2>4. CASE Transmit(cur[w]) /\ Throw(w, "error")
    BY <2>1, <2>2, <2>4 DEF Transmit, Throw, Goto
  <2>5. ASSUME NEW e \in {"not_sent", "refused", "error"}, Throw(w, e), UNCHANGED transmitted
        PROVE  Safe'
    BY <2>1, <2>5 DEF Throw, Goto
  <2> QED
    BY <2>3, <2>4, <2>5
<1>25. ASSUME NEW w \in Workers, SendRerun(w) PROVE Safe'
  <2> USE <1>25 DEF SendRerun, SendStep, Goto
  <2>1. cur[w] \in Rows /\ transmitted[cur[w]] = 0 /\ status[cur[w]] \in {"sending", "error"}
    OBVIOUS
  <2>2. \A v \in Workers : pc[v] \in Holding /\ v # w => cur[v] # cur[w]
    OBVIOUS
  <2>3. ASSUME NEW res \in {"success", "provider_error"}, Transmit(cur[w]),
               result' = [result EXCEPT ![w] = res]
        PROVE  Safe'
    BY <2>1, <2>2, <2>3 DEF Transmit
  <2>4. ASSUME NEW res \in {"not_sent", "provider_error", "failed"}, UNCHANGED transmitted,
               result' = [result EXCEPT ![w] = res]
        PROVE  Safe'
    BY <2>1, <2>4
  <2> QED
    BY <2>3, <2>4
<1>26. ASSUME NEW w \in Workers, SettleRerun(w) PROVE Safe'
  <2> USE <1>26 DEF SettleRerun, RowStep
  <2>1. CASE result[w] = "success" /\ Goto(w, "mark_sent") /\ UNCHANGED err
    BY <2>1 DEF Goto
  <2>2. CASE result[w] = "not_sent" /\ Throw(w, "not_sent")
    BY <2>2 DEF Throw, Goto
  <2>3. CASE result[w] \notin {"success", "not_sent"} /\ Throw(w, "error")
    BY <2>3 DEF Throw, Goto
  <2> QED
    BY <2>1, <2>2, <2>3
<1>27. ASSUME NEW w \in Workers, SettleSent(w) PROVE Safe'
  BY <1>27 DEF SettleSent, Goto, RowStep, CompleteApproved
<1>28. ASSUME NEW w \in Workers, MarkSent(w) PROVE Safe'
  BY <1>28 DEF MarkSent, WriteBack, NextRow, ForgetRow, Goto
<1>29. ASSUME NEW w \in Workers, Defer(w) PROVE Safe'
  BY <1>29 DEF Defer, Deferrable, WriteBack, NextRow, ForgetRow, Goto
<1>30. ASSUME NEW w \in Workers, Fail(w) PROVE Safe'
  BY <1>30 DEF Fail, Deferrable, Goto, RowStep
<1>31. ASSUME NEW w \in Workers, SettleFailed(w) PROVE Safe'
  BY <1>31 DEF SettleFailed, Goto, RowStep, CompleteApproved, FailureOutcome
<1>32. ASSUME NEW w \in Workers, MarkError(w) PROVE Safe'
  BY <1>32 DEF MarkError, WriteBack, NextRow, ForgetRow, Goto
<1>33. ASSUME NEW w \in Workers, LoseWriteBack(w) PROVE Safe'
  BY <1>33 DEF LoseWriteBack, Deferrable, NextRow, ForgetRow, Goto, Fault
<1>34. ASSUME NEW w \in Workers, LoseSettlement(w) PROVE Safe'
  <2> USE <1>34 DEF LoseSettlement, RowStep
  <2>1. CASE pc[w] = "settle_sent" /\ Goto(w, "mark_sent") /\ UNCHANGED err
    BY <2>1 DEF Goto
  <2>2. CASE pc[w] = "settle_failed" /\ Goto(w, "mark_error") /\ UNCHANGED err
    BY <2>2 DEF Goto
  <2>3. CASE /\ pc[w] = "settle_rerun" /\ result[w] = "success"
             /\ Goto(w, "mark_sent") /\ UNCHANGED err
    BY <2>3 DEF Goto
  <2>4. CASE pc[w] = "settle_rerun" /\ result[w] = "not_sent" /\ Throw(w, "not_sent")
    BY <2>4 DEF Throw, Goto
  <2>5. CASE pc[w] = "settle_rerun" /\ Throw(w, "error")
    BY <2>5 DEF Throw, Goto
  <2> QED
    BY <2>1, <2>2, <2>3, <2>4, <2>5
<1>35. ASSUME NEW w \in Workers, Crash(w) PROVE Safe'
  BY <1>35 DEF Crash, Stop, ForgetRow, Goto, Fault
<1>36. CASE Tick
  BY <1>36 DEF Tick
<1>37. ASSUME NEW w \in Workers, ClaimLost(w) PROVE Safe'
  BY <1>37 DEF ClaimLost, FirstOf, TakeFrom, Claimable, Fault
<1>38. CASE UNCHANGED vars
  BY <1>38 DEF vars, rowVars, approvalVars, localVars, worldVars, historyVars
<1> QED
  BY <1>1, <1>2, <1>3, <1>4, <1>5, <1>6, <1>7, <1>8, <1>9, <1>10, <1>11, <1>12,
     <1>13, <1>14, <1>15, <1>16, <1>17, <1>18, <1>19, <1>20, <1>21, <1>22, <1>23, <1>24,
     <1>25, <1>26, <1>27, <1>28, <1>29, <1>30, <1>31, <1>32, <1>33, <1>34, <1>35, <1>36,
     <1>37, <1>38
     DEF Next, Write, Step, Incident

\* The empty queue satisfies the strengthened invariant.
LEMMA SafeInit == Init => TypeOK /\ Safe
  BY ApprovalsAssumption
  DEF Init, TypeOK, Statuses, Details, Errors, Results, Locations, Safe, HeldRow, SingleOwner,
      AtMostOnce, StatusIsTruth, UnsentInv, SentInv, Transmitted, Untransmitted, Holding,
      BeforeSend, AfterSend, Failing

\* The strengthened invariant holds in every reachable state.
THEOREM SafeAlways == Spec => [](TypeOK /\ Safe)
<1>1. TypeOK /\ Safe /\ [Next]_vars => (TypeOK /\ Safe)'
  BY TypeStep, SafeStep
<1> QED
  BY <1>1, SafeInit, PTL DEF Spec

\* No two invocations ever hold the same row of scheduled_sends.
THEOREM OneOwner == Spec => []SingleOwner
<1>1. Safe => SingleOwner
  BY DEF Safe
<1> QED
  BY <1>1, SafeAlways, PTL

\* The provider is handed a row's message at most once.
THEOREM AtMostOneTransmission == Spec => []AtMostOnce
<1>1. Safe => AtMostOnce
  BY DEF Safe
<1> QED
  BY <1>1, SafeAlways, PTL

\* 'sent' was transmitted; 'pending' and 'cancelled' were not.
THEOREM TruthfulStatus == Spec => []StatusIsTruth
<1>1. Safe => StatusIsTruth
  BY DEF Safe
<1> QED
  BY <1>1, SafeAlways, PTL

(***************************************************************************)
(* Counting.  A mark in error_detail says that the brake has counted the   *)
(* row or could not be asked; so does the copy an invocation fetched, and  *)
(* the flag it keeps for the row it holds.                                 *)
(***************************************************************************)
Asked(r) == charged[r] # "no"

Counted ==
  /\ \A r \in Rows : detail[r] = "deferred_counted" => Asked(r)
  /\ \A w \in Workers : \A r \in seen[w] : Asked(r)
  /\ \A w \in Workers : pc[w] \in Holding /\ counted[w] => Asked(cur[w])
  /\ \A w \in Workers : pc[w] = "send" => Asked(cur[w])
  /\ SentIsCounted

\* No row goes back to uncounted.
LEMMA AskedStays ==
  ASSUME TypeOK, [Next]_vars, NEW r \in Rows, Asked(r)
  PROVE  Asked(r)'
<1>1. ASSUME NEW w \in Workers, BrakeAllows(w) \/ BrakeFailsOpen(w) PROVE Asked(r)'
  BY <1>1 DEF BrakeAllows, BrakeFailsOpen, Asked, TypeOK
<1>2. CASE UNCHANGED charged
  BY <1>2 DEF Asked
<1> USE DEF rowVars, approvalVars, localVars, worldVars, historyVars
<1>3. (\E s \in Rows : Write(s)) \/ (\E s \in Rows : Freeze(s) \/ Unfreeze(s)) \/ Tick => UNCHANGED charged
  BY DEF Write, ScheduleSend, InsertMarker, Insert, CancelRead, CancelWrite, Freeze, Unfreeze, Tick
<1>4. ASSUME NEW w \in Workers,
             Reclaim(w) \/ ReclaimFails(w) \/ Fetch(w) \/ FetchNothing(w) \/ Claim(w)
               \/ ClaimLost(w) \/ Skip(w) \/ Finish(w) \/ Crash(w)
      PROVE  UNCHANGED charged
  BY <1>4 DEF Reclaim, ReclaimFails, Fetch, FetchNothing, Claim, ClaimLost, Skip, Finish, Crash
<1>5. ASSUME NEW w \in Workers,
             PassGates(w) \/ RefuseAtGate(w) \/ ReadApproval(w) \/ Bind(w) \/ BindFails(w)
               \/ PassKey(w) \/ RefuseNarrowedKey(w) \/ BrakeHolds(w)
      PROVE  UNCHANGED charged
  BY <1>5 DEF PassGates, RefuseAtGate, ReadApproval, Bind, BindFails, PassKey, RefuseNarrowedKey, BrakeHolds
<1>6. ASSUME NEW w \in Workers,
             SendDirect(w) \/ SendRerun(w) \/ SettleRerun(w) \/ SettleSent(w) \/ MarkSent(w)
               \/ Defer(w) \/ Fail(w) \/ SettleFailed(w) \/ MarkError(w)
               \/ LoseWriteBack(w) \/ LoseSettlement(w)
      PROVE  UNCHANGED charged
  BY <1>6 DEF SendDirect, SendRerun, SendStep, SettleRerun, SettleSent, MarkSent, Defer, WriteBack,
              Fail, SettleFailed, MarkError, LoseWriteBack, LoseSettlement
<1> QED
  BY <1>1, <1>2, <1>3, <1>4, <1>5, <1>6 DEF Next, vars, Step, Incident

\* A mark is written and copied only for a row that the brake was asked about.
LEMMA CountedStep == TypeOK /\ TypeOK' /\ Safe /\ Counted /\ [Next]_vars => Counted'
<1> SUFFICES ASSUME TypeOK, TypeOK', Safe, Counted, [Next]_vars PROVE Counted'
  OBVIOUS
<1> USE DEF Counted, SentIsCounted, Asked, Safe, HeldRow, TypeOK, Holding, BeforeSend, AfterSend,
            Failing, rowVars, approvalVars, localVars, worldVars, historyVars
<1>0. \A r \in Rows : Asked(r) => Asked(r)'
  BY AskedStays
<1>1. ASSUME NEW r \in Rows, ScheduleSend(r) \/ InsertMarker(r) \/ CancelRead(r) \/ CancelWrite(r) PROVE Counted'
  BY <1>1 DEF ScheduleSend, InsertMarker, Insert, CancelRead, CancelWrite
<1>2. ASSUME NEW r \in Rows, Freeze(r) \/ Unfreeze(r) PROVE Counted'
  BY <1>2 DEF Freeze, Unfreeze
<1>3. ASSUME NEW w \in Workers, Reclaim(w) \/ ReclaimFails(w) PROVE Counted'
  BY <1>3 DEF Reclaim, ReclaimFails, Goto
<1>4. ASSUME NEW w \in Workers, Fetch(w) PROVE Counted'
  BY <1>4 DEF Fetch, Goto, OldestDue, Due
<1>5. ASSUME NEW w \in Workers, FetchNothing(w) \/ Finish(w) \/ Crash(w) PROVE Counted'
  <2>1. Stop(w) /\ UNCHANGED <<rowVars, historyVars>>
    BY <1>5 DEF FetchNothing, Finish, Crash
  <2>2. pc'[w] = "idle" /\ seen'[w] = {}
    BY <2>1 DEF Stop, Goto
  <2>3. \A v \in Workers : v # w =>
          pc'[v] = pc[v] /\ seen'[v] = seen[v] /\ counted'[v] = counted[v] /\ cur'[v] = cur[v]
    BY <2>1 DEF Stop, ForgetRow, Goto
  <2>4. UNCHANGED <<detail, charged, transmitted>>
    BY <2>1
  <2>5. ASSUME NEW v \in Workers, NEW r \in seen'[v] PROVE Asked(r)
    <3>1. v # w /\ r \in seen[v]
      BY <2>2, <2>3
    <3> QED
      BY <3>1
  <2>6. ASSUME NEW v \in Workers, pc'[v] \in Holding, counted'[v] PROVE Asked(cur'[v])
    <3>1. v # w
      BY <2>2, <2>6
    <3>2. pc[v] \in Holding /\ counted[v] /\ cur'[v] = cur[v]
      BY <2>3, <2>6, <3>1
    <3> QED
      BY <3>2
  <2>7. ASSUME NEW v \in Workers, pc'[v] = "send" PROVE Asked(cur'[v])
    <3>1. v # w
      BY <2>2, <2>7
    <3>2. pc[v] = "send" /\ cur'[v] = cur[v]
      BY <2>3, <2>7, <3>1
    <3> QED
      BY <3>2
  <2> QED
    BY <2>4, <2>5, <2>6, <2>7
<1>6. ASSUME NEW w \in Workers, Claim(w) PROVE Counted'
  <2>1. PICK r \in Rows : /\ cur' = [cur EXCEPT ![w] = r]
                         /\ counted' = [counted EXCEPT ![w] = r \in seen[w]]
    BY <1>6 DEF Claim
  <2>2. pc' = [pc EXCEPT ![w] = "gates"] /\ UNCHANGED <<detail, seen, historyVars>>
    BY <1>6 DEF Claim, Goto
  <2>3. ASSUME NEW v \in Workers, pc'[v] \in Holding, counted'[v] PROVE Asked(cur'[v])
    <3>1. counted'[w] = (r \in seen[w]) /\ cur'[w] = r
      <4> HIDE DEF Counted, Safe
      <4> QED
        BY <2>1
    <3>2. counted'[w] => Asked(cur'[w])
      BY <3>1
    <3>3. CASE v # w
      <4>1. pc'[v] = pc[v] /\ counted'[v] = counted[v] /\ cur'[v] = cur[v]
        BY <2>1, <2>2, <3>3
      <4> QED
        BY <2>3, <4>1
    <3> QED
      BY <2>3, <3>2, <3>3
  <2> QED
    BY <2>1, <2>2, <2>3
<1>7. ASSUME NEW w \in Workers, Skip(w) \/ ClaimLost(w) PROVE Counted'
  BY <1>7 DEF Skip, ClaimLost
<1>8. ASSUME NEW w \in Workers, PassGates(w) \/ RefuseAtGate(w) \/ ReadApproval(w) PROVE Counted'
  BY <1>8 DEF PassGates, RefuseAtGate, ReadApproval, Throw, Goto, RowStep
<1>9. ASSUME NEW w \in Workers, Bind(w) \/ BindFails(w) PROVE Counted'
  BY <1>9 DEF Bind, BindFails, Throw, Goto, RowStep
<1>10. ASSUME NEW w \in Workers, PassKey(w) \/ RefuseNarrowedKey(w) \/ BrakeHolds(w) PROVE Counted'
  BY <1>10 DEF PassKey, RefuseNarrowedKey, BrakeHolds, Throw, Goto, RowStep
<1>11. ASSUME NEW w \in Workers, BrakeAllows(w) PROVE Counted'
  BY <1>0, <1>11 DEF BrakeAllows, Goto, RowStep
<1>12. ASSUME NEW w \in Workers, BrakeFailsOpen(w) PROVE Counted'
  BY <1>0, <1>12 DEF BrakeFailsOpen, Goto, RowStep
<1>13. ASSUME NEW w \in Workers, SendDirect(w) \/ SendRerun(w) PROVE Counted'
  <2>1. pc[w] = "send" /\ Asked(cur[w]) /\ UNCHANGED <<detail, charged, seen, counted, cur>>
    BY <1>13 DEF SendDirect, SendRerun, SendStep
  <2>2. \E l \in Locations \ {"send"} : Goto(w, l)
    BY <1>13 DEF SendDirect, SendRerun, Throw, Locations
  <2>3. Transmit(cur[w]) \/ UNCHANGED transmitted
    BY <1>13 DEF SendDirect, SendRerun
  <2> HIDE DEF Asked, Safe
  <2>4. \A v \in Workers : pc'[v] = pc[v] \/ v = w
    BY <2>2 DEF Goto
  <2>5. pc'[w] # "send"
    BY <2>2 DEF Goto
  <2>6. \A r \in Rows : transmitted'[r] > 0 => transmitted[r] > 0 \/ r = cur[w]
    BY <2>3 DEF Transmit
  <2>7. \A r \in Rows : transmitted'[r] > 0 => Asked(r)
    BY <2>1, <2>6 DEF Asked
  <2>8. Asked(cur[w]) /\ \A r : Asked(r)' <=> Asked(r)
    BY <2>1 DEF Asked
  <2>9. \A v \in Workers : pc[v] \in Holding /\ counted[v] => Asked(cur[v])
    OBVIOUS
  <2>10. \A v \in Workers : pc'[v] \in Holding /\ counted'[v] => Asked(cur'[v])
    BY <2>1, <2>4, <2>8, <2>9
  <2> QED
    BY <2>1, <2>4, <2>5, <2>7, <2>8, <2>10 DEF Asked
<1>14. ASSUME NEW w \in Workers, SettleRerun(w) \/ SettleSent(w) \/ SettleFailed(w) \/ LoseSettlement(w)
       PROVE Counted'
  BY <1>14 DEF SettleRerun, SettleSent, SettleFailed, LoseSettlement, Throw, Goto, RowStep
<1>15. ASSUME NEW w \in Workers, MarkSent(w) \/ MarkError(w) PROVE Counted'
  <2>1. PICK d \in {"failed", detail[cur[w]]} :
          detail' = [detail EXCEPT ![cur[w]] = d] /\ NextRow(w) /\ UNCHANGED historyVars
    BY <1>15 DEF MarkSent, MarkError, WriteBack
  <2>2. \A r \in Rows : detail'[r] = "deferred_counted" => Asked(r)
    BY <2>1
  <2>3. pc' = [pc EXCEPT ![w] = "loop"] /\ UNCHANGED seen
    BY <2>1 DEF NextRow, Goto
  <2>4. \A v \in Workers : v # w => counted'[v] = counted[v] /\ cur'[v] = cur[v]
    BY <2>1 DEF NextRow, ForgetRow
  <2> QED
    BY <2>1, <2>2, <2>3, <2>4
<1>16. ASSUME NEW w \in Workers, Defer(w) PROVE Counted'
  BY <1>16 DEF Defer, WriteBack, NextRow, ForgetRow, Goto
<1>17. ASSUME NEW w \in Workers, Fail(w) PROVE Counted'
  BY <1>17 DEF Fail, Goto, RowStep
<1>18. ASSUME NEW w \in Workers, LoseWriteBack(w) PROVE Counted'
  BY <1>18 DEF LoseWriteBack, NextRow, ForgetRow, Goto
<1>19. CASE Tick
  BY <1>19 DEF Tick
<1>20. CASE UNCHANGED vars
  BY <1>20 DEF vars
<1> QED
  BY <1>1, <1>2, <1>3, <1>4, <1>5, <1>6, <1>7, <1>8, <1>9, <1>10, <1>11, <1>12, <1>13,
     <1>14, <1>15, <1>16, <1>17, <1>18, <1>19, <1>20
  DEF Next, Write, Step, Incident

\* Nothing goes out that the brake neither counted nor failed to answer for.
THEOREM SendsAreCounted == Spec => []SentIsCounted
<1>1. Init => Counted
  BY ApprovalsAssumption DEF Init, Counted, SentIsCounted, Asked, Holding, BeforeSend, AfterSend, Failing
<1>2. TypeOK /\ Safe /\ Counted /\ [Next]_vars => Counted'
  BY TypeStep, CountedStep
<1>3. Counted => SentIsCounted
  BY DEF Counted
<1> QED
  BY <1>1, <1>2, <1>3, SafeAlways, PTL DEF Spec

=============================================================================
