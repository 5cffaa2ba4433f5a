------------------------- MODULE ScheduledDispatch -------------------------
(***************************************************************************)
(* The scheduled-send queue (table scheduled_sends) and the dispatcher     *)
(* that drains it: handleScheduledDispatch of the mcp-server edge          *)
(* function, called by pg_cron every minute and by every approval.  Several *)
(* invocations may overlap, each may die between any two database calls,   *)
(* and mail providers may accept a message and lose the answer.            *)
(*                                                                         *)
(* One action is one database or provider call of the code.  A row of      *)
(* scheduled_sends is a natural number, its place in send_at order; its    *)
(* columns are the functions status, late (now - send_at), since (now -    *)
(* updated_at) and detail (what error_detail records).  The two clocks     *)
(* saturate one past the last value the code can tell apart.               *)
(***************************************************************************)
EXTENDS Naturals, Integers, FiniteSets

CONSTANTS
  Rows,              \* rows of scheduled_sends, numbered in send_at order
  Workers,           \* dispatcher invocations that may be alive at once
  Approvals,         \* send_approvals rows a marker may name
  ApprovalOf,        \* the approval a row is the marker of, or NoApproval
  ScheduleOps,       \* the approvals whose operation is schedule_create
  NoApproval, NoRow, \* null approval id, null dispatch_scheduled_send_id
  MAX_DISPATCH_BATCH,          \* rows one invocation may fetch
  STALE_SENDING,               \* age at which a 'sending' row is reclaimed
  SCHEDULED_SEND_DEFER_WINDOW, \* how late a refused row may still be retried
  MaxInvocation,     \* the platform kills an invocation at this age
  MaxLead,           \* bound: how far ahead a send may be scheduled
  MaxFaults          \* bound: crashes, failed database calls and freezes

ASSUME RowsAreOrdered == Rows \subseteq Nat /\ NoRow \notin Rows
ASSUME ApprovalsAssumption ==
  /\ NoApproval \notin Approvals
  /\ ApprovalOf \in [Rows -> Approvals \cup {NoApproval}]
  /\ ScheduleOps \subseteq Approvals
ASSUME LimitsAssumption ==
  /\ MAX_DISPATCH_BATCH \in Nat \ {0}
  /\ STALE_SENDING \in Nat
  /\ SCHEDULED_SEND_DEFER_WINDOW \in Nat
  /\ MaxInvocation \in Nat
  /\ MaxLead \in Nat
  /\ MaxFaults \in Nat
\* What the stale reclaim relies on: by the time a 'sending' row is stale, the
\* platform has ended the invocation that claimed it.
ASSUME InvocationsEndBeforeReclaim == MaxInvocation <= STALE_SENDING

VARIABLES
  \* table scheduled_sends, one function per column
  status, late, since, detail,
  \* send_approvals.dispatch_scheduled_send_id and the caller's ledger row
  bound, ledger,
  \* one dispatcher invocation each
  pc, batch, seen, cur, err, settles, attempted, counted, result, life,
  \* the rest of the world
  cancel, frozen, faults,
  \* history, per row: provider transmissions, whether the brake counted it
  transmitted, charged

rowVars == <<status, late, since, detail>>
approvalVars == <<bound, ledger>>
localVars == <<batch, seen, cur, err, settles, attempted, counted, result, life>>
worldVars == <<cancel, frozen, faults>>
historyVars == <<transmitted, charged>>
vars == <<rowVars, approvalVars, pc, localVars, worldVars, historyVars>>

Statuses == {"absent", "pending", "sending", "sent", "error", "cancelled"}
Terminal == {"sent", "error", "cancelled"}
Details == {"none", "deferred", "deferred_counted", "interrupted", "failed"}
Errors == {"none", "held", "not_sent", "refused", "error"}
Results == {"none", "success", "not_sent", "provider_error", "failed"}

\* The points between two calls at which an invocation holds a row.
BeforeSend == {"gates", "approval", "bind", "key", "brake", "send"}
AfterSend == {"settle_sent", "settle_rerun", "mark_sent"}
Failing == {"caught", "settle_failed", "mark_error"}
Holding == BeforeSend \cup AfterSend \cup Failing
Locations == {"idle", "fetch", "loop"} \cup Holding

TypeOK ==
  /\ status \in [Rows -> Statuses]
  /\ late \in [Rows -> Int]
  /\ since \in [Rows -> Nat]
  /\ detail \in [Rows -> Details]
  /\ bound \in [Approvals -> Rows \cup {NoRow}]
  /\ ledger \in [Approvals -> {"pending_approval", "succeeded", "failed", "unknown"}]
  /\ pc \in [Workers -> Locations]
  /\ batch \in [Workers -> SUBSET Rows]
  /\ seen \in [Workers -> SUBSET Rows]
  /\ cur \in [Workers -> Rows \cup {NoRow}]
  /\ err \in [Workers -> Errors]
  /\ settles \in [Workers -> BOOLEAN]
  /\ attempted \in [Workers -> BOOLEAN]
  /\ counted \in [Workers -> BOOLEAN]
  /\ result \in [Workers -> Results]
  /\ life \in [Workers -> Nat]
  /\ cancel \in [Rows -> {"none", "read", "reported"}]
  /\ frozen \in SUBSET Rows
  /\ faults \in Nat
  /\ transmitted \in [Rows -> Nat]
  /\ charged \in [Rows -> {"no", "counted", "open"}]

Init ==
  /\ status = [r \in Rows |-> "absent"]
  /\ late = [r \in Rows |-> 0]
  /\ since = [r \in Rows |-> 0]
  /\ detail = [r \in Rows |-> "none"]
  /\ bound = [a \in Approvals |-> NoRow]
  /\ ledger = [a \in Approvals |-> "pending_approval"]
  /\ pc = [w \in Workers |-> "idle"]
  /\ batch = [w \in Workers |-> {}]
  /\ seen = [w \in Workers |-> {}]
  /\ cur = [w \in Workers |-> NoRow]
  /\ err = [w \in Workers |-> "none"]
  /\ settles = [w \in Workers |-> FALSE]
  /\ attempted = [w \in Workers |-> FALSE]
  /\ counted = [w \in Workers |-> FALSE]
  /\ result = [w \in Workers |-> "none"]
  /\ life = [w \in Workers |-> 0]
  /\ cancel = [r \in Rows |-> "none"]
  /\ frozen = {}
  /\ faults = 0
  /\ transmitted = [r \in Rows |-> 0]
  /\ charged = [r \in Rows |-> "no"]

-----------------------------------------------------------------------------
(* Helpers *)

IsMarker(r) == ApprovalOf[r] # NoApproval
\* An approved reply, forward, draft or direct send is run again as a whole;
\* an approved schedule goes out by the plain scheduled-send path.
IsRerun(r) == IsMarker(r) /\ ApprovalOf[r] \notin ScheduleOps

Due == {r \in Rows : status[r] = "pending" /\ late[r] >= 0}
\* The oldest-due MAX_DISPATCH_BATCH rows (order by send_at, limit).
OldestDue == {r \in Due : Cardinality({s \in Due : s < r}) < MAX_DISPATCH_BATCH}
IsStale_AnySending(r) == status[r] = "sending" /\ since[r] > 0
IsStale(r) == status[r] = "sending" /\ since[r] > STALE_SENDING

\* The WHERE clause of the lock, of the cancel and of the approval's binding.
Claimable_Unguarded(r) == status[r] # "absent"
Claimable(r) == status[r] = "pending"
Cancellable_Unguarded(r) == status[r] # "absent"
Cancellable(r) == status[r] = "pending"
Bindable_Unguarded(a) == TRUE
Bindable(a) == bound[a] = NoRow

\* A stale row is failed, not queued again: its message may have gone out.
ReclaimedTo_Retry == "pending"
ReclaimedTo == "error"

Goto(w, l) == pc' = [pc EXCEPT ![w] = l]
Fault == faults < MaxFaults /\ faults' = faults + 1
NoFault == UNCHANGED faults

\* throw inside the dispatcher's per-row try block
Throw(w, e) == Goto(w, "caught") /\ err' = [err EXCEPT ![w] = e]

\* UPDATE outbound_idempotency ... WHERE approval_id = a AND
\* status = 'pending_approval' (completeApprovedOutboundIdempotency)
CompleteApproved(a, outcome) ==
  ledger' = IF ledger[a] = "pending_approval"
            THEN [ledger EXCEPT ![a] = outcome] ELSE ledger

\* The per-row variables of the loop go out of scope.
ForgetRow(w) ==
  /\ cur' = [cur EXCEPT ![w] = NoRow]
  /\ err' = [err EXCEPT ![w] = "none"]
  /\ settles' = [settles EXCEPT ![w] = FALSE]
  /\ attempted' = [attempted EXCEPT ![w] = FALSE]
  /\ counted' = [counted EXCEPT ![w] = FALSE]
  /\ result' = [result EXCEPT ![w] = "none"]

NextRow(w) == Goto(w, "loop") /\ ForgetRow(w) /\ UNCHANGED <<batch, seen, life>>

Stop(w) ==
  /\ Goto(w, "idle")
  /\ ForgetRow(w)
  /\ batch' = [batch EXCEPT ![w] = {}]
  /\ seen' = [seen EXCEPT ![w] = {}]
  /\ life' = [life EXCEPT ![w] = 0]

-----------------------------------------------------------------------------
(* The rows' writers: schedule_create, an approval's marker, schedule_cancel *)

\* A row whose send_at is l ticks from now keeps the numbering of the rows.
KeepsOrder(r, l) ==
  \A s \in Rows : status[s] \in {"pending", "sending"} =>
    /\ s < r => late[s] >= l
    /\ s > r => late[s] <= l

Insert(r, l) ==
  /\ status[r] = "absent"
  /\ KeepsOrder(r, l)
  /\ status' = [status EXCEPT ![r] = "pending"]
  /\ late' = [late EXCEPT ![r] = l]
  /\ UNCHANGED <<since, detail, approvalVars, pc, localVars, worldVars, historyVars>>

\* executeScheduleSend: send_at must lie in the future.
ScheduleSend(r) == ~IsMarker(r) /\ \E l \in 1..MaxLead : Insert(r, -l)

\* The marker of an approved request, at `approval.send_at ?? now`: a time
\* that was set before the decision may already have passed.
InsertMarker(r) ==
  IsMarker(r) /\ \E l \in -MaxLead..SCHEDULED_SEND_DEFER_WINDOW : Insert(r, l)

\* executeCancelScheduled: reads the row, refuses unless it is pending ...
CancelRead(r) ==
  /\ cancel[r] = "none"
  /\ status[r] = "pending"
  /\ cancel' = [cancel EXCEPT ![r] = "read"]
  /\ UNCHANGED <<rowVars, approvalVars, pc, localVars, frozen, faults, historyVars>>

\* ... then updates it WHERE status = 'pending' and answers cancelled: true
\* without looking at how many rows the update matched.
CancelWrite(r) ==
  /\ cancel[r] = "read"
  /\ status' = IF Cancellable(r) THEN [status EXCEPT ![r] = "cancelled"] ELSE status
  /\ cancel' = [cancel EXCEPT ![r] = "reported"]
  /\ UNCHANGED <<late, since, detail, approvalVars, pc, localVars, frozen, faults, historyVars>>

-----------------------------------------------------------------------------
(* One dispatcher invocation *)

\* dispatch_scheduled_sends() posts to /dispatch only when a row is stale, or
\* due within its minute of lookahead (at most one tick).
WorkToDo ==
  \E r \in Rows : IsStale(r) \/ (status[r] = "pending" /\ late[r] >= -1)

\* pg_cron or an approval calls it; the dispatcher's first statement moves
\* every stale 'sending' row to 'error'.
Reclaim(w) ==
  /\ pc[w] = "idle"
  /\ WorkToDo
  /\ Goto(w, "fetch")
  /\ status' = [r \in Rows |-> IF IsStale(r) THEN ReclaimedTo ELSE status[r]]
  /\ detail' = [r \in Rows |-> IF IsStale(r) THEN "interrupted" ELSE detail[r]]
  /\ since' = [r \in Rows |-> IF IsStale(r) THEN 0 ELSE since[r]]
  /\ UNCHANGED <<late, approvalVars, localVars, worldVars, historyVars>>

\* A failed reclaim is logged and the dispatch goes on.
ReclaimFails(w) ==
  /\ pc[w] = "idle"
  /\ WorkToDo
  /\ Fault
  /\ Goto(w, "fetch")
  /\ UNCHANGED <<rowVars, approvalVars, localVars, cancel, frozen, historyVars>>

\* Fetch the oldest due rows, their error_detail included.
Fetch(w) ==
  /\ pc[w] = "fetch"
  /\ Due # {}
  /\ Goto(w, "loop")
  /\ batch' = [batch EXCEPT ![w] = OldestDue]
  /\ seen' = [seen EXCEPT ![w] = {r \in OldestDue : detail[r] = "deferred_counted"}]
  /\ UNCHANGED <<rowVars, approvalVars, cur, err, settles, attempted, counted, result,
                 life, worldVars, historyVars>>

\* Nothing due (or the fetch fails, which only another invocation repairs).
FetchNothing(w) ==
  /\ pc[w] = "fetch"
  /\ \/ Due = {} /\ NoFault
     \/ Due # {} /\ Fault
  /\ Stop(w)
  /\ UNCHANGED <<rowVars, approvalVars, cancel, frozen, historyVars>>

FirstOf(w, r) == r \in batch[w] /\ \A s \in batch[w] : r <= s
TakeFrom(w, r) == batch' = [batch EXCEPT ![w] = @ \ {r}]

\* The optimistic lock: pending -> sending, WHERE status = 'pending'.
Claim(w) ==
  /\ pc[w] = "loop"
  /\ \E r \in Rows :
       /\ FirstOf(w, r)
       /\ Claimable(r)
       /\ TakeFrom(w, r)
       /\ status' = [status EXCEPT ![r] = "sending"]
       /\ since' = [since EXCEPT ![r] = 0]
       /\ cur' = [cur EXCEPT ![w] = r]
       /\ counted' = [counted EXCEPT ![w] = r \in seen[w]]
  /\ Goto(w, "gates")
  /\ UNCHANGED <<late, detail, approvalVars, seen, err, settles, attempted, result, life,
                 worldVars, historyVars>>

\* Zero rows matched (another invocation or a cancel was first), or the
\* update failed: the row is left to a later tick.
Skip(w) ==
  /\ pc[w] = "loop"
  /\ \E r \in Rows :
       /\ FirstOf(w, r)
       /\ TakeFrom(w, r)
       /\ \/ ~Claimable(r) /\ NoFault
          \/ Claimable(r) /\ Fault
  /\ UNCHANGED <<rowVars, approvalVars, pc, seen, cur, err, settles, attempted, counted,
                 result, life, cancel, frozen, historyVars>>

\* The lock took effect and its answer was lost: the row is left 'sending'.
ClaimLost(w) ==
  /\ pc[w] = "loop"
  /\ Fault
  /\ \E r \in Rows :
       /\ FirstOf(w, r)
       /\ Claimable(r)
       /\ TakeFrom(w, r)
       /\ status' = [status EXCEPT ![r] = "sending"]
       /\ since' = [since EXCEPT ![r] = 0]
  /\ UNCHANGED <<late, detail, approvalVars, pc, seen, cur, err, settles, attempted, counted,
                 result, life, cancel, frozen, historyVars>>

Finish(w) ==
  /\ pc[w] = "loop"
  /\ batch[w] = {}
  /\ Stop(w)
  /\ UNCHANGED <<rowVars, approvalVars, worldVars, historyVars>>

\* What every step between the claim and the write-back leaves alone.
RowStep(w) ==
  UNCHANGED <<rowVars, batch, seen, cur, life, cancel, frozen, transmitted>>

\* The inbox and payload gates: mailbox found in the row's workspace,
\* reachable, not parked since, able to send, payload one we wrote.
PassGates(w) ==
  /\ pc[w] = "gates"
  /\ Goto(w, IF IsMarker(cur[w]) THEN "approval" ELSE "brake")
  /\ RowStep(w)
  /\ UNCHANGED <<approvalVars, err, settles, attempted, counted, result, faults, charged>>

\* Any gate but the brake throws a plain Error, which is terminal: a mailbox
\* that is gone, an approval or an API key that can no longer be read.
RefuseAtGate(w) ==
  /\ pc[w] \in {"gates", "approval", "key"}
  /\ Throw(w, "error")
  /\ RowStep(w)
  /\ UNCHANGED <<approvalVars, settles, attempted, counted, result, faults, charged>>

ReadApproval_Unbound(w) ==
  /\ pc[w] = "approval"
  /\ LET holder == bound[ApprovalOf[cur[w]]] IN
       \/ holder \in {cur[w], NoRow} /\ Goto(w, "key") /\ UNCHANGED err
       \/ holder \notin {cur[w], NoRow} /\ Throw(w, "error")
  /\ RowStep(w)
  /\ UNCHANGED <<approvalVars, settles, attempted, counted, result, faults, charged>>

\* Reads the approval; its dispatch_scheduled_send_id decides.
ReadApproval(w) ==
  /\ pc[w] = "approval"
  /\ LET holder == bound[ApprovalOf[cur[w]]] IN
       \/ holder = cur[w] /\ Goto(w, "key") /\ UNCHANGED err
       \/ holder = NoRow /\ Goto(w, "bind") /\ UNCHANGED err
       \/ holder \notin {cur[w], NoRow} /\ Throw(w, "error")
  /\ RowStep(w)
  /\ UNCHANGED <<approvalVars, settles, attempted, counted, result, faults, charged>>

\* UPDATE send_approvals SET dispatch_scheduled_send_id = row.id
\* WHERE dispatch_scheduled_send_id IS NULL: one of two racing rows wins.
Bind(w) ==
  /\ pc[w] = "bind"
  /\ LET a == ApprovalOf[cur[w]] IN
       \/ /\ Bindable(a)
          /\ bound' = [bound EXCEPT ![a] = cur[w]]
          /\ Goto(w, "key")
          /\ UNCHANGED err
       \/ /\ ~Bindable(a)
          /\ Throw(w, "error")
          /\ UNCHANGED bound
  /\ RowStep(w)
  /\ UNCHANGED <<ledger, settles, attempted, counted, result, faults, charged>>

\* The binding update reports an error, whether or not it took effect.
BindFails(w) ==
  /\ pc[w] = "bind"
  /\ Fault
  /\ LET a == ApprovalOf[cur[w]] IN
       \/ Bindable(a) /\ bound' = [bound EXCEPT ![a] = cur[w]]
       \/ UNCHANGED bound
  /\ Throw(w, "not_sent")
  /\ RowStep(w)
  /\ UNCHANGED <<ledger, settles, attempted, counted, result, charged>>

\* The originating key still exists.  From here an approved schedule owes its
\* caller a settled idempotency record (approvedScheduleId is set).
PassKey(w) ==
  /\ pc[w] = "key"
  /\ settles' = [settles EXCEPT ![w] = ~IsRerun(cur[w])]
  /\ Goto(w, "brake")
  /\ RowStep(w)
  /\ UNCHANGED <<approvalVars, err, attempted, counted, result, faults, charged>>

\* ... and then throws when the key was narrowed to other inboxes.
RefuseNarrowedKey(w) ==
  /\ pc[w] = "key"
  /\ ~IsRerun(cur[w])
  /\ settles' = [settles EXCEPT ![w] = TRUE]
  /\ Throw(w, "error")
  /\ RowStep(w)
  /\ UNCHANGED <<approvalVars, attempted, counted, result, faults, charged>>

\* outbound_send_gate allows the send.  The plain path counts it unless an
\* earlier attempt did; an approved operation run again always counts it.
BrakeAllows(w) ==
  /\ pc[w] = "brake"
  /\ cur[w] \notin frozen
  /\ charged' = IF IsRerun(cur[w]) \/ ~counted[w]
                THEN [charged EXCEPT ![cur[w]] = "counted"] ELSE charged
  /\ counted' = [counted EXCEPT ![w] = @ \/ ~IsRerun(cur[w])]
  /\ Goto(w, "send")
  /\ RowStep(w)
  /\ UNCHANGED <<approvalVars, err, settles, attempted, result, faults>>

\* The gate cannot be asked: fail open, uncounted.
BrakeFailsOpen(w) ==
  /\ pc[w] = "brake"
  /\ Fault
  /\ charged' = [charged EXCEPT ![cur[w]] = IF @ = "no" THEN "open" ELSE @]
  /\ counted' = [counted EXCEPT ![w] = @ \/ ~IsRerun(cur[w])]
  /\ Goto(w, "send")
  /\ RowStep(w)
  /\ UNCHANGED <<approvalVars, err, settles, attempted, result>>

\* Frozen, paused, at the daily limit or held: ScheduledDispatchHeld.
BrakeHolds(w) ==
  /\ pc[w] = "brake"
  /\ cur[w] \in frozen
  /\ Throw(w, "held")
  /\ RowStep(w)
  /\ UNCHANGED <<approvalVars, settles, attempted, counted, result, faults, charged>>

\* What every step of the provider call and its write-back leaves alone.
SendStep == UNCHANGED <<rowVars, approvalVars, batch, seen, cur, counted, life,
                        cancel, frozen, faults, charged>>
Transmit(r) == transmitted' = [transmitted EXCEPT ![r] = @ + 1]

\* sendViaProvider for a scheduled message.  The provider takes it and says
\* so; takes it and loses the answer; refuses it before it has any of it
\* (SmtpNotSentError, worth a retry or not); or fails in any other way.
SendDirect(w) ==
  /\ pc[w] = "send"
  /\ ~IsRerun(cur[w])
  /\ attempted' = [attempted EXCEPT ![w] = TRUE]
  /\ \/ /\ Transmit(cur[w])
        /\ Goto(w, IF settles[w] THEN "settle_sent" ELSE "mark_sent")
        /\ UNCHANGED err
     \/ Transmit(cur[w]) /\ Throw(w, "error")
     \/ \E e \in {"not_sent", "refused", "error"} : Throw(w, e) /\ UNCHANGED transmitted
  /\ SendStep
  /\ UNCHANGED <<settles, result>>

\* runApprovedOperation: the operation's own handler reports the same
\* outcomes as log codes and never throws.
SendRerun(w) ==
  /\ pc[w] = "send"
  /\ IsRerun(cur[w])
  /\ \/ \E res \in {"success", "provider_error"} :
          Transmit(cur[w]) /\ result' = [result EXCEPT ![w] = res]
     \/ \E res \in {"not_sent", "provider_error", "failed"} :
          UNCHANGED transmitted /\ result' = [result EXCEPT ![w] = res]
  /\ Goto(w, "settle_rerun")
  /\ SendStep
  /\ UNCHANGED <<err, settles, attempted>>

RerunOutcome(res) ==
  CASE res = "success" -> "succeeded"
    [] res = "provider_error" -> "unknown"
    [] OTHER -> "failed"

\* The caller's record is settled with the attempt's result, and only then is
\* a provable non-send told from a terminal outcome.
SettleRerun(w) ==
  /\ pc[w] = "settle_rerun"
  /\ CompleteApproved(ApprovalOf[cur[w]], RerunOutcome(result[w]))
  /\ \/ result[w] = "success" /\ Goto(w, "mark_sent") /\ UNCHANGED err
     \/ result[w] = "not_sent" /\ Throw(w, "not_sent")
     \/ result[w] \notin {"success", "not_sent"} /\ Throw(w, "error")
  /\ RowStep(w)
  /\ UNCHANGED <<bound, settles, attempted, counted, result, faults, charged>>

SettleSent(w) ==
  /\ pc[w] = "settle_sent"
  /\ CompleteApproved(ApprovalOf[cur[w]], "succeeded")
  /\ Goto(w, "mark_sent")
  /\ RowStep(w)
  /\ UNCHANGED <<bound, err, settles, attempted, counted, result, faults, charged>>

\* The write-backs match the row by id alone, whatever its status is by now.
WriteBack(w, s, d) ==
  /\ status' = [status EXCEPT ![cur[w]] = s]
  /\ detail' = [detail EXCEPT ![cur[w]] = d]
  /\ since' = [since EXCEPT ![cur[w]] = 0]
  /\ NextRow(w)
  /\ UNCHANGED <<late, approvalVars, worldVars, historyVars>>

MarkSent(w) == pc[w] = "mark_sent" /\ WriteBack(w, "sent", detail[cur[w]])

\* Nothing was sent and a later tick may send it.
Deferrable_AnyError(w) == late[cur[w]] < SCHEDULED_SEND_DEFER_WINDOW
Deferrable_NoWindow(w) == err[w] \in {"held", "not_sent"}
Deferrable(w) ==
  \/ err[w] = "held"
  \/ err[w] = "not_sent" /\ late[cur[w]] < SCHEDULED_SEND_DEFER_WINDOW

Defer_MarkedCounted(w) ==
  pc[w] = "caught" /\ Deferrable(w) /\ WriteBack(w, "pending", "deferred_counted")
Defer(w) ==
  /\ pc[w] = "caught"
  /\ Deferrable(w)
  /\ WriteBack(w, "pending", IF counted[w] THEN "deferred_counted" ELSE "deferred")

\* A terminal failure: an approved schedule's record is settled first ...
Fail(w) ==
  /\ pc[w] = "caught"
  /\ ~Deferrable(w)
  /\ Goto(w, IF settles[w] THEN "settle_failed" ELSE "mark_error")
  /\ RowStep(w)
  /\ UNCHANGED <<approvalVars, err, settles, attempted, counted, result, faults, charged>>

FailureOutcome_Certain(w) == "failed"
FailureOutcome(w) ==
  IF ~attempted[w] \/ err[w] \in {"not_sent", "refused"} THEN "failed" ELSE "unknown"

SettleFailed(w) ==
  /\ pc[w] = "settle_failed"
  /\ CompleteApproved(ApprovalOf[cur[w]], FailureOutcome(w))
  /\ Goto(w, "mark_error")
  /\ RowStep(w)
  /\ UNCHANGED <<bound, err, settles, attempted, counted, result, faults, charged>>

\* ... and the row with it.
MarkError_NoSuchStatus(w) == pc[w] = "mark_error" /\ WriteBack(w, "failed", "failed")
MarkError(w) == pc[w] = "mark_error" /\ WriteBack(w, "error", "failed")

\* A write-back that fails is not looked at: the row stays 'sending'.
LoseWriteBack(w) ==
  /\ \/ pc[w] \in {"mark_sent", "mark_error"}
     \/ pc[w] = "caught" /\ Deferrable(w)
  /\ Fault
  /\ NextRow(w)
  /\ UNCHANGED <<rowVars, approvalVars, cancel, frozen, historyVars>>

\* A ledger update that fails is logged; the dispatch goes on.
LoseSettlement(w) ==
  /\ Fault
  /\ \/ pc[w] = "settle_sent" /\ Goto(w, "mark_sent") /\ UNCHANGED err
     \/ pc[w] = "settle_failed" /\ Goto(w, "mark_error") /\ UNCHANGED err
     \/ /\ pc[w] = "settle_rerun"
        /\ \/ result[w] = "success" /\ Goto(w, "mark_sent") /\ UNCHANGED err
           \/ result[w] = "not_sent" /\ Throw(w, "not_sent")
           \/ result[w] \notin {"success", "not_sent"} /\ Throw(w, "error")
  /\ RowStep(w)
  /\ UNCHANGED <<approvalVars, settles, attempted, counted, result, charged>>

-----------------------------------------------------------------------------
(* The world *)

\* The isolate dies between two calls; the database keeps what was written.
Crash(w) ==
  /\ pc[w] # "idle"
  /\ Fault
  /\ Stop(w)
  /\ UNCHANGED <<rowVars, approvalVars, cancel, frozen, historyVars>>

\* An operator freezes a row's workspace or a brake trips; later it lifts.
Freeze(r) ==
  /\ r \notin frozen
  /\ Fault
  /\ frozen' = frozen \cup {r}
  /\ UNCHANGED <<rowVars, approvalVars, pc, localVars, cancel, historyVars>>

Unfreeze(r) ==
  /\ r \in frozen
  /\ frozen' = frozen \ {r}
  /\ UNCHANGED <<rowVars, approvalVars, pc, localVars, cancel, faults, historyVars>>

\* Time passes; no invocation outlives the platform's limit.  The clocks run
\* only while the code can still read them.
Tick ==
  /\ \A w \in Workers : pc[w] # "idle" => life[w] < MaxInvocation
  /\ late' = [r \in Rows |->
       IF status[r] \in {"pending", "sending"} /\ late[r] < SCHEDULED_SEND_DEFER_WINDOW
       THEN late[r] + 1 ELSE late[r]]
  /\ since' = [r \in Rows |->
       IF status[r] = "sending" /\ since[r] <= STALE_SENDING THEN since[r] + 1 ELSE since[r]]
  /\ life' = [w \in Workers |-> IF pc[w] = "idle" THEN 0 ELSE life[w] + 1]
  /\ UNCHANGED <<status, detail, approvalVars, pc, batch, seen, cur, err, settles,
                 attempted, counted, result, worldVars, historyVars>>

-----------------------------------------------------------------------------
Write(r) == ScheduleSend(r) \/ InsertMarker(r) \/ CancelRead(r) \/ CancelWrite(r)

\* The steps of an invocation that runs without incident.
Step(w) ==
  \/ Reclaim(w) \/ Fetch(w) \/ Claim(w) \/ Finish(w)
  \/ PassGates(w) \/ RefuseAtGate(w) \/ ReadApproval(w) \/ Bind(w)
  \/ PassKey(w) \/ RefuseNarrowedKey(w) \/ BrakeAllows(w) \/ BrakeHolds(w)
  \/ SendDirect(w) \/ SendRerun(w) \/ SettleRerun(w) \/ SettleSent(w)
  \/ MarkSent(w) \/ Defer(w) \/ Fail(w) \/ SettleFailed(w) \/ MarkError(w)
  \/ FetchNothing(w) \/ Skip(w)

Incident(w) ==
  \/ ReclaimFails(w) \/ ClaimLost(w) \/ BindFails(w) \/ BrakeFailsOpen(w)
  \/ LoseWriteBack(w) \/ LoseSettlement(w) \/ Crash(w)

Next ==
  \/ \E r \in Rows : Write(r) \/ Freeze(r) \/ Unfreeze(r)
  \/ \E w \in Workers : Step(w) \/ Incident(w)
  \/ Tick

Spec == Init /\ [][Next]_vars

\* pg_cron keeps calling the dispatcher and a started invocation runs on;
\* time passes; a freeze is lifted in the end.
Fairness ==
  /\ \A w \in Workers : WF_vars(Step(w))
  /\ WF_vars(Tick)
  /\ \A r \in Rows : WF_vars(Unfreeze(r))

FairSpec == Spec /\ Fairness

-----------------------------------------------------------------------------
(* Properties *)

\* A row in flight belongs to one invocation: however invocations overlap,
\* crash or are reclaimed, no two hold the same row of scheduled_sends.
SingleOwner ==
  \A v, w \in Workers :
    pc[v] \in Holding /\ pc[w] \in Holding /\ cur[v] = cur[w] => v = w

\* The provider is handed a row's message at most once, although claims,
\* crashes, lost answers, deferrals and reclaims may follow in any order.
AtMostOnce == \A r \in Rows : transmitted[r] <= 1

\* One approval, one delivery: of all the markers that name an approval at
\* most one is ever transmitted (dispatch_scheduled_send_id).
ApprovalSpentOnce ==
  \A r, s \in Rows :
    /\ IsMarker(r) /\ ApprovalOf[r] = ApprovalOf[s]
    /\ transmitted[r] > 0 /\ transmitted[s] > 0
    => r = s

\* The status a user reads is the truth where it claims certainty: 'sent' was
\* transmitted, 'cancelled' and 'pending' (deferred ones too) were not.
StatusIsTruth ==
  \A r \in Rows :
    /\ status[r] = "sent" => transmitted[r] > 0
    /\ status[r] \in {"absent", "pending", "cancelled"} => transmitted[r] = 0

\* A terminal row stays as it is: no late invocation re-opens a row that a
\* reclaim failed, and none overwrites a cancel.
TerminalStays ==
  [][\A r \in Rows : status[r] \in Terminal => status'[r] = status[r]]_vars

\* The outbound brake counts what goes out, unless it could not be asked: a
\* deferred row that is not counted again was counted by an earlier attempt.
SentIsCounted == \A r \in Rows : transmitted[r] > 0 => charged[r] # "no"

\* The caller's record never claims a delivery that did not happen, and for
\* an approved schedule "failed" means that nothing went out.
LedgerIsTruth ==
  \A a \in Approvals :
    /\ ledger[a] = "succeeded" =>
         \E r \in Rows : ApprovalOf[r] = a /\ transmitted[r] > 0
    /\ ledger[a] = "failed" /\ a \in ScheduleOps =>
         \A r \in Rows : ApprovalOf[r] = a => transmitted[r] = 0

\* A queued row never stays queued: once the brakes let go and incidents
\* stop, it reaches a terminal status, a claimed one through the reclaim.
EventuallyResolved ==
  \A r \in Rows : status[r] \in {"pending", "sending"} ~> status[r] \in Terminal

-----------------------------------------------------------------------------
(* What the code's comments and texts claim, and the code does not do *)

\* schedule_cancel answers cancelled: true only for a row it cancelled
\* ("messages already in 'sending', 'sent', or 'error' state cannot be
\* cancelled", the tool's description).
CancelAnswerIsTrue == \A r \in Rows : cancel[r] = "reported" => status[r] = "cancelled"

\* "The caller's idempotency record remains pending until this trusted
\* dispatcher has reached a terminal outcome": a record that says failed
\* belongs to a request that is not sent later.
FailedRecordIsFinal ==
  \A r \in Rows : IsMarker(r) /\ ledger[ApprovalOf[r]] = "failed" => transmitted[r] = 0

\* The queue keeps the promise of DeliveryPromise: what a user can say of a
\* message at any moment, from its row and from what the provider was given.
Fate(r) ==
  CASE transmitted[r] > 0 -> "delivered"
    [] transmitted[r] = 0 /\ status[r] = "absent" -> "none"
    [] transmitted[r] = 0 /\ status[r] \in {"pending", "sending"} -> "queued"
    [] transmitted[r] = 0 /\ status[r] = "cancelled" -> "cancelled"
    [] transmitted[r] = 0 /\ status[r] = "error" -> "failed"
    [] OTHER -> "delivered"

Promise == INSTANCE DeliveryPromise WITH
  Messages <- Rows,
  fate <- [r \in Rows |-> Fate(r)],
  deliveries <- transmitted

KeepsPromise == Promise!FairSpec

-----------------------------------------------------------------------------
(* The queue is the dispatcher of SendApprovals, for each approval *)

MarkersOf(a) == {r \in Rows : ApprovalOf[r] = a}
HeldAt(r, locations) == \E w \in Workers : pc[w] \in locations /\ cur[w] = r

\* How far a marker is.  A row that is 'sending' in nobody's hands can only be
\* reclaimed: it has failed.
MarkerAt(r) ==
  CASE transmitted[r] > 0 -> "sent"
    [] transmitted[r] = 0 /\ status[r] = "absent" -> "none"
    [] transmitted[r] = 0 /\ status[r] = "pending" -> "queued"
    [] transmitted[r] = 0 /\ status[r] = "cancelled" -> "cancelled"
    [] transmitted[r] = 0 /\ status[r] = "sending" /\ HeldAt(r, Holding) ->
         IF HeldAt(r, {"bind"}) THEN "read"
         ELSE IF HeldAt(r, {"gates", "approval"}) \/ bound[ApprovalOf[r]] # r THEN "queued"
         ELSE "bound"
    [] OTHER -> "error"

\* What the rows of this module do not hold, the content of a request and its
\* decision, is that of an approval that was given and stays.
Request == [edits |-> {}, sendAt |-> "due"]
Review(a) == INSTANCE SendApprovals WITH
  Reviewers <- MarkersOf(a), Cards <- {}, SendTimes <- {"due"}, NoMarker <- NoRow,
  MaxLostInserts <- 0, MaxFaults <- 0,
  status <- "approved", revision <- 1, edits <- {}, sendAt <- "due", lapsed <- FALSE,
  decided <- "in_time", bound <- bound[a],
  at <- [r \in MarkersOf(a) |-> IF status[r] = "absent" THEN "insert" ELSE "approved"],
  shown <- [r \in MarkersOf(a) |-> [revision |-> 1, edits |-> {}, sendAt |-> "due"]],
  read <- [r \in MarkersOf(a) |-> [sendAt |-> "due", late |-> FALSE]],
  call <- {}, seen <- {},
  marker <- [r \in MarkersOf(a) |-> MarkerAt(r)], loaded <- [r \in MarkersOf(a) |-> {}],
  lostInserts <- 0, faults <- 0, approved <- {Request},
  delivered <- [r \in MarkersOf(a) |-> IF transmitted[r] > 0 THEN {Request} ELSE {}]

\* The steps SendApprovals knows of a marker.
DispatcherStep(a) ==
  \E r \in MarkersOf(a) :
    \/ Review(a)!Insert(r) \/ Review(a)!DispatchRead(r) \/ Review(a)!DispatchBind(r)
    \/ Review(a)!DispatchSend(r) \/ Review(a)!DispatchFails(r) \/ Review(a)!CancelMarker(r)

\* Everything the queue does to an approval and its markers, with overlapping and
\* dying invocations, deferrals and reclaims, is a step that SendApprovals allows its
\* dispatcher: what is shown there of a request holds with this queue behind it.
ServesApprovals ==
  [][\A a \in Approvals :
       [DispatcherStep(a)]_<<[r \in MarkersOf(a) |-> MarkerAt(r)], bound[a]>>]_vars

=============================================================================
