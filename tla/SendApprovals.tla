--------------------------- MODULE SendApprovals ---------------------------
(***************************************************************************)
(* One send that waits for a human: a row of send_approvals from the call  *)
(* that queued it to the delivery of its marker.  Web reviewers decide it  *)
(* (decideApproval), MCP calls edit, reschedule or reject it (the          *)
(* approval_* tools), the clock, the retention job and the removal of its  *)
(* inbox retire it, and the dispatcher delivers what was approved.  All of *)
(* them run concurrently and meet only in the row: each reads it, checks   *)
(* it, and writes it later under a WHERE clause.                           *)
(*                                                                         *)
(* Every statement of the code names one approval by its id, so one        *)
(* approval is all the module needs.  What a reviewer is shown is the set  *)
(* of edits its payload holds and its delivery time.  One action is one    *)
(* database call; a marker is named after the reviewer whose request       *)
(* inserted it.                                                            *)
(***************************************************************************)
EXTENDS Naturals, FiniteSets

CONSTANTS
  Reviewers,       \* decision requests of the web app, one decision each
  Cards,           \* approval_update, _schedule and _decide calls over MCP
  SendTimes,       \* delivery times a request may carry
  NoMarker,        \* null dispatch_scheduled_send_id
  MaxLostInserts,  \* bound: marker inserts whose answer is lost
  MaxFaults        \* bound: crashes and other failed or lost writes

ASSUME ActorsAssumption ==
  /\ NoMarker \notin Reviewers
  /\ SendTimes # {}
ASSUME BoundsAssumption == MaxLostInserts \in Nat /\ MaxFaults \in Nat

VARIABLES
  \* the row: its decision, what it shows, its deadline, its single use
  status, revision, edits, sendAt, lapsed, decided, bound,
  \* one decideApproval request per reviewer: where it is, what its page
  \* showed, the send_at it read and whether the deadline had passed then
  at, shown, read,
  \* one tool call per card: where it is, the row it loaded
  call, seen,
  \* the scheduled_sends row a reviewer inserted, the payload its dispatch read
  marker, loaded,
  lostInserts, faults,
  \* history: what reviewers approved, what was delivered
  approved, delivered

rowVars == <<status, revision, edits, sendAt, lapsed, decided, bound>>
reviewVars == <<at, shown, read>>
cardVars == <<call, seen>>
markerVars == <<marker, loaded>>
boundVars == <<lostInserts, faults>>
historyVars == <<approved, delivered>>
vars == <<rowVars, reviewVars, cardVars, markerVars, boundVars, historyVars>>

Statuses == {"absent", "pending", "approved", "rejected", "expired"}
Versions == [edits : SUBSET Cards, sendAt : SendTimes]
Shown == [revision : Nat, edits : SUBSET Cards, sendAt : SendTimes]
ReviewSteps == {"idle", "rendered", "retire", "claim", "insert", "release", "reject"}
ReviewAnswers == {"approved", "rejected", "refused", "queue_failed", "lost"}
CardSteps == {"idle", "retire", "reject", "update", "schedule"}
CardAnswers == {"rejected", "updated", "scheduled", "refused", "lost"}
MarkerSteps == {"none", "queued", "read", "bound", "sent", "error", "cancelled"}

TypeOK ==
  /\ status \in Statuses
  /\ revision \in Nat
  /\ edits \in SUBSET Cards
  /\ sendAt \in SendTimes
  /\ lapsed \in BOOLEAN
  /\ decided \in {"no", "in_time", "late"}
  /\ bound \in Reviewers \cup {NoMarker}
  /\ at \in [Reviewers -> ReviewSteps \cup ReviewAnswers]
  /\ shown \in [Reviewers -> Shown]
  /\ read \in [Reviewers -> [sendAt : SendTimes, late : BOOLEAN]]
  /\ call \in [Cards -> CardSteps \cup CardAnswers]
  /\ seen \in [Cards -> Shown]
  /\ marker \in [Reviewers -> MarkerSteps]
  /\ loaded \in [Reviewers -> SUBSET Cards]
  /\ lostInserts \in Nat
  /\ faults \in Nat
  /\ approved \in SUBSET Versions
  /\ delivered \in [Reviewers -> SUBSET Versions]

Row == [revision |-> revision, edits |-> edits, sendAt |-> sendAt]

Init ==
  /\ status = "absent"
  /\ revision = 1
  /\ edits = {}
  /\ sendAt \in SendTimes
  /\ lapsed = FALSE
  /\ decided = "no"
  /\ bound = NoMarker
  /\ at = [r \in Reviewers |-> "idle"]
  /\ shown = [r \in Reviewers |-> Row]
  /\ read = [r \in Reviewers |-> [sendAt |-> sendAt, late |-> FALSE]]
  /\ call = [c \in Cards |-> "idle"]
  /\ seen = [c \in Cards |-> Row]
  /\ marker = [r \in Reviewers |-> "none"]
  /\ loaded = [r \in Reviewers |-> {}]
  /\ lostInserts = 0
  /\ faults = 0
  /\ approved = {}
  /\ delivered = [r \in Reviewers |-> {}]

-----------------------------------------------------------------------------
(* The WHERE clauses and checks *)

IsExpired_Never == FALSE
IsExpired == lapsed
\* UPDATE ... SET status = 'expired' WHERE status = 'pending'
RetiredStatus == IF status = "pending" THEN "expired" ELSE status

Claimable_AnyRevision(r) == status = "pending"
Claimable_AnyStatus(r) == revision = shown[r].revision
Claimable(r) == status = "pending" /\ revision = shown[r].revision
Rejectable_AnyStatus == status # "absent"
Rejectable == status = "pending"
Editable_AnyRevision(c) == status = "pending"
Editable_AnyStatus(c) == revision = seen[c].revision
Editable(c) == status = "pending" /\ revision = seen[c].revision
Bindable_AnyMarker(r) == status = "approved"
Bindable(r) == status = "approved" /\ bound = NoMarker

\* approvalLapsedBeforeDecision
LapsedBeforeDecision == IsExpired /\ decided # "in_time"

ReviewGoto(r, l) == at' = [at EXCEPT ![r] = l]
CardGoto(c, l) == call' = [call EXCEPT ![c] = l]
MarkerGoto(r, l) == marker' = [marker EXCEPT ![r] = l]
Fault == faults < MaxFaults /\ faults' = faults + 1

-----------------------------------------------------------------------------
(* The row is queued, and time passes *)

\* queueSendApproval
Queue ==
  /\ status = "absent"
  /\ status' = "pending"
  /\ UNCHANGED <<revision, edits, sendAt, lapsed, decided, bound, reviewVars, cardVars,
                 markerVars, boundVars, historyVars>>

\* expires_at passes: 24 hours after it was queued.
Lapse ==
  /\ status # "absent"
  /\ ~lapsed
  /\ lapsed' = TRUE
  /\ UNCHANGED <<status, revision, edits, sendAt, decided, bound, reviewVars, cardVars,
                 markerVars, boundVars, historyVars>>

\* The retention job retires a request that expired while nobody looked, as
\* decided at its deadline.
RetireUnseen ==
  /\ lapsed
  /\ status = "pending"
  /\ status' = RetiredStatus
  /\ decided' = "in_time"
  /\ UNCHANGED <<revision, edits, sendAt, lapsed, bound, reviewVars, cardVars,
                 markerVars, boundVars, historyVars>>

\* cancelQueuedMail, when the inbox is removed: the request expires and its
\* payload is emptied, which the trigger counts as a change.
RemoveInbox ==
  /\ status = "pending"
  /\ status' = RetiredStatus
  /\ revision' = revision + 1
  /\ decided' = IF lapsed THEN "late" ELSE "in_time"
  /\ UNCHANGED <<edits, sendAt, lapsed, bound, reviewVars, cardVars,
                 markerVars, boundVars, historyVars>>

-----------------------------------------------------------------------------
(* A reviewer in the web app: decideApproval *)

ReviewStep(r) == UNCHANGED <<edits, sendAt, lapsed, bound, shown, cardVars, loaded, delivered>>

\* The page or the dialog shows the request and keeps its revision.
Render(r) ==
  /\ at[r] = "idle"
  /\ status = "pending"
  /\ shown' = [shown EXCEPT ![r] = Row]
  /\ ReviewGoto(r, "rendered")
  /\ UNCHANGED <<rowVars, read, cardVars, markerVars, boundVars, historyVars>>

\* The read WHERE status = 'pending', and the checks on what it returned.
DecideRead(r) ==
  /\ at[r] = "rendered"
  /\ \/ status # "pending" /\ ReviewGoto(r, "refused")
     \/ status = "pending" /\ IsExpired /\ ReviewGoto(r, "retire")
     \/ status = "pending" /\ ~IsExpired /\ ReviewGoto(r, "reject")
     \/ /\ status = "pending" /\ ~IsExpired
        /\ ReviewGoto(r, IF revision = shown[r].revision THEN "claim" ELSE "refused")
  /\ read' = [read EXCEPT ![r] = [sendAt |-> sendAt, late |-> lapsed]]
  /\ ReviewStep(r)
  /\ UNCHANGED <<status, revision, decided, marker, boundVars, approved>>

DecideRetire(r) ==
  /\ at[r] = "retire"
  /\ status' = RetiredStatus
  /\ decided' = IF status = "pending" THEN "late" ELSE decided
  /\ ReviewGoto(r, "refused")
  /\ ReviewStep(r)
  /\ UNCHANGED <<revision, read, marker, boundVars, approved>>

\* UPDATE ... SET status = 'approved' WHERE status = 'pending' AND revision =
\* the rendered one.  decided_at is the time of the read, so a claim that lands
\* after the deadline was still decided in time.
Claim(r) ==
  /\ at[r] = "claim"
  /\ Claimable(r)
  /\ status' = "approved"
  /\ decided' = IF read[r].late THEN "late" ELSE "in_time"
  /\ approved' = approved \cup {[edits |-> shown[r].edits, sendAt |-> shown[r].sendAt]}
  /\ ReviewGoto(r, "insert")
  /\ ReviewStep(r)
  /\ UNCHANGED <<revision, read, marker, boundVars>>

\* Zero rows: another decision or an edit was first ("changed", "not_pending").
LoseClaim(r) ==
  /\ at[r] = "claim"
  /\ ~Claimable(r)
  /\ ReviewGoto(r, "refused")
  /\ ReviewStep(r)
  /\ UNCHANGED <<status, revision, decided, read, marker, boundVars, approved>>

\* The marker, at `approval.send_at ?? now` of the row that was read.
Insert(r) ==
  /\ at[r] = "insert"
  /\ \/ MarkerGoto(r, "queued") /\ ReviewGoto(r, "approved")
     \/ ReviewGoto(r, "release") /\ UNCHANGED marker
  /\ ReviewStep(r)
  /\ UNCHANGED <<status, revision, decided, read, boundVars, approved>>

\* The insert reported an error after the row was stored.
LoseInsertAnswer(r) ==
  /\ at[r] = "insert"
  /\ lostInserts < MaxLostInserts
  /\ lostInserts' = lostInserts + 1
  /\ MarkerGoto(r, "queued")
  /\ ReviewGoto(r, "release")
  /\ ReviewStep(r)
  /\ UNCHANGED <<status, revision, decided, read, faults, approved>>

\* UPDATE ... SET status = 'pending', decided_at = null WHERE status = 'approved'
Released_Never == "approved"
Released == "pending"
Release(r) ==
  /\ at[r] = "release"
  /\ status' = IF status = "approved" THEN Released ELSE status
  /\ decided' = IF status = "approved" THEN "no" ELSE decided
  /\ ReviewGoto(r, "queue_failed")
  /\ ReviewStep(r)
  /\ UNCHANGED <<revision, read, marker, boundVars, approved>>

\* UPDATE ... SET status = 'rejected' WHERE status = 'pending'; the answer is
\* the same whether or not it matched a row.
Reject(r) ==
  /\ at[r] = "reject"
  /\ status' = IF Rejectable THEN "rejected" ELSE status
  /\ decided' = IF Rejectable THEN "in_time" ELSE decided
  /\ ReviewGoto(r, "rejected")
  /\ ReviewStep(r)
  /\ UNCHANGED <<revision, read, marker, boundVars, approved>>

\* The claim took effect and its answer was lost: decideApproval answers
\* not_pending and inserts nothing.
LoseClaimAnswer(r) ==
  /\ at[r] = "claim"
  /\ Claimable(r)
  /\ Fault
  /\ status' = "approved"
  /\ decided' = IF read[r].late THEN "late" ELSE "in_time"
  /\ approved' = approved \cup {[edits |-> shown[r].edits, sendAt |-> shown[r].sendAt]}
  /\ ReviewGoto(r, "refused")
  /\ ReviewStep(r)
  /\ UNCHANGED <<revision, read, marker, lostInserts>>

\* A release that fails is not looked at, and a request may die anywhere.
DecideDies(r) ==
  /\ at[r] \in ReviewSteps \ {"idle", "rendered"}
  /\ Fault
  /\ ReviewGoto(r, "lost")
  /\ ReviewStep(r)
  /\ UNCHANGED <<status, revision, decided, read, marker, lostInserts, approved>>

-----------------------------------------------------------------------------
(* An MCP call: loadPendingApproval, then its own write *)

CardStep(c) == UNCHANGED <<lapsed, bound, reviewVars, markerVars, lostInserts, historyVars>>

\* loadPendingApproval, for the tool the call is of.
CardLoad(c) ==
  /\ call[c] = "idle"
  /\ status # "absent"
  /\ \/ status # "pending" /\ CardGoto(c, "refused")
     \/ status = "pending" /\ IsExpired /\ CardGoto(c, "retire")
     \/ /\ status = "pending" /\ ~IsExpired
        /\ \E tool \in {"reject", "update", "schedule"} : CardGoto(c, tool)
  /\ seen' = [seen EXCEPT ![c] = Row]
  /\ CardStep(c)
  /\ UNCHANGED <<status, revision, edits, sendAt, decided, faults>>

CardRetire(c) ==
  /\ call[c] = "retire"
  /\ status' = RetiredStatus
  /\ decided' = IF status = "pending" THEN "late" ELSE decided
  /\ CardGoto(c, "refused")
  /\ CardStep(c)
  /\ UNCHANGED <<revision, edits, sendAt, seen, faults>>

\* runApprovalDecide
CardReject(c) ==
  /\ call[c] = "reject"
  /\ status' = IF Rejectable THEN "rejected" ELSE status
  /\ decided' = IF Rejectable THEN "in_time" ELSE decided
  /\ CardGoto(c, IF Rejectable THEN "rejected" ELSE "refused")
  /\ CardStep(c)
  /\ UNCHANGED <<revision, edits, sendAt, seen, faults>>

\* runApprovalUpdate: writes the payload it built from the row it loaded.  The
\* trigger send_approvals_bump_revision moves the revision with it.
CardUpdate(c) ==
  /\ call[c] = "update"
  /\ \/ /\ Editable(c)
        /\ edits' = seen[c].edits \cup {c}
        /\ revision' = revision + 1
        /\ CardGoto(c, "updated")
     \/ /\ ~Editable(c)
        /\ CardGoto(c, "refused")
        /\ UNCHANGED <<edits, revision>>
  /\ CardStep(c)
  /\ UNCHANGED <<status, sendAt, decided, seen, faults>>

\* runApprovalSchedule: the same for send_at.
CardSchedule(c) ==
  /\ call[c] = "schedule"
  /\ \/ /\ Editable(c)
        /\ sendAt' \in SendTimes
        /\ revision' = IF sendAt' = sendAt THEN revision ELSE revision + 1
        /\ CardGoto(c, "scheduled")
     \/ /\ ~Editable(c)
        /\ CardGoto(c, "refused")
        /\ UNCHANGED <<sendAt, revision>>
  /\ CardStep(c)
  /\ UNCHANGED <<status, edits, decided, seen, faults>>

CardDies(c) ==
  /\ call[c] \in CardSteps \ {"idle"}
  /\ Fault
  /\ CardGoto(c, "lost")
  /\ CardStep(c)
  /\ UNCHANGED <<status, revision, edits, sendAt, decided, seen>>

-----------------------------------------------------------------------------
(* The dispatcher's side of a marker (see ScheduledDispatch) *)

MarkerStep == UNCHANGED <<status, revision, edits, sendAt, lapsed, decided, reviewVars, cardVars,
                          boundVars, approved>>

\* Reads the approval WHERE status = 'approved', with its payload.
DispatchRead(r) ==
  /\ marker[r] = "queued"
  /\ MarkerGoto(r,
       IF status # "approved" \/ LapsedBeforeDecision \/ bound \notin {r, NoMarker} THEN "error"
       ELSE IF bound = r THEN "bound" ELSE "read")
  /\ loaded' = [loaded EXCEPT ![r] = edits]
  /\ MarkerStep
  /\ UNCHANGED <<bound, delivered>>

\* UPDATE ... SET dispatch_scheduled_send_id = the marker's id
\* WHERE status = 'approved' AND dispatch_scheduled_send_id IS NULL
DispatchBind(r) ==
  /\ marker[r] = "read"
  /\ \/ Bindable(r) /\ bound' = r /\ MarkerGoto(r, "bound")
     \/ ~Bindable(r) /\ MarkerGoto(r, "error") /\ UNCHANGED bound
  /\ MarkerStep
  /\ UNCHANGED <<loaded, delivered>>

\* Runs the operation with the payload that was read.
DispatchSend(r) ==
  /\ marker[r] = "bound"
  /\ delivered' = [delivered EXCEPT ![r] = @ \cup {[edits |-> loaded[r], sendAt |-> read[r].sendAt]}]
  /\ MarkerGoto(r, "sent")
  /\ MarkerStep
  /\ UNCHANGED <<bound, loaded>>

\* Nothing was sent: the marker is queued again, or it has failed for good.
DispatchFails(r) ==
  /\ marker[r] \in {"queued", "read", "bound"}
  /\ \E l \in {"queued", "error"} : MarkerGoto(r, l)
  /\ MarkerStep
  /\ UNCHANGED <<bound, loaded, delivered>>

\* schedule_cancel, and the removal of the inbox.
CancelMarker(r) ==
  /\ marker[r] = "queued"
  /\ MarkerGoto(r, "cancelled")
  /\ MarkerStep
  /\ UNCHANGED <<bound, loaded, delivered>>

-----------------------------------------------------------------------------
\* What is left of a request that has been submitted.
Decide(r) ==
  DecideRetire(r) \/ Claim(r) \/ LoseClaim(r) \/ Insert(r) \/ Release(r) \/ Reject(r)

Next ==
  \/ Queue \/ Lapse \/ RetireUnseen \/ RemoveInbox
  \/ \E r \in Reviewers :
       \/ Render(r) \/ DecideRead(r) \/ Decide(r)
       \/ LoseClaimAnswer(r) \/ LoseInsertAnswer(r) \/ DecideDies(r)
       \/ DispatchRead(r) \/ DispatchBind(r) \/ DispatchSend(r)
       \/ DispatchFails(r) \/ CancelMarker(r)
  \/ \E c \in Cards :
       \/ CardLoad(c) \/ CardRetire(c) \/ CardReject(c)
       \/ CardUpdate(c) \/ CardSchedule(c) \/ CardDies(c)

Spec == Init /\ [][Next]_vars

\* A request that was submitted runs on unless it dies; nobody has to submit one.
FairSpec == Spec /\ \A r \in Reviewers : WF_vars(Decide(r))

-----------------------------------------------------------------------------
(* Properties *)

Deliveries == UNION {delivered[r] : r \in Reviewers}

\* What goes out is what somebody approved, content and time: no edit or
\* reschedule slips in between the page, the claim, the marker and the
\* dispatcher's own read of the payload (the revision check of the claim).
SentAsReviewed == Deliveries \subseteq approved

\* Of two edits built from the same row one is refused: an edit whose caller
\* was told that it is saved is never overwritten.
NoLostEdit == \A c \in Cards : call[c] = "updated" => c \in edits

\* A request that reads rejected or expired was not sent, whoever decided it
\* and however the decisions raced each other and the dispatcher.
RefusedIsUnsent == status \in {"rejected", "expired"} => Deliveries = {}

\* A rejection or an expiry is final: no claim, release or edit of a slower
\* request brings the send back.
DecisionStays == [][(status \in {"rejected", "expired"}) => status' = status]_vars

\* What goes out was decided inside its 24 hours, at whatever later time.
LateNeverSent == Deliveries # {} => decided = "in_time"

\* However often the approval is released and given again, and however many
\* markers name it, one of them is delivered.
DeliveredOnce ==
  \A q, r \in Reviewers : delivered[q] # {} /\ delivered[r] # {} => q = r

\* An approval does not stay behind without a row to deliver it: it is queued,
\* or released to be decided again.
ApprovedIsQueued ==
  status = "approved" ~> status # "approved" \/ \E r \in Reviewers : marker[r] # "none"

\* The review path keeps the promise of ApprovalPromise.
Fate ==
  CASE status = "absent" -> "none"
    [] status = "pending" -> "held"
    [] status = "approved" -> IF Deliveries = {} THEN "approved" ELSE "delivered"
    [] status \in {"rejected", "expired"} -> "refused"

Promise == INSTANCE ApprovalPromise WITH
  fate <- Fate,
  version <- [edits |-> edits, sendAt |-> sendAt],
  sent <- Deliveries

KeepsPromise == Promise!Spec

-----------------------------------------------------------------------------
(* The request is the approval of OutboundIdempotency, to the call that made it *)

KeyView ==
  CASE status = "absent" -> "none"
    [] status = "pending" -> "pending"
    [] status = "approved" -> "approved"
    [] status \in {"rejected", "expired"} -> "dead"
Delivery == IF Deliveries = {} THEN "no" ELSE "sent"

\* The one call whose run queues the request; its record is not looked at.
Caller == {"call"}
Ledger == INSTANCE OutboundIdempotency WITH
  Calls <- Caller, Requests <- {"request"}, Outcomes <- {"held"}, NoRecord <- "none",
  NoCall <- "nobody", WINDOW <- 2, MaxTicks <- 0, MaxFaults <- 0,
  record <- "none",
  pc <- [c \in Caller |-> IF status = "absent" THEN "run" ELSE "settle"],
  request <- [c \in Caller |-> "request"], saw <- [c \in Caller |-> "nobody"],
  outcome <- [c \in Caller |-> IF status = "absent" THEN "none" ELSE "held"],
  answer <- [c \in Caller |-> "none"],
  approval <- [c \in Caller |-> KeyView], dispatched <- [c \in Caller |-> Delivery],
  ticks <- 0, faults <- 0, sent <- IF Deliveries = {} THEN {} ELSE Caller,
  since <- [c \in Caller |-> 0], unwritten <- {}

\* The steps OutboundIdempotency knows of an approval.
ApprovalStep ==
  \E c \in Caller :
    \/ Ledger!Run(c) \/ Ledger!DecideApproval(c) \/ Ledger!ReleaseApproval(c) \/ Ledger!Dispatch(c)

\* Whatever pages, edits, decisions, releases and markers do to a request is a step
\* that OutboundIdempotency allows its approval: a dead one stays dead, an approved
\* one is delivered once or opened again before it is delivered.
ServesKey == [][ApprovalStep]_<<KeyView, Delivery>>

=============================================================================
