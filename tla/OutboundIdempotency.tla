------------------------ MODULE OutboundIdempotency ------------------------
(***************************************************************************)
(* One idempotency key: the row of outbound_idempotency that its calls     *)
(* claim (claimOutboundIdempotency), settle (completeOutboundIdempotency)  *)
(* and, when the send waited for a human, the dispatcher settles           *)
(* (completeApprovedOutboundIdempotency).  Retries of a call run beside    *)
(* it, in other isolates, and meet it only in that row.                    *)
(*                                                                         *)
(* A call is one tools/call request that carries the key; one action is    *)
(* one database call or the run of the operation.  An approval is named    *)
(* after the call that asked for it.                                       *)
(***************************************************************************)
EXTENDS Naturals, FiniteSets

CONSTANTS
  Calls,      \* requests that carry the key
  Requests,   \* what they ask for: the digests of their arguments
  Outcomes,   \* what running the operation may come to
  NoRecord,   \* no row under the key
  NoCall,     \* null approval_id
  WINDOW,     \* 24 hours, in ticks: the life of a record
  MaxTicks,   \* bound: ticks
  MaxFaults   \* bound: crashes, failed writes and lost answers

\* held: queued for approval; ok: accepted; unknown: the provider failed or the
\* handler threw; not_sent: refused before anything was transmitted, or by a
\* brake, or for the user's yes; refused: invalid, forbidden or for want of a
\* slot, or no approval could be queued.
AllOutcomes == {"held", "ok", "unknown", "not_sent", "refused"}

ASSUME CallsAssumption == NoCall \notin Calls /\ Requests # {} /\ Outcomes \subseteq AllOutcomes
ASSUME BoundsAssumption == WINDOW \in Nat \ {0, 1} /\ MaxTicks \in Nat /\ MaxFaults \in Nat

VARIABLES
  record,     \* the row under the key: `owner` is the call that claimed it last
  pc,         \* where each call is
  request,    \* what it asks for
  saw,        \* the approval_id it read
  outcome,    \* what its run came to
  answer,     \* what it was answered
  approval,   \* the approval a call asked for: its status ...
  dispatched, \* ... and whether the dispatcher is done with it
  ticks, faults,
  sent,       \* history: calls whose operation reached the provider
  since,      \* history: ticks since a call claimed the key
  unwritten   \* history: calls whose settling write failed

callVars == <<pc, request, saw, outcome, answer>>
approvalVars == <<approval, dispatched>>
worldVars == <<ticks, faults>>
historyVars == <<sent, since, unwritten>>
vars == <<record, callVars, approvalVars, worldVars, historyVars>>

Statuses == {"processing", "pending_approval", "succeeded", "failed", "unknown"}
Record == [request : Requests, status : Statuses, approval : Calls \cup {NoCall},
           owner : Calls, age : 0 .. WINDOW]
ASSUME RecordAssumption == NoRecord \notin Record
Locations == {"idle", "clear", "look", "check", "reclaim", "insert", "reread", "run", "settle", "done"}
Running == {"run", "settle"}
Answers == Statuses \cup {"none", "approval_approved", "conflict", "unavailable", "ran", "lost"}

TypeOK ==
  /\ record \in Record \cup {NoRecord}
  /\ pc \in [Calls -> Locations]
  /\ request \in [Calls -> Requests]
  /\ saw \in [Calls -> Calls \cup {NoCall}]
  /\ outcome \in [Calls -> AllOutcomes \cup {"none"}]
  /\ answer \in [Calls -> Answers]
  /\ approval \in [Calls -> {"none", "pending", "approved", "dead"}]
  /\ dispatched \in [Calls -> {"no", "sent", "unknown", "over"}]
  /\ ticks \in Nat
  /\ faults \in Nat
  /\ sent \in SUBSET Calls
  /\ since \in [Calls -> 0 .. WINDOW]
  /\ unwritten \in SUBSET Calls

Init ==
  /\ record = NoRecord
  /\ pc = [c \in Calls |-> "idle"]
  /\ request \in [Calls -> Requests]
  /\ saw = [c \in Calls |-> NoCall]
  /\ outcome = [c \in Calls |-> "none"]
  /\ answer = [c \in Calls |-> "none"]
  /\ approval = [c \in Calls |-> "none"]
  /\ dispatched = [c \in Calls |-> "no"]
  /\ ticks = 0
  /\ faults = 0
  /\ sent = {}
  /\ since = [c \in Calls |-> 0]
  /\ unwritten = {}

-----------------------------------------------------------------------------
(* The row and its WHERE clauses *)

Stored == record # NoRecord
\* expires_at < now
Expired == Stored /\ record.age = WINDOW
Conflicts_Never(c) == FALSE
Conflicts(c) == record.request # request[c]

\* An approval that will not send: its record may be claimed again.
Dead_Unsent == {"dead", "pending"}
Dead == {"dead"}

Reclaimable_AnyStatus(c) == Stored /\ record.request = request[c]
Reclaimable(c) ==
  /\ Stored
  /\ record.request = request[c]
  /\ record.status = "pending_approval"
  /\ record.approval = saw[c]

\* Refusals that prove that nothing was sent give the key back.
Releases_Unknown == {"not_sent", "unknown"}
Releases_None == {}
Releases == {"not_sent"}

SettledAs_Optimist(o) ==
  CASE o = "held" -> "pending_approval"
    [] o \in {"ok", "unknown"} -> "succeeded"
    [] OTHER -> "failed"
SettledAs_Open(o) ==
  CASE o = "held" -> "pending_approval"
    [] o = "ok" -> "succeeded"
    [] o = "unknown" -> "processing"
    [] OTHER -> "failed"
SettledAs(o) ==
  CASE o = "held" -> "pending_approval"
    [] o = "ok" -> "succeeded"
    [] o = "unknown" -> "unknown"
    [] OTHER -> "failed"

Goto(c, l) == pc' = [pc EXCEPT ![c] = l]
Answer(c, a) == Goto(c, "done") /\ answer' = [answer EXCEPT ![c] = a]
Fault == faults < MaxFaults /\ faults' = faults + 1

-----------------------------------------------------------------------------
(* claimOutboundIdempotency *)

ClaimStep(c) == UNCHANGED <<request, outcome, approvalVars, ticks, sent, unwritten>>

Start(c) ==
  /\ pc[c] = "idle"
  /\ Goto(c, "clear")
  /\ UNCHANGED <<record, request, saw, outcome, answer, approvalVars, worldVars, historyVars>>

\* DELETE ... WHERE expires_at < now
Clear(c) ==
  /\ pc[c] = "clear"
  /\ record' = IF Expired THEN NoRecord ELSE record
  /\ Goto(c, "look")
  /\ ClaimStep(c)
  /\ UNCHANGED <<saw, answer, faults, since>>

\* SELECT ... WHERE expires_at > now, and what the row says.
Look(c) ==
  /\ pc[c] = "look"
  /\ \/ (~Stored \/ Expired) /\ Goto(c, "insert") /\ UNCHANGED <<saw, answer>>
     \/ /\ Stored /\ ~Expired /\ ~Conflicts(c) /\ record.status = "pending_approval"
        /\ saw' = [saw EXCEPT ![c] = record.approval]
        /\ Goto(c, "check")
        /\ UNCHANGED answer
     \/ /\ Stored /\ ~Expired
        /\ Conflicts(c) \/ record.status # "pending_approval"
        /\ Answer(c, IF Conflicts(c) THEN "conflict" ELSE record.status)
        /\ UNCHANGED saw
  /\ ClaimStep(c)
  /\ UNCHANGED <<record, faults, since>>

\* The status of the approval that the record names.
Check(c) ==
  /\ pc[c] = "check"
  /\ \/ approval[saw[c]] \in Dead /\ Goto(c, "reclaim") /\ UNCHANGED answer
     \/ approval[saw[c]] \notin Dead
        /\ Answer(c, IF approval[saw[c]] = "approved" THEN "approval_approved" ELSE "pending_approval")
  /\ ClaimStep(c)
  /\ UNCHANGED <<record, saw, faults, since>>

\* UPDATE ... SET status = 'processing', approval_id = null WHERE status =
\* 'pending_approval' AND approval_id = the one it read.  expires_at stays.
Reclaim(c) ==
  /\ pc[c] = "reclaim"
  /\ \/ /\ Reclaimable(c)
        /\ record' = [record EXCEPT !.status = "processing", !.approval = NoCall, !.owner = c]
        /\ since' = [since EXCEPT ![c] = 0]
        /\ Goto(c, "run")
        /\ UNCHANGED answer
     \/ /\ ~Reclaimable(c)
        /\ Answer(c, "processing")
        /\ UNCHANGED <<record, since>>
  /\ ClaimStep(c)
  /\ UNCHANGED <<saw, faults>>

NewRecord(c) ==
  [request |-> request[c], status |-> "processing", approval |-> NoCall, owner |-> c, age |-> 0]

\* INSERT, under the unique index on the key.
Insertable_Unguarded == TRUE
Insertable == ~Stored
Insert(c) ==
  /\ pc[c] = "insert"
  /\ \/ /\ Insertable
        /\ record' = NewRecord(c)
        /\ since' = [since EXCEPT ![c] = 0]
        /\ Goto(c, "run")
     \/ /\ ~Insertable
        /\ Goto(c, "reread")
        /\ UNCHANGED <<record, since>>
  /\ ClaimStep(c)
  /\ UNCHANGED <<saw, answer, faults>>

\* The row was stored and the insert reported an error.
LoseInsertAnswer(c) ==
  /\ pc[c] = "insert"
  /\ Insertable
  /\ Fault
  /\ record' = NewRecord(c)
  /\ since' = [since EXCEPT ![c] = 0]
  /\ Goto(c, "reread")
  /\ ClaimStep(c)
  /\ UNCHANGED <<saw, answer>>

\* The row that was there first.  This read does not look at expires_at, nor
\* at the approval.
Reread(c) ==
  /\ pc[c] = "reread"
  /\ Answer(c, IF ~Stored THEN "unavailable" ELSE IF Conflicts(c) THEN "conflict" ELSE record.status)
  /\ ClaimStep(c)
  /\ UNCHANGED <<record, saw, faults, since>>

\* The failure of the first DELETE is not looked at.
ClearFails(c) ==
  /\ pc[c] = "clear"
  /\ Fault
  /\ Goto(c, "look")
  /\ ClaimStep(c)
  /\ UNCHANGED <<record, saw, answer, since>>

\* A later query fails: nothing runs.
Unavailable(c) ==
  /\ pc[c] \in {"look", "check", "reclaim", "insert", "reread"}
  /\ Fault
  /\ Answer(c, IF pc[c] = "check" THEN "unknown" ELSE "unavailable")
  /\ ClaimStep(c)
  /\ UNCHANGED <<record, saw, since>>

-----------------------------------------------------------------------------
(* The call runs and settles the record *)

\* dispatchExecutor.  A provider error may hide that the message was accepted.
Run(c) ==
  /\ pc[c] = "run"
  /\ \E o \in Outcomes :
       /\ outcome' = [outcome EXCEPT ![c] = o]
       /\ approval' = IF o = "held" THEN [approval EXCEPT ![c] = "pending"] ELSE approval
       /\ \/ o \in {"ok", "unknown"} /\ sent' = sent \cup {c}
          \/ o # "ok" /\ UNCHANGED sent
  /\ Goto(c, "settle")
  /\ UNCHANGED <<record, request, saw, answer, dispatched, worldVars, since, unwritten>>

\* completeOutboundIdempotency: it matches the key and the arguments, nothing else.
\* The write may report an error all the same: it is only logged.
Settle(c) ==
  /\ pc[c] = "settle"
  /\ record' =
       IF ~Stored \/ Conflicts(c) THEN record
       ELSE IF outcome[c] \in Releases THEN NoRecord
       ELSE [record EXCEPT !.status = SettledAs(outcome[c]),
                           !.approval = IF outcome[c] = "held" THEN c ELSE @]
  /\ Answer(c, "ran")
  /\ UNCHANGED <<request, saw, outcome, approvalVars, worldVars, historyVars>>

\* The write fails (of a result with a snapshot, the second one without it too): that
\* is only logged, and the call answers what it came to.
SettleFails(c) ==
  /\ pc[c] = "settle"
  /\ Fault
  /\ unwritten' = unwritten \cup {c}
  /\ Answer(c, "ran")
  /\ UNCHANGED <<record, request, saw, outcome, approvalVars, ticks, sent, since>>

\* The isolate dies.
Crash(c) ==
  /\ pc[c] \notin {"idle", "done"}
  /\ Fault
  /\ Answer(c, "lost")
  /\ UNCHANGED <<record, request, saw, outcome, approvalVars, ticks, historyVars>>

-----------------------------------------------------------------------------
(* The approval (see SendApprovals) and its dispatch (see ScheduledDispatch) *)

EnvStep == UNCHANGED <<callVars, worldVars, since, unwritten>>

\* Approved, or rejected, cancelled or expired.
DecideApproval(c) ==
  /\ approval[c] = "pending"
  /\ \E s \in {"approved", "dead"} : approval' = [approval EXCEPT ![c] = s]
  /\ EnvStep
  /\ UNCHANGED <<record, dispatched, sent>>

\* Its marker could not be queued: the approval is open again.
ReleaseApproval(c) ==
  /\ approval[c] = "approved"
  /\ dispatched[c] = "no"
  /\ approval' = [approval EXCEPT ![c] = "pending"]
  /\ EnvStep
  /\ UNCHANGED <<record, dispatched, sent>>

\* The operation is run once; a deferral before that is a completion only.
Dispatch(c) ==
  /\ approval[c] = "approved"
  /\ dispatched[c] = "no"
  /\ \/ dispatched' = [dispatched EXCEPT ![c] = "sent"] /\ sent' = sent \cup {c}
     \/ dispatched' = [dispatched EXCEPT ![c] = "unknown"] /\ sent' \in {sent, sent \cup {c}}
  /\ EnvStep
  /\ UNCHANGED <<record, approval>>

\* UPDATE ... WHERE approval_id = the approval AND status = 'pending_approval'
CompleteApproved(c, s) ==
  record' = IF Stored /\ record.approval = c /\ record.status = "pending_approval"
            THEN [record EXCEPT !.status = s] ELSE record

RecordDispatch(c) ==
  /\ dispatched[c] \in {"sent", "unknown"}
  /\ CompleteApproved(c, IF dispatched[c] = "sent" THEN "succeeded" ELSE "unknown")
  /\ dispatched' = [dispatched EXCEPT ![c] = "over"]
  /\ EnvStep
  /\ UNCHANGED <<approval, sent>>

\* Not sent: the record says failed, the marker ends or is queued again.
DispatchFails(c) ==
  /\ approval[c] = "approved"
  /\ dispatched[c] = "no"
  /\ CompleteApproved(c, "failed")
  /\ dispatched' \in {dispatched, [dispatched EXCEPT ![c] = "over"]}
  /\ EnvStep
  /\ UNCHANGED <<approval, sent>>

\* Hours pass; a call that runs takes less than two ticks.
Tick ==
  /\ ticks < MaxTicks
  /\ \A c \in Calls : pc[c] \in Running => since[c] = 0
  /\ ticks' = ticks + 1
  /\ record' = IF Stored /\ ~Expired THEN [record EXCEPT !.age = @ + 1] ELSE record
  /\ since' = [c \in Calls |-> IF since[c] < WINDOW THEN since[c] + 1 ELSE since[c]]
  /\ UNCHANGED <<callVars, approvalVars, faults, sent, unwritten>>

-----------------------------------------------------------------------------
Claim(c) == Clear(c) \/ Look(c) \/ Check(c) \/ Reclaim(c) \/ Insert(c) \/ Reread(c)

Next ==
  \/ \E c \in Calls :
       \/ Start(c) \/ Claim(c) \/ Run(c) \/ Settle(c) \/ SettleFails(c)
       \/ LoseInsertAnswer(c) \/ ClearFails(c) \/ Unavailable(c) \/ Crash(c)
       \/ DecideApproval(c) \/ ReleaseApproval(c)
       \/ Dispatch(c) \/ RecordDispatch(c) \/ DispatchFails(c)
  \/ Tick

Spec == Init /\ [][Next]_vars

\* A call that was made runs to its end unless it dies.
FairSpec == Spec /\ \A c \in Calls : WF_vars(Claim(c) \/ Run(c) \/ Settle(c))

-----------------------------------------------------------------------------
(* Properties *)

\* "Retry key: reuse only for the identical call within 24h; it runs once": of
\* the calls that claimed the key in the last 24 hours to ask for the same
\* thing one reaches the provider, retries, lost answers, releases and
\* approvals notwithstanding.
RunsOnce ==
  \A c, d \in sent :
    request[c] = request[d] /\ since[c] < WINDOW /\ since[d] < WINDOW => c = d

\* Of concurrent calls that insert, reread or reclaim the record one runs.
OneRunner == \A c, d \in Calls : pc[c] \in Running /\ pc[d] \in Running => c = d

\* A retry does not queue a second approval while the first may still be
\* approved or delivered.
OneLiveApproval ==
  \A c, d \in Calls :
    approval[c] \in {"pending", "approved"} /\ approval[d] \in {"pending", "approved"} => c = d

\* A replay of success is the truth about that very request.
ReplayIsOwn ==
  \A c \in Calls : answer[c] = "succeeded" => \E d \in sent : request[d] = request[c]

\* The row is the truth about the call that claimed it last: success means that
\* its operation reached the provider, failure without an approval that it did not.
LedgerIsTruth ==
  Stored =>
    /\ record.status = "succeeded" => record.owner \in sent
    /\ record.status = "failed" /\ record.approval = NoCall => record.owner \notin sent

\* A refusal that proves that nothing was sent leaves the key free: its retry
\* claims it anew.  When the write that frees it fails, the retry is told that the
\* call is still in progress until the record expires; never that it was processed.
NotSentFreesKey ==
  \A c \in Calls :
    answer[c] = "ran" /\ outcome[c] = "not_sent" =>
      \/ ~Stored
      \/ record.owner # c
      \/ c \in unwritten /\ record.status = "processing"

\* No key stays "already being processed" once its call has run to its end,
\* unless that call died, never heard that the key was its own, or could not
\* write what it came to.
Processing == Stored /\ record.status = "processing"
Abandoned(c) == answer[c] \in {"lost", "processing", "unavailable"} \/ c \in unwritten
KeySettles == Processing ~> ~Processing \/ Abandoned(record.owner)

\* Of any number of concurrent retries one is at work, and one approval is open.
OneAtATime == OneRunner /\ OneLiveApproval

=============================================================================
