------------------------------ MODULE MCLedger ------------------------------
(***************************************************************************)
(* Three small instances that share nothing: one idempotency key within one *)
(* life of its record, one approval whose marker inserts lose their         *)
(* answers (MCReview has the key across its expiry, and the approval with   *)
(* edits and deaths), and the reminders of one inbox.  A behaviour picks    *)
(* one of them and the others rest, so that one run checks the three at the *)
(* price of the sum of their states.                                        *)
(***************************************************************************)
EXTENDS OutboundIdempotency, ReminderDispatch

CONSTANTS c1, c2, c3, q1, q2, absent, none, r1, r2, now, later, k1, k2

VARIABLES
  part,
  \* the variables of SendApprovals
  aStatus, aRevision, aEdits, aSendAt, aLapsed, aDecided, aBound, aAt, aShown, aRead,
  aCall, aSeen, aMarker, aLoaded, aLostInserts, aFaults, aApproved, aDelivered

approvalsVars ==
  <<aStatus, aRevision, aEdits, aSendAt, aLapsed, aDecided, aBound, aAt, aShown, aRead,
    aCall, aSeen, aMarker, aLoaded, aLostInserts, aFaults, aApproved, aDelivered>>
allVars == <<part, vars, approvalsVars, reminderVars>>

\* Two reviewers, so two markers, and the insert of either may lose its answer; no
\* request dies and nobody edits.
Again == INSTANCE SendApprovals WITH
  Reviewers <- {r1, r2}, Cards <- {}, SendTimes <- {now, later}, NoMarker <- none,
  MaxLostInserts <- 2, MaxFaults <- 0,
  status <- aStatus, revision <- aRevision, edits <- aEdits, sendAt <- aSendAt,
  lapsed <- aLapsed, decided <- aDecided, bound <- aBound, at <- aAt, shown <- aShown,
  read <- aRead, call <- aCall, seen <- aSeen, marker <- aMarker, loaded <- aLoaded,
  lostInserts <- aLostInserts, faults <- aFaults, approved <- aApproved, delivered <- aDelivered

AllInit ==
  /\ Init /\ Again!Init /\ ReminderInit
  /\ part \in {"key", "approval", "reminders"}
  /\ request[c1] = q1 /\ request[c2] = q1
  /\ part # "key" => request = [c \in Calls |-> q1]
  /\ part # "approval" => aSendAt = now
  /\ part # "reminders" => unlocatable = {}

\* The calls of a key, the reviewers of an approval and the callers of the reminders
\* differ in nothing but their names, and beginning a call writes nothing: it is
\* enough to look at those behaviours in which they begin in this order, and, of
\* two requests, in which the first two calls ask for the same.
InTurn ==
  /\ pc[c2] # "idle" => pc[c1] # "idle"
  /\ pc[c3] # "idle" => pc[c2] # "idle"
  /\ aAt[r2] # "idle" => aAt[r1] # "idle"
  /\ call[k2] # "ready" => call[k1] # "ready"

AllNext ==
  /\ UNCHANGED part
  /\ \/ part = "key" /\ Next /\ UNCHANGED <<approvalsVars, reminderVars>>
     \/ part = "approval" /\ Again!Next /\ UNCHANGED <<vars, reminderVars>>
     \/ part = "reminders" /\ ReminderNext /\ UNCHANGED <<vars, approvalsVars>>
  /\ InTurn'

\* The fairness of each (FairSpec, ReminderFairness), owed while it is the part that acts.
AllFairness ==
  /\ \A c \in Calls : WF_vars(part = "key" /\ (Claim(c) \/ Run(c) \/ Settle(c)))
  /\ \A r \in {r1, r2} : WF_approvalsVars(part = "approval" /\ Again!Decide(r))
  /\ \A w \in Sweepers : WF_reminderVars(part = "reminders" /\ (Wake(w) \/ SweeperStep(w)))
  /\ WF_reminderVars(part = "reminders" /\ \E k \in Callers : CallerStep(k))
  /\ \A s \in Snoozes : WF_reminderVars(part = "reminders" /\ ComesDue(s))
  /\ WF_reminderVars(part = "reminders" /\ \E r \in Reminders : HolderAges(r))

AllSpec == AllInit /\ [][AllNext]_allVars /\ AllFairness

-----------------------------------------------------------------------------
\* DeliveredOnce (after every step) and ApprovedIsQueued of SendApprovals: one delivery,
\* although inserts lose their answers, and no approval left behind without a marker.
ApprovalIsServed == [][Again!DeliveredOnce']_approvalsVars /\ Again!ApprovedIsQueued
=============================================================================
