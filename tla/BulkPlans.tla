----------------------------- MODULE BulkPlans -----------------------------
(***************************************************************************)
(* One bulk_plans row: a resolved bulk move or delete (or its Undo) that   *)
(* waits for a click.                                                      *)
(*                                                                         *)
(*   mcp-server/mcp-app-bulk.ts   bulk_execute, bulk_cancel and what they  *)
(* share   mcp-server/mcp-app-undo.ts   the row an Undo is                 *)
(* purge_send_history()         prunes rows a week past their deadline     *)
(*                                                                         *)
(* Each database call and the provider call is one step, so two clicks, a  *)
(* decline and the deadline interleave at every await.                     *)
(***************************************************************************)
EXTENDS Integers, FiniteSets

CONSTANTS
    Clicks,         \* calls of bulk_execute
    Declines,       \* calls of bulk_cancel
    MaxPlanFaults   \* crashes and failed or unanswered writes (bound)

PlanCalls == Clicks \cup Declines

ASSUME PlanAssumption == Clicks \cap Declines = {} /\ MaxPlanFaults \in Nat

VARIABLES
    plan,       \* status of the row, or "none"
    overdue,    \* expires_at has passed
    pace,       \* where each call stands
    said,       \* what it answered
    ran,        \* calls that handed the messages to the provider
    touched,    \* what the provider changed of them: "some" or "none"
    slips,      \* calls that died or whose write failed
    frozen,     \* what message_ids names: "some" messages or "none"
    overtaken   \* history: calls between finding the row overdue and retiring it
                \* while a click claimed it

planVars == <<plan, overdue, pace, said, ran, touched, slips, frozen, overtaken>>
asideVars == <<frozen, overtaken>>

Statuses == {"pending", "executing", "executed", "cancelled", "expired", "failed"}
Waiting == {"idle", "over"}

\* createBulkPlan, or buildBulkResultCard for an Undo: the last step of the call
\* that resolved the messages.
PlanInit ==
    /\ plan = "pending" /\ overdue = FALSE
    /\ pace = [c \in PlanCalls |-> "idle"]
    /\ said = [c \in PlanCalls |-> "nothing"]
    /\ ran = {} /\ touched = "none" /\ slips = {}
    /\ frozen \in {"some", "none"} /\ overtaken = {}

To(c, p) == pace' = [pace EXCEPT ![c] = p] /\ UNCHANGED said
Say(c, a) == pace' = [pace EXCEPT ![c] = "over"] /\ said' = [said EXCEPT ![c] = a]
Slip(c) == Cardinality(slips) < MaxPlanFaults /\ slips' = slips \cup {c}
NoSlip == UNCHANGED slips

\* UPDATE ... WHERE status = 'pending'
IfPending(s) == plan' = IF plan = "pending" THEN s ELSE plan

-----------------------------------------------------------------------------

\* loadPendingPlan.  A row that is gone, or not pending, answers at once.
Load(c) ==
    /\ pace[c] = "idle"
    /\ CASE plan # "pending" -> Say(c, plan)
         [] plan = "pending" /\ overdue -> To(c, "retire")
         [] OTHER -> To(c, IF c \in Clicks THEN "scope" ELSE "cancel")
    /\ UNCHANGED <<plan, overdue, ran, touched, slips>> /\ UNCHANGED asideVars

\* A pending row found past its deadline is retired on the spot.  The answer is
\* the same whether the UPDATE matched the row or not.
Retire_Unchecked(c) ==
    /\ pace[c] = "retire" /\ plan' = "expired" /\ Say(c, "expired")
    /\ UNCHANGED <<overdue, ran, touched, slips>> /\ UNCHANGED asideVars
Retire(c) ==
    /\ pace[c] = "retire"
    /\ Say(c, "expired")
    /\ \/ IfPending("expired") /\ NoSlip
       \/ Slip(c) /\ UNCHANGED plan
    /\ UNCHANGED <<overdue, ran, touched>> /\ UNCHANGED asideVars

\* The key may lack the scope of this action, and the ciphertext may not open.
ReadScope(c) ==
    /\ pace[c] = "scope"
    /\ To(c, "claim") \/ To(c, "unreadable") \/ Say(c, "denied")
    /\ UNCHANGED <<plan, overdue, ran, touched, slips>> /\ UNCHANGED asideVars

Unreadable(c) ==
    /\ pace[c] = "unreadable"
    /\ Say(c, "unreadable")
    /\ \/ IfPending("failed") /\ NoSlip
       \/ Slip(c) /\ UNCHANGED plan
    /\ UNCHANGED <<overdue, ran, touched>> /\ UNCHANGED asideVars

\* The claim makes the plan single-use.  Its answer may be lost.
ClaimPlan_Unchecked(c) ==
    /\ pace[c] = "claim" /\ plan' = "executing" /\ To(c, "run")
    /\ UNCHANGED <<overdue, ran, touched, slips>> /\ UNCHANGED asideVars
ClaimPlan(c) ==
    /\ pace[c] = "claim"
    /\ \/ /\ plan = "pending" /\ plan' = "executing" /\ To(c, "run") /\ NoSlip
          /\ overtaken' = overtaken \cup {d \in PlanCalls : pace[d] = "retire"}
       \/ /\ plan # "pending" /\ UNCHANGED plan /\ Say(c, "already run") /\ NoSlip
          /\ UNCHANGED overtaken
       \/ /\ Slip(c) /\ Say(c, "not started") /\ (IfPending("executing") \/ UNCHANGED plan)
          /\ UNCHANGED overtaken
    /\ UNCHANGED <<overdue, ran, touched, frozen>>

\* The provider reports some messages changed, or all of them failed (for the
\* ones it could not answer for it may be wrong), or throws.  Of an empty list
\* neither a success nor a failure is reported.
RunPlan(c) ==
    /\ pace[c] = "run"
    /\ ran' = ran \cup {c}
    /\ \/ frozen = "some" /\ touched' = "some" /\ To(c, "some succeeded")
       \/ frozen = "some" /\ touched' = "some" /\ To(c, "all failed")
       \/ frozen = "some" /\ UNCHANGED touched /\ To(c, "all failed")
       \/ frozen = "none" /\ UNCHANGED touched /\ To(c, "none to change")
       \/ frozen = "some" /\ touched' = "some" /\ To(c, "threw")
       \/ UNCHANGED touched /\ To(c, "threw")
    /\ UNCHANGED <<plan, overdue, slips>> /\ UNCHANGED asideVars

\* The outcome, written by id alone and not looked at: a total failure takes
\* succeeded = 0 and failed > 0.
Outcome(p) == IF p \in {"all failed", "threw"} THEN "failed" ELSE "executed"
WriteOutcome(c) ==
    /\ pace[c] \in {"some succeeded", "all failed", "none to change", "threw"}
    /\ Say(c, Outcome(pace[c]))
    /\ \/ plan' = Outcome(pace[c]) /\ NoSlip
       \/ Slip(c) /\ UNCHANGED plan
    /\ UNCHANGED <<overdue, ran, touched>> /\ UNCHANGED asideVars

\* runBulkCancel
CancelPlan_Unchecked(c) ==
    /\ pace[c] = "cancel" /\ plan' = "cancelled" /\ Say(c, "cancelled")
    /\ UNCHANGED <<overdue, ran, touched, slips>> /\ UNCHANGED asideVars
CancelPlan(c) ==
    /\ pace[c] = "cancel"
    /\ \/ plan = "pending" /\ plan' = "cancelled" /\ Say(c, "cancelled") /\ NoSlip
       \/ plan # "pending" /\ UNCHANGED plan /\ Say(c, "decided elsewhere") /\ NoSlip
       \/ Slip(c) /\ Say(c, "not recorded") /\ (IfPending("cancelled") \/ UNCHANGED plan)
    /\ UNCHANGED <<overdue, ran, touched>> /\ UNCHANGED asideVars

CallDies(c) ==
    /\ pace[c] \notin Waiting
    /\ Slip(c) /\ pace' = [pace EXCEPT ![c] = "over"]
    /\ UNCHANGED <<plan, overdue, said, ran, touched>> /\ UNCHANGED asideVars

Deadline ==
    /\ ~overdue /\ overdue' = TRUE
    /\ UNCHANGED <<plan, pace, said, ran, touched, slips>> /\ UNCHANGED asideVars

\* A week later; a call lives for minutes.
PrunePlan ==
    /\ overdue /\ plan # "none" /\ \A c \in PlanCalls : pace[c] \in Waiting
    /\ plan' = "none"
    /\ UNCHANGED <<overdue, pace, said, ran, touched, slips>> /\ UNCHANGED asideVars

PlanStep(c) ==
    \/ Load(c) \/ Retire(c) \/ ReadScope(c) \/ Unreadable(c) \/ ClaimPlan(c)
    \/ RunPlan(c) \/ WriteOutcome(c) \/ CancelPlan(c) \/ CallDies(c)

PlanNext == (\E c \in PlanCalls : PlanStep(c)) \/ Deadline \/ PrunePlan

PlanSpec == PlanInit /\ [][PlanNext]_planVars

-----------------------------------------------------------------------------
(* Properties.                                                             *)

\* A plan is handed to the provider at most once, whatever is clicked twice,
\* replayed or declined, and only by a call that found it within its deadline.
PlanRunsOnce == Cardinality(ran) <= 1

\* The row tells what became of the messages: a plan that waits, was declined
\* or expired was never run, an executed one changed some unless it froze none;
\* failed leaves it open.
PlanStatusIsTrue ==
    /\ plan \in {"pending", "cancelled", "expired"} => ran = {}
    /\ plan = "executed" /\ frozen = "some" => touched = "some"

\* What a caller is told of a plan holds for good: "cancelled" and "expired" mean
\* that it never runs, and "executed" that messages were changed, if any were
\* frozen.  An "expired" (nothing was changed) is wrong in two cases only: a click
\* claimed the row between the answering call's look at it and its UPDATE, or
\* that UPDATE failed.
AnswersHold ==
    \A c \in PlanCalls :
        /\ said[c] = "cancelled" => ran = {}
        /\ said[c] = "expired" => ran = {} \/ c \in overtaken \cup slips
        /\ said[c] = "executed" /\ frozen = "some" => touched = "some"

\* A plan runs once and its row says what became of it; so does every answer, but for an
\* "expired" that a click overtook or whose UPDATE failed.
PlanHolds == PlanRunsOnce /\ PlanStatusIsTrue /\ AnswersHold

=============================================================================
