-------------------------- MODULE AutomationProofs --------------------------
(***************************************************************************)
(* What runs on a person's mail without that person watching: bulk plans,  *)
(* triage automations and the webhooks of new mail.  PlanHolds,            *)
(* TriageHolds and WatchHolds for any number of invocations, messages and  *)
(* incidents.                                                              *)
(***************************************************************************)
EXTENDS BulkPlans, TriageDispatch, MailWatch, TLAPS, FiniteSetTheorems

-----------------------------------------------------------------------------
(* BulkPlans.  The row is the lock: only the claim makes it "executing",   *)
(* only a call that works on the plan moves it on from there, and nothing  *)
(* makes it "pending" again.  So the calls that work on the plan or have   *)
(* run it are at most one (Engaged), and while nobody claimed it none has. *)

Writing == {"some succeeded", "all failed", "none to change", "threw"}
Paces == {"idle", "over", "retire", "scope", "cancel", "claim", "unreadable", "run"} \cup Writing

\* The call works on the plan, or has handed its messages to the provider.
Engaged(c) == pace[c] \in {"run"} \cup Writing \/ c \in ran

PlanTypes ==
  /\ plan \in Statuses \cup {"none"}
  /\ pace \in [PlanCalls -> Paces]
  /\ DOMAIN said = PlanCalls
  /\ ran \subseteq PlanCalls
  /\ touched \in {"some", "none"} /\ frozen \in {"some", "none"}

OneEngaged == \A c, d \in PlanCalls : Engaged(c) /\ Engaged(d) => c = d

\* Who works on the plan has the row, and has not run it before.
WorkerHasRow ==
  \A c \in PlanCalls :
    /\ pace[c] \in {"run"} \cup Writing => plan = "executing"
    /\ pace[c] = "run" => c \notin ran
    /\ pace[c] = "some succeeded" => touched = "some"
    /\ pace[c] = "none to change" => frozen = "none"

\* A decline is answered of a row that nobody can claim any more.
DenialIsFinal ==
  \A c \in PlanCalls :
    said[c] = "cancelled" => plan \in {"cancelled", "expired", "none"} /\ ran = {}

AffirmationIsTrue == \A c \in PlanCalls : said[c] = "executed" /\ frozen = "some" => touched = "some"

\* Who is about to retire the row found it with nobody at work; unless a click has
\* claimed it since, nobody gets to work on it after that.
LapseIsFinal ==
  \A c \in PlanCalls :
    /\ pace[c] = "retire" => c \in overtaken \/ \A d \in PlanCalls : ~Engaged(d)
    /\ said[c] = "expired" =>
         c \in overtaken \cup slips \/ (plan # "pending" /\ \A d \in PlanCalls : ~Engaged(d))

PlanInv ==
  /\ PlanTypes /\ OneEngaged /\ WorkerHasRow /\ PlanStatusIsTrue
  /\ DenialIsFinal /\ AffirmationIsTrue /\ LapseIsFinal

-----------------------------------------------------------------------------

LEMMA InitInv == PlanInit => PlanInv
BY DEF PlanInit, PlanInv, PlanTypes, OneEngaged, Engaged, WorkerHasRow, PlanStatusIsTrue,
       DenialIsFinal, AffirmationIsTrue, LapseIsFinal, Statuses, Paces, Writing

LEMMA PaceOf ==
  ASSUME PlanTypes, NEW c \in PlanCalls, NEW p \in Paces, pace' = [pace EXCEPT ![c] = p]
  PROVE  /\ pace' \in [PlanCalls -> Paces] /\ pace'[c] = p
         /\ \A d \in PlanCalls : d # c => pace'[d] = pace[d]
BY DEF PlanTypes

LEMMA SaidOf ==
  ASSUME PlanTypes, NEW c \in PlanCalls, NEW a, said' = [said EXCEPT ![c] = a]
  PROVE  /\ DOMAIN said' = PlanCalls /\ said'[c] = a
         /\ \A d \in PlanCalls : d # c => said'[d] = said[d]
BY DEF PlanTypes

\* A step by which nobody gets to work on the plan, and which does not take the row
\* from those who do.
LEMMA QuietStep ==
  ASSUME PlanInv, NEW c \in PlanCalls, NEW p \in Paces \ ({"run"} \cup Writing),
         pace' = [pace EXCEPT ![c] = p], ran' = ran, touched' = touched, frozen' = frozen,
         plan' = plan \/ plan # "executing"
  PROVE  OneEngaged' /\ WorkerHasRow' /\ (\A d \in PlanCalls : Engaged(d)' => Engaged(d))
<1>1. pace'[c] = p /\ \A d \in PlanCalls : d # c => pace'[d] = pace[d]
  BY PaceOf DEF PlanInv
<1>2. \A d \in PlanCalls : Engaged(d)' => Engaged(d)
  BY <1>1 DEF Engaged, Writing
<1>3. OneEngaged'
  BY <1>2 DEF PlanInv, OneEngaged
<1>4. WorkerHasRow'
  BY <1>1 DEF PlanInv, WorkerHasRow, Writing
<1> QED
  BY <1>2, <1>3, <1>4

\* Of such a step, what the answers "expired" rest on.
LEMMA LapseStep ==
  ASSUME PlanInv, NEW c \in PlanCalls, NEW p \in Paces \ {"retire"},
         pace' = [pace EXCEPT ![c] = p], \A d \in PlanCalls : Engaged(d)' => Engaged(d),
         overtaken' = overtaken, slips' = slips \/ slips' = slips \cup {c},
         plan # "pending" => plan' # "pending",
         \A d \in PlanCalls \ {c} : said'[d] = said[d],
         said'[c] = "expired" => said[c] = "expired" \/ c \in overtaken \cup slips'
                                 \/ (plan' # "pending" /\ \A d \in PlanCalls : ~Engaged(d))
  PROVE  LapseIsFinal'
<1>1. pace'[c] = p /\ \A d \in PlanCalls : d # c => pace'[d] = pace[d]
  BY PaceOf DEF PlanInv
<1> SUFFICES ASSUME NEW d \in PlanCalls
             PROVE  /\ pace'[d] = "retire" =>
                         d \in overtaken' \/ \A e \in PlanCalls : ~Engaged(e)'
                    /\ said'[d] = "expired" =>
                         \/ d \in overtaken' \cup slips'
                         \/ plan' # "pending" /\ \A e \in PlanCalls : ~Engaged(e)'
  BY DEF LapseIsFinal
<1>2. pace'[d] = "retire" => d \in overtaken' \/ \A e \in PlanCalls : ~Engaged(e)'
  BY <1>1 DEF PlanInv, LapseIsFinal
<1>3. said[d] = "expired" =>
         d \in overtaken' \cup slips' \/ (plan' # "pending" /\ \A e \in PlanCalls : ~Engaged(e)')
  <2>1. said[d] = "expired" =>
          d \in overtaken \cup slips \/ (plan # "pending" /\ \A e \in PlanCalls : ~Engaged(e))
    BY DEF PlanInv, LapseIsFinal
  <2>2. d \in overtaken \cup slips => d \in overtaken' \cup slips'
    OBVIOUS
  <2>3. (\A e \in PlanCalls : ~Engaged(e)) => \A e \in PlanCalls : ~Engaged(e)'
    OBVIOUS
  <2> QED
    BY <2>1, <2>2, <2>3
<1>4. CASE d = c
  BY <1>2, <1>3, <1>4
<1>5. CASE d # c
  BY <1>2, <1>3, <1>5
<1> QED
  BY <1>4, <1>5

LEMMA LoadInv == ASSUME PlanInv, NEW c \in PlanCalls, Load(c) PROVE PlanInv'
<1> USE DEF Load
<1> DEFINE next == IF c \in Clicks THEN "scope" ELSE "cancel"
<1>1. CASE plan # "pending" /\ Say(c, plan)
  <2>1. pace' = [pace EXCEPT ![c] = "over"] /\ said' = [said EXCEPT ![c] = plan]
    BY <1>1 DEF Say
  <2>0. UNCHANGED <<plan, ran, touched, slips, frozen, overtaken>>
    BY DEF asideVars
  <2>2. OneEngaged' /\ WorkerHasRow' /\ (\A d \in PlanCalls : Engaged(d)' => Engaged(d))
    BY <2>0, <2>1, QuietStep DEF Paces, Writing
  <2>3. PlanTypes'
    BY <2>0, <2>1, PaceOf, SaidOf DEF PlanInv, PlanTypes, Paces
  <2>6. said'[c] = plan /\ \A d \in PlanCalls : d # c => said'[d] = said[d]
    BY <2>1, SaidOf DEF PlanInv
  <2>4. DenialIsFinal' /\ AffirmationIsTrue' /\ PlanStatusIsTrue'
    BY <1>1, <2>0, <2>6 DEF PlanInv, DenialIsFinal, AffirmationIsTrue, PlanStatusIsTrue
  <2>5. LapseIsFinal'
    <3>1. plan = "expired" => \A d \in PlanCalls : ~Engaged(d)
      BY DEF PlanInv, PlanStatusIsTrue, WorkerHasRow, Engaged
    <3> QED
      BY <1>1, <2>0, <2>1, <2>2, <2>6, <3>1, LapseStep DEF Paces
  <2> QED
    BY <2>2, <2>3, <2>4, <2>5 DEF PlanInv
<1>2. CASE \E p \in {"retire", "scope", "cancel"} : To(c, p)
  <2>1. PICK p \in {"retire", "scope", "cancel"} : pace' = [pace EXCEPT ![c] = p] /\ UNCHANGED said
    BY <1>2 DEF To
  <2>0. UNCHANGED <<plan, ran, touched, slips, frozen, overtaken>>
    BY DEF asideVars
  <2>2. OneEngaged' /\ WorkerHasRow' /\ (\A d \in PlanCalls : Engaged(d)' => Engaged(d))
    BY <2>0, <2>1, QuietStep DEF Paces, Writing
  <2>3. PlanTypes'
    BY <2>0, <2>1, PaceOf DEF PlanInv, PlanTypes, Paces
  <2>4. DenialIsFinal' /\ AffirmationIsTrue' /\ PlanStatusIsTrue'
    BY <2>0, <2>1 DEF PlanInv, DenialIsFinal, AffirmationIsTrue, PlanStatusIsTrue
  <2>5. LapseIsFinal'
    <3>1. plan = "pending" => \A d \in PlanCalls : ~Engaged(d)
      BY DEF PlanInv, PlanStatusIsTrue, WorkerHasRow, Engaged
    <3>2. p = "retire" => plan = "pending"
      <4>1. pace'[c] = p
        BY <2>1, PaceOf DEF PlanInv, Paces
      <4>2. CASE plan # "pending"
        <5>1. pace' = [pace EXCEPT ![c] = "over"]
          BY <4>2 DEF Say
        <5> QED
          BY <4>1, <5>1, PaceOf DEF PlanInv, Paces
      <4> QED
        BY <4>2
    <3>3. \A d \in PlanCalls : pace'[d] = "retire" =>
            pace[d] = "retire" \/ \A e \in PlanCalls : ~Engaged(e)
      BY <2>1, <3>1, <3>2, PaceOf DEF PlanInv, Paces
    <3> QED
      BY <2>0, <2>1, <2>2, <3>3 DEF PlanInv, LapseIsFinal
  <2> QED
    BY <2>2, <2>3, <2>4, <2>5 DEF PlanInv
<1> QED
  BY <1>1, <1>2

LEMMA ReadScopeInv == ASSUME PlanInv, NEW c \in PlanCalls, ReadScope(c) PROVE PlanInv'
<1>1. PICK p \in {"claim", "unreadable", "over"} :
        /\ pace' = [pace EXCEPT ![c] = p]
        /\ UNCHANGED said \/ said' = [said EXCEPT ![c] = "denied"]
  BY DEF ReadScope, To, Say
<1>2. UNCHANGED <<plan, ran, touched, slips, frozen, overtaken>>
  BY DEF ReadScope, asideVars
<1>3. OneEngaged' /\ WorkerHasRow' /\ (\A d \in PlanCalls : Engaged(d)' => Engaged(d))
  BY <1>1, <1>2, QuietStep DEF Paces, Writing
<1>4. PlanTypes'
  BY <1>1, <1>2, PaceOf, SaidOf DEF PlanInv, PlanTypes, Paces
<1>5. /\ said'[c] \in {said[c], "denied"}
      /\ \A d \in PlanCalls \ {c} : said'[d] = said[d]
  BY <1>1, SaidOf DEF PlanInv
<1>6. LapseIsFinal'
  BY <1>1, <1>2, <1>3, <1>5, LapseStep DEF Paces
<1> QED
  BY <1>2, <1>3, <1>4, <1>5, <1>6 DEF PlanInv, DenialIsFinal, AffirmationIsTrue, PlanStatusIsTrue

LEMMA ClaimInv == ASSUME PlanInv, NEW c \in PlanCalls, ClaimPlan(c) PROVE PlanInv'
<1> USE DEF ClaimPlan
<1>0. UNCHANGED <<ran, touched, frozen>>
  OBVIOUS
<1>1. CASE /\ plan = "pending" /\ plan' = "executing" /\ To(c, "run")
           /\ overtaken' = overtaken \cup {d \in PlanCalls : pace[d] = "retire"}
  <2>1. /\ pace'[c] = "run" /\ \A d \in PlanCalls : d # c => pace'[d] = pace[d]
        /\ pace' \in [PlanCalls -> Paces]
    BY <1>1, PaceOf DEF To, PlanInv, Paces
  <2>2. ran = {} /\ \A d \in PlanCalls : ~Engaged(d)
    BY <1>1 DEF PlanInv, PlanStatusIsTrue, WorkerHasRow, Engaged
  <2>3. OneEngaged'
    BY <2>1, <2>2 DEF OneEngaged, Engaged
  <2>4. WorkerHasRow'
    BY <1>1, <2>1, <2>2 DEF WorkerHasRow, Engaged, Writing
  <2>5. PlanTypes' /\ PlanStatusIsTrue'
    BY <1>1, <2>1 DEF To, PlanInv, PlanTypes, PlanStatusIsTrue, Statuses
  <2>6. DenialIsFinal' /\ AffirmationIsTrue'
    BY <1>1 DEF To, PlanInv, DenialIsFinal, AffirmationIsTrue
  <2>7. LapseIsFinal'
    <3>1. \A d \in PlanCalls : pace'[d] = "retire" => d \in overtaken'
      BY <1>1, <2>1
    <3>2. UNCHANGED said /\ slips \subseteq slips'
      BY <1>1 DEF To, Slip, NoSlip
    <3>3. \A d \in PlanCalls : said[d] = "expired" => d \in overtaken \cup slips
      BY <1>1 DEF PlanInv, LapseIsFinal
    <3> QED
      BY <1>1, <3>1, <3>2, <3>3 DEF LapseIsFinal
  <2> QED
    BY <2>3, <2>4, <2>5, <2>6, <2>7 DEF PlanInv
<1>2. CASE \E a \in {"already run", "not started"} :
             /\ Say(c, a) /\ (plan' = plan \/ IfPending("executing"))
             /\ overtaken' = overtaken /\ (slips' = slips \/ slips' = slips \cup {c})
  <2>1. PICK a \in {"already run", "not started"} :
          pace' = [pace EXCEPT ![c] = "over"] /\ said' = [said EXCEPT ![c] = a]
    BY <1>2 DEF Say
  <2>2. plan' = plan \/ (plan = "pending" /\ plan' = "executing")
    BY <1>2 DEF IfPending
  <2>3. OneEngaged' /\ WorkerHasRow' /\ (\A d \in PlanCalls : Engaged(d)' => Engaged(d))
    BY <2>1, <2>2, QuietStep DEF Paces, Writing
  <2>4. PlanTypes'
    BY <2>1, <2>2, PaceOf, SaidOf DEF PlanInv, PlanTypes, Paces, Statuses
  <2>5. said'[c] = a /\ \A d \in PlanCalls \ {c} : said'[d] = said[d]
    BY <2>1, SaidOf DEF PlanInv
  <2>6. LapseIsFinal'
    BY <1>2, <2>1, <2>2, <2>3, <2>5, LapseStep DEF Paces
  <2>7. DenialIsFinal' /\ AffirmationIsTrue' /\ PlanStatusIsTrue'
    BY <2>2, <2>5 DEF PlanInv, DenialIsFinal, AffirmationIsTrue, PlanStatusIsTrue
  <2> QED
    BY <2>3, <2>4, <2>6, <2>7 DEF PlanInv
<1> QED
  BY <1>1, <1>2 DEF Slip, NoSlip

LEMMA RunInv == ASSUME PlanInv, NEW c \in PlanCalls, RunPlan(c) PROVE PlanInv'
<1>1. PICK p \in Writing :
        /\ pace' = [pace EXCEPT ![c] = p] /\ UNCHANGED said
        /\ p = "some succeeded" => touched' = "some"
        /\ p = "none to change" => frozen = "none"
  BY DEF RunPlan, To, Writing
<1>2. /\ pace[c] = "run" /\ plan = "executing" /\ c \notin ran
      /\ plan' = plan /\ ran' = ran \cup {c}
      /\ UNCHANGED <<slips, frozen, overtaken>>
  BY DEF RunPlan, PlanInv, PlanTypes, WorkerHasRow, asideVars
<1>10. touched' \in {"some", "none"} /\ (touched = "some" => touched' = "some")
  BY DEF RunPlan, PlanInv, PlanTypes
<1>3. /\ pace'[c] = p /\ \A d \in PlanCalls : d # c => pace'[d] = pace[d]
      /\ pace' \in [PlanCalls -> Paces]
  BY <1>1, PaceOf DEF PlanInv, Paces
<1>4. \A d \in PlanCalls : Engaged(d) => d = c
  BY <1>2 DEF PlanInv, OneEngaged, Engaged
<1>5. OneEngaged'
  BY <1>2, <1>3, <1>4 DEF OneEngaged, Engaged
<1>6. WorkerHasRow'
  BY <1>1, <1>2, <1>3, <1>4 DEF WorkerHasRow, Engaged, Writing
<1>7. PlanTypes'
  BY <1>1, <1>2, <1>3, <1>10 DEF PlanInv, PlanTypes
<1>8. DenialIsFinal' /\ PlanStatusIsTrue'
  BY <1>1, <1>2 DEF PlanInv, DenialIsFinal, PlanStatusIsTrue
<1>9. AffirmationIsTrue'
  BY <1>1, <1>2, <1>10, Zenon DEF PlanInv, AffirmationIsTrue
<1>11. LapseIsFinal'
  <2>1. \A d \in PlanCalls : Engaged(d)' => Engaged(d)
    BY <1>2, <1>3 DEF Engaged
  <2> QED
    BY <1>1, <1>2, <2>1, LapseStep DEF Paces, Writing
<1> QED
  BY <1>5, <1>6, <1>7, <1>8, <1>9, <1>11 DEF PlanInv

LEMMA CancelInv == ASSUME PlanInv, NEW c \in PlanCalls, CancelPlan(c) PROVE PlanInv'
<1> USE DEF CancelPlan
<1>1. PICK a \in {"cancelled", "decided elsewhere", "not recorded"} :
        /\ pace' = [pace EXCEPT ![c] = "over"] /\ said' = [said EXCEPT ![c] = a]
        /\ a = "cancelled" => plan' = "cancelled"
        /\ plan' = plan \/ (plan = "pending" /\ plan' = "cancelled")
        /\ slips' = slips \/ slips' = slips \cup {c}
        /\ UNCHANGED <<ran, touched, frozen, overtaken>>
  BY DEF Say, IfPending, Slip, NoSlip, asideVars
<1>2. OneEngaged' /\ WorkerHasRow' /\ (\A d \in PlanCalls : Engaged(d)' => Engaged(d))
  BY <1>1, QuietStep DEF Paces, Writing
<1>3. PlanTypes'
  BY <1>1, PaceOf, SaidOf DEF PlanInv, PlanTypes, Paces, Statuses
<1>4. \A d \in PlanCalls : said'[d] = said[d] \/ (d = c /\ said'[d] = a)
  BY <1>1, SaidOf DEF PlanInv
<1>5. DenialIsFinal' /\ AffirmationIsTrue' /\ PlanStatusIsTrue'
  <2>1. DenialIsFinal'
    BY <1>1, <1>4 DEF PlanInv, DenialIsFinal, PlanStatusIsTrue
  <2>2. AffirmationIsTrue'
    <3>1. \A d \in PlanCalls : said'[d] = "executed" => said[d] = "executed"
      BY <1>1, <1>4
    <3> QED
      BY <1>1, <3>1 DEF PlanInv, AffirmationIsTrue
  <2>3. PlanStatusIsTrue'
    <3>1. plan' = "executed" => plan = "executed"
      BY <1>1
    <3>2. plan' \in {"pending", "cancelled", "expired"} => plan \in {"pending", "cancelled", "expired"}
      BY <1>1
    <3> QED
      BY <1>1, <3>1, <3>2 DEF PlanInv, PlanStatusIsTrue
  <2> QED
    BY <2>1, <2>2, <2>3
<1>6. LapseIsFinal'
  <2>1. said'[c] = a /\ \A d \in PlanCalls \ {c} : said'[d] = said[d]
    BY <1>1, SaidOf DEF PlanInv
  <2> QED
    BY <1>1, <1>2, <2>1, LapseStep DEF Paces
<1> QED
  BY <1>2, <1>3, <1>5, <1>6 DEF PlanInv

LEMMA LastStepInv ==
  ASSUME PlanInv, NEW c \in PlanCalls, Retire(c) \/ Unreadable(c) \/ WriteOutcome(c)
  PROVE  PlanInv'
<1>1. PICK a \in {"expired", "unreadable", "executed", "failed"} :
        /\ pace' = [pace EXCEPT ![c] = "over"] /\ said' = [said EXCEPT ![c] = a]
        /\ UNCHANGED <<ran, touched, frozen, overtaken>>
        /\ plan' = plan \/ plan' # "pending"
        /\ slips' = slips \/ slips' = slips \cup {c}
  BY DEF Retire, Unreadable, WriteOutcome, Outcome, Say, Slip, NoSlip, IfPending, asideVars
<1>2. /\ pace'[c] = "over" /\ \A d \in PlanCalls : d # c => pace'[d] = pace[d]
      /\ said'[c] = a /\ \A d \in PlanCalls : d # c => said'[d] = said[d]
  BY <1>1, PaceOf, SaidOf DEF PlanInv, Paces
<1>3. PlanTypes'
  BY <1>1, PaceOf, SaidOf
  DEF PlanInv, PlanTypes, Paces, Statuses, Retire, Unreadable, WriteOutcome, Outcome, IfPending
<1>4. \A d \in PlanCalls : Engaged(d)' => Engaged(d)
  BY <1>1, <1>2 DEF Engaged, Writing
<1>5. OneEngaged'
  BY <1>4 DEF PlanInv, OneEngaged
<1>6. WorkerHasRow'
  <2>1. CASE plan # "executing" \/ plan' = plan
    BY <1>1, <2>1, QuietStep DEF Paces, Writing
  <2>2. CASE plan = "executing" /\ plan' # plan
    <3>1. pace[c] \in Writing
      BY <2>2 DEF Retire, Unreadable, WriteOutcome, IfPending, Writing
    <3>2. \A d \in PlanCalls : d # c => ~Engaged(d)
      BY <3>1 DEF PlanInv, OneEngaged, Engaged
    <3> QED
      BY <1>2, <3>2 DEF WorkerHasRow, Engaged, Writing
  <2> QED
    BY <2>1, <2>2
<1>7. DenialIsFinal'
  <2>1. plan \in {"cancelled", "expired", "none"} => plan' = plan
    BY DEF Retire, Unreadable, WriteOutcome, IfPending, PlanInv, WorkerHasRow, Writing
  <2> QED
    BY <1>1, <1>2, <2>1 DEF PlanInv, DenialIsFinal
<1>8. AffirmationIsTrue'
  <2>1. a = "executed" => WriteOutcome(c) /\ pace[c] \in {"some succeeded", "none to change"}
    <3>1. CASE WriteOutcome(c)
      <4>1. said'[c] = Outcome(pace[c])
        BY <3>1, SaidOf DEF WriteOutcome, Say, PlanInv
      <4> QED
        BY <1>2, <3>1, <4>1 DEF WriteOutcome, Outcome
    <3>2. CASE Retire(c)
      <4>1. said'[c] = "expired"
        BY <3>2, SaidOf DEF Retire, Say, PlanInv
      <4> QED
        BY <1>2, <4>1
    <3>3. CASE Unreadable(c)
      <4>1. said'[c] = "unreadable"
        BY <3>3, SaidOf DEF Unreadable, Say, PlanInv
      <4> QED
        BY <1>2, <4>1
    <3> QED
      BY <3>1, <3>2, <3>3
  <2> QED
    BY <1>1, <1>2, <2>1 DEF PlanInv, AffirmationIsTrue, WorkerHasRow
<1>9. PlanStatusIsTrue'
  <2>1. plan' \in {"pending", "cancelled"} => plan' = plan
    BY DEF Retire, Unreadable, WriteOutcome, Outcome, IfPending
  <2>2. plan' = "expired" => plan' = plan \/ plan = "pending"
    BY DEF Retire, Unreadable, WriteOutcome, Outcome, IfPending
  <2>3. plan' = "executed" => plan' = plan \/ pace[c] \in {"some succeeded", "none to change"}
    BY DEF Retire, Unreadable, WriteOutcome, Outcome, IfPending
  <2> QED
    BY <1>1, <2>1, <2>2, <2>3 DEF PlanInv, PlanStatusIsTrue, WorkerHasRow
<1>10. LapseIsFinal'
  <2>1. a = "expired" => Retire(c)
    <3>1. CASE WriteOutcome(c)
      <4>1. said'[c] = Outcome(pace[c])
        BY <3>1, SaidOf DEF WriteOutcome, Say, PlanInv
      <4> QED
        BY <1>2, <4>1 DEF Outcome
    <3>2. CASE Unreadable(c)
      <4>1. said'[c] = "unreadable"
        BY <3>2, SaidOf DEF Unreadable, Say, PlanInv
      <4> QED
        BY <1>2, <4>1
    <3> QED
      BY <3>1, <3>2
  <2>2. Retire(c) => /\ c \in overtaken \/ \A d \in PlanCalls : ~Engaged(d)
                     /\ plan' # "pending" \/ c \in slips'
    BY DEF Retire, IfPending, Slip, PlanInv, LapseIsFinal
  <2> QED
    BY <1>1, <1>2, <1>4, <2>1, <2>2, LapseStep DEF Paces
<1> QED
  BY <1>3, <1>5, <1>6, <1>7, <1>8, <1>9, <1>10 DEF PlanInv

LEMMA StepInv == PlanInv /\ [PlanNext]_planVars => PlanInv'
<1> SUFFICES ASSUME PlanInv, [PlanNext]_planVars PROVE PlanInv'
  OBVIOUS
<1> USE DEF PlanInv, PlanTypes, OneEngaged, Engaged, WorkerHasRow, PlanStatusIsTrue,
            DenialIsFinal, AffirmationIsTrue, LapseIsFinal, Statuses, Paces, Writing, To, Say,
            Slip, NoSlip, asideVars
<1>4. ASSUME NEW c \in PlanCalls, CallDies(c) PROVE PlanInv'
  BY <1>4 DEF CallDies, Waiting
<1>5. CASE Deadline
  BY <1>5 DEF Deadline
<1>6. CASE PrunePlan
  BY <1>6 DEF PrunePlan, Waiting
<1>7. CASE UNCHANGED planVars
  BY <1>7 DEF planVars
<1> QED
  BY <1>4, <1>5, <1>6, <1>7,
     LoadInv, ReadScopeInv, ClaimInv, RunInv, CancelInv, LastStepInv DEF PlanNext, PlanStep

LEMMA InvHolds == PlanInv => PlanHolds
<1> SUFFICES ASSUME PlanInv PROVE PlanHolds
  OBVIOUS
<1>1. PlanRunsOnce
  <2>1. CASE ran = {}
    BY <2>1, FS_EmptySet DEF PlanRunsOnce
  <2>2. CASE \E c \in PlanCalls : ran = {c}
    <3>1. PICK c \in PlanCalls : ran = {c}
      BY <2>2
    <3>2. Cardinality({c}) = 1
      BY FS_Singleton
    <3> QED
      BY <3>1, <3>2 DEF PlanRunsOnce
  <2> QED
    BY <2>1, <2>2 DEF PlanInv, PlanTypes, OneEngaged, Engaged
<1>2. AnswersHold
  BY DEF PlanInv, DenialIsFinal, AffirmationIsTrue, LapseIsFinal, Engaged, PlanTypes, AnswersHold
<1> QED
  BY <1>1, <1>2 DEF PlanInv, PlanHolds

-----------------------------------------------------------------------------

\* A bulk plan is handed to the provider at most once and its row says what became of it
\* (mcp-app-bulk.ts), for every number of clicks, declines, deaths and lost answers.  So
\* does every answer with two exceptions: "expired" (nothing was changed) is also said when
\* a click claimed the row between the look at it and the UPDATE, or when that UPDATE failed.
\* A plan that froze no message is executed and changes nothing.
THEOREM PlanIsHonest == PlanSpec => []PlanHolds
<1>1. PlanSpec => []PlanInv
  BY InitInv, StepInv, PTL DEF PlanSpec
<1> QED
  BY <1>1, InvHolds, PTL

-----------------------------------------------------------------------------
(* TriageDispatch.  Whoever works on a rule has its lease and looked again *)
(* after taking it, so of two that hold leases of one inbox one lets go; a *)
(* message is marked as seen before it is tried, and what is about to be   *)
(* tried is marked and was not tried (TriedOnce).                          *)

Working == AtWork \cup Endings
HasRule == {"look again", "abandon"} \cup Working
Positions == {"idle", "sweep", "stale", "look", "claim"} \cup HasRule

TriageTypes ==
  /\ at \in [Invocations -> Positions]
  /\ running \in [Invocations -> Rules \cup {NoRule}]
  /\ lease \in [Rules -> Invocations \cup {Free, "dead", "stale"}]
  /\ listed \in [Invocations -> SUBSET Rules]
  /\ DOMAIN seen = Rules /\ DOMAIN todo = Invocations

\* Whoever works on a rule has its lease.
LeaseIsHeld ==
  \A i \in Invocations :
    /\ at[i] \in HasRule \cup {"claim"} => Rule(i) \in Rules
    /\ at[i] \in HasRule => lease[Rule(i)] = i

OneWorking == \A i, j \in Invocations : at[i] \in Working /\ at[j] \in Working => i = j

\* What was tried is marked; what is about to be tried is marked and was not tried.
TriedOnce ==
  /\ twice = {}
  /\ \A p \in tried : \E r \in Rules : \E m \in seen[r] : p = <<r, m>>
  /\ \A i \in Invocations : at[i] = "act" =>
       Current(i) \in seen[Rule(i)] /\ <<Rule(i), Current(i)>> \notin tried

TriageInv == TriageTypes /\ LeaseIsHeld /\ OneWorking /\ TriedOnce /\ ClaimedIsTried

-----------------------------------------------------------------------------

TriageStep(i) == Fire(i) \/ InvocationStep(i) \/ InvocationDies(i)

\* A step of one invocation leaves the others where they are.
LEMMA OthersStay ==
  ASSUME TriageTypes, NEW i \in Invocations, TriageStep(i)
  PROVE  \A j \in Invocations \ {i} :
           at'[j] = at[j] /\ running'[j] = running[j] /\ todo'[j] = todo[j]
<1> USE DEF TriageTypes, Turn, GoOn, Leave, Done, MayFail
<1>1. CASE Fire(i) BY <1>1 DEF Fire
<1>2. CASE ListStale(i) BY <1>2 DEF ListStale
<1>3. CASE FreeStale(i) BY <1>3 DEF FreeStale
<1>4. CASE ListDue(i) BY <1>4 DEF ListDue
<1>5. CASE Finish(i) BY <1>5 DEF Finish
<1>6. CASE Look(i)
  <2>1. PICK r \in Rules : \/ Held(r) /\ GoOn(i, "look")
                           \/ ~Held(r) /\ Turn(i, "claim") /\ running' = [running EXCEPT ![i] = r]
    BY <1>6 DEF Look
  <2>2. QED BY <1>6, <2>1 DEF Look
<1>7. CASE ClaimRule(i) BY <1>7 DEF ClaimRule
<1>8. CASE LookAgain(i) BY <1>8 DEF LookAgain
<1>9. CASE Abandon(i) BY <1>9 DEF Abandon
<1>10. CASE StartRun(i) BY <1>10 DEF StartRun
<1>11. CASE Search(i) BY <1>11 DEF Search
<1>12. CASE NextMessage(i) BY <1>12 DEF NextMessage
<1>13. CASE ClaimMessage(i) BY <1>13 DEF ClaimMessage
<1>14. CASE Act(i) BY <1>14 DEF Act
<1>15. CASE Settle(i) BY <1>15 DEF Settle
<1>16. CASE ReleaseRule(i) BY <1>16 DEF ReleaseRule
<1>17. CASE InvocationDies(i) BY <1>17 DEF InvocationDies
<1>18. QED BY <1>1, <1>2, <1>3, <1>4, <1>5, <1>6, <1>7, <1>8, <1>9, <1>10, <1>11, <1>12, <1>13, <1>14, <1>15, <1>16, <1>17 DEF TriageStep, InvocationStep

\* Where it goes itself.
LEMMA OwnTurn ==
  ASSUME TriageTypes, NEW i \in Invocations, TriageStep(i)
  PROVE  /\ at' \in [Invocations -> Positions] /\ running' \in [Invocations -> Rules \cup {NoRule}]
         /\ listed' \in [Invocations -> SUBSET Rules]
         /\ DOMAIN todo' = Invocations /\ DOMAIN seen' = Rules
<1> USE DEF TriageTypes, Turn, GoOn, Leave, Done, Drop, MayFail, Positions, HasRule, Working, AtWork, Endings
<1>1. CASE Fire(i) BY <1>1 DEF Fire
<1>2. CASE ListStale(i) BY <1>2 DEF ListStale
<1>3. CASE FreeStale(i) BY <1>3 DEF FreeStale
<1>4. CASE ListDue(i) BY <1>4 DEF ListDue
<1>5. CASE Finish(i) BY <1>5 DEF Finish
<1>6. CASE Look(i)
  <2>1. PICK r \in Rules : /\ Drop(i, r)
                           /\ \E p \in {"look", "claim"} : Turn(i, p)
                           /\ \E q \in Rules \cup {NoRule} : running' = [running EXCEPT ![i] = q]
    BY <1>6 DEF Look
  <2>2. listed' \in [Invocations -> SUBSET Rules] BY <2>1
  <2>3. at' \in [Invocations -> Positions] BY <2>1
  <2>4. running' \in [Invocations -> Rules \cup {NoRule}] BY <2>1
  <2>5. QED BY <1>6, <2>2, <2>3, <2>4 DEF Look
<1>7. CASE ClaimRule(i) BY <1>7 DEF ClaimRule
<1>8. CASE LookAgain(i) BY <1>8 DEF LookAgain
<1>9. CASE Abandon(i) BY <1>9 DEF Abandon
<1>10. CASE StartRun(i) BY <1>10 DEF StartRun
<1>11. CASE Search(i) BY <1>11 DEF Search
<1>12. CASE NextMessage(i) BY <1>12 DEF NextMessage
<1>13. CASE ClaimMessage(i) BY <1>13 DEF ClaimMessage
<1>14. CASE Act(i) BY <1>14 DEF Act
<1>15. CASE Settle(i) BY <1>15 DEF Settle
<1>16. CASE ReleaseRule(i) BY <1>16 DEF ReleaseRule
<1>17. CASE InvocationDies(i) BY <1>17 DEF InvocationDies
<1>18. QED BY <1>1, <1>2, <1>3, <1>4, <1>5, <1>6, <1>7, <1>8, <1>9, <1>10, <1>11, <1>12, <1>13, <1>14, <1>15, <1>16, <1>17 DEF TriageStep, InvocationStep

LEMMA LeaseMoves ==
  ASSUME TriageTypes, NEW r \in Rules, NEW h \in Invocations \cup {Free, "dead", "stale"}, Hold(r, h)
  PROVE  /\ lease' \in [Rules -> Invocations \cup {Free, "dead", "stale"}]
         /\ lease'[r] = h /\ \A q \in Rules \ {r} : lease'[q] = lease[q]
BY DEF TriageTypes, Hold

LEMMA LeaseStep ==
  TriageTypes /\ LeaseIsHeld /\ [TriageNext]_triageVars => TriageTypes' /\ LeaseIsHeld'
<1> SUFFICES ASSUME TriageTypes, LeaseIsHeld, [TriageNext]_triageVars PROVE TriageTypes' /\ LeaseIsHeld'
  OBVIOUS
<1>1. CASE Arrive \/ UNCHANGED triageVars
  BY <1>1 DEF Arrive, triageVars, ruleRows, mailbox, positions, history, TriageTypes, LeaseIsHeld, Rule
<1>2. ASSUME NEW r \in Rules, FallDue(r) \/ LeaseAges(r) PROVE TriageTypes' /\ LeaseIsHeld'
  BY <1>2, TriageAssumption
     DEF FallDue, LeaseAges, Hold, mailbox, positions, history, TriageTypes, LeaseIsHeld, Rule
<1>3. ASSUME NEW i \in Invocations, TriageStep(i) PROVE TriageTypes' /\ LeaseIsHeld'
  <2> USE <1>3, OthersStay, OwnTurn DEF Rule
  <2>1. \A j \in Invocations \ {i} : (at'[j] \in HasRule \cup {"claim"} => Rule(j)' \in Rules)
    BY DEF LeaseIsHeld
  <2> DEFINE Types == lease' \in [Rules -> Invocations \cup {Free, "dead", "stale"}]
             Others == \A r \in Rules : lease[r] \in Invocations \ {i} => lease'[r] = lease[r]
             Own == /\ at'[i] \in HasRule \cup {"claim"} => Rule(i)' \in Rules
                    /\ at'[i] \in HasRule => lease'[Rule(i)'] = i
  <2>2. SUFFICES Types /\ Others /\ Own
    BY <2>1 DEF TriageTypes, LeaseIsHeld
  <2>21. Invocations \cap {Free, "dead", "stale"} = {} BY TriageAssumption DEF Free
  <2>22. lease \in [Rules -> Invocations \cup {Free, "dead", "stale"}] BY DEF TriageTypes
  <2> USE <2>21, <2>22 DEF Turn, GoOn, Leave, MayFail, ruleRows
  <2>3. CASE Fire(i) BY <2>3 DEF Fire, LeaseIsHeld, TriageTypes, HasRule, Working, AtWork, Endings
  <2>4. CASE ListStale(i) BY <2>4 DEF ListStale, LeaseIsHeld, TriageTypes, HasRule, Working, AtWork, Endings
  <2>5. CASE FreeStale(i)
    <3>1. PICK r \in Rules : UNCHANGED lease \/ Hold(r, IF lease[r] = "stale" THEN Free ELSE lease[r])
      BY <2>5 DEF FreeStale, TriageTypes
    <3>2. at'[i] = "stale" BY <2>5 DEF FreeStale, TriageTypes
    <3>3. Types /\ Others BY <3>1, LeaseMoves
    <3>4. QED BY <3>2, <3>3 DEF HasRule, Working, AtWork, Endings
  <2>6. CASE ListDue(i) BY <2>6 DEF ListDue, LeaseIsHeld, TriageTypes, HasRule, Working, AtWork, Endings
  <2>7. CASE Finish(i) BY <2>7 DEF Finish, LeaseIsHeld, TriageTypes, HasRule, Working, AtWork, Endings
  <2>8. CASE Look(i)
    <3>1. PICK r \in Rules : \/ Held(r) /\ GoOn(i, "look")
                             \/ ~Held(r) /\ Turn(i, "claim") /\ running' = [running EXCEPT ![i] = r]
      BY <2>8 DEF Look, TriageTypes
    <3>2. at'[i] = "look" \/ (at'[i] = "claim" /\ running'[i] \in Rules) BY <3>1 DEF TriageTypes
    <3>3. UNCHANGED lease BY <2>8 DEF Look
    <3>4. QED BY <3>2, <3>3 DEF HasRule, Working, AtWork, Endings
  <2>9. CASE ClaimRule(i)
    <3>1. Rule(i) \in Rules BY <2>9 DEF ClaimRule, LeaseIsHeld
    <3>2. \/ lease[Rule(i)] = Free /\ Hold(Rule(i), i) /\ Turn(i, "look again") /\ UNCHANGED running
          \/ GoOn(i, "look") /\ UNCHANGED lease
          \/ GoOn(i, "look") /\ lease[Rule(i)] = Free /\ Hold(Rule(i), "dead")
      BY <2>9 DEF ClaimRule
    <3>3. CASE lease[Rule(i)] = Free /\ Hold(Rule(i), i) /\ Turn(i, "look again") /\ UNCHANGED running
      BY <3>1, <3>3, LeaseMoves
    <3>4. CASE GoOn(i, "look")
      <4>1. at'[i] = "look" BY <3>4 DEF TriageTypes
      <4>2. ASSUME lease[Rule(i)] = Free, NEW h \in {i, "dead"}, Hold(Rule(i), h) PROVE Types /\ Others
        BY <3>1, <4>2, LeaseMoves
      <4>3. Types /\ Others BY <3>2, <4>2
      <4>4. QED BY <4>1, <4>3 DEF HasRule, Working, AtWork, Endings
    <3>5. QED BY <3>2, <3>3, <3>4
  <2>10. CASE LookAgain(i) BY <2>10 DEF LookAgain, LeaseIsHeld, TriageTypes, HasRule, Working, AtWork, Endings
  <2>11. CASE Abandon(i)
    <3>1. Rule(i) \in Rules /\ lease[Rule(i)] = i BY <2>11 DEF Abandon, LeaseIsHeld, HasRule
    <3>2. at'[i] = "look" BY <2>11 DEF Abandon, TriageTypes
    <3>3. Hold(Rule(i), Free) \/ Hold(Rule(i), "dead") BY <2>11 DEF Abandon
    <3>4. Types /\ Others BY <3>1, <3>3, LeaseMoves
    <3>5. QED BY <3>2, <3>4 DEF HasRule, Working, AtWork, Endings
  <2>12. CASE StartRun(i) BY <2>12 DEF StartRun, LeaseIsHeld, TriageTypes, HasRule, Working, AtWork, Endings
  <2>13. CASE Search(i) BY <2>13 DEF Search, LeaseIsHeld, TriageTypes, HasRule, Working, AtWork, Endings
  <2>14. CASE NextMessage(i) BY <2>14 DEF NextMessage, LeaseIsHeld, TriageTypes, HasRule, Working, AtWork, Endings
  <2>15. CASE ClaimMessage(i) BY <2>15 DEF ClaimMessage, LeaseIsHeld, TriageTypes, HasRule, Working, AtWork, Endings
  <2>16. CASE Act(i) BY <2>16 DEF Act, LeaseIsHeld, TriageTypes, HasRule, Working, AtWork, Endings
  <2>17. CASE Settle(i) BY <2>17 DEF Settle, LeaseIsHeld, TriageTypes, HasRule, Working, AtWork, Endings
  <2>18. CASE ReleaseRule(i)
    <3>1. Rule(i) \in Rules /\ lease[Rule(i)] = i BY <2>18 DEF ReleaseRule, LeaseIsHeld, HasRule, Working
    <3>2. at'[i] = "look" BY <2>18 DEF ReleaseRule, TriageTypes
    <3>3. Hold(Rule(i), Free) \/ Hold(Rule(i), "dead") BY <2>18 DEF ReleaseRule
    <3>4. Types /\ Others BY <3>1, <3>3, LeaseMoves
    <3>5. QED BY <3>2, <3>4 DEF HasRule, Working, AtWork, Endings
  <2>19. CASE InvocationDies(i) BY <2>19 DEF InvocationDies, LeaseIsHeld, TriageTypes, HasRule, Working, AtWork, Endings
  <2>20. QED BY <2>3, <2>4, <2>5, <2>6, <2>7, <2>8, <2>9, <2>10, <2>11, <2>12, <2>13, <2>14, <2>15, <2>16, <2>17, <2>18, <2>19 DEF TriageStep, InvocationStep
<1>5. ASSUME NEW r \in Rules, PurgeMark(r) PROVE TriageTypes' /\ LeaseIsHeld'
  <2>1. UNCHANGED <<lease, at, listed, running, todo>> /\ DOMAIN seen' = Rules
    BY <1>5 DEF PurgeMark, ruleRows, positions, TriageTypes
  <2> QED BY <2>1 DEF TriageTypes, LeaseIsHeld, Rule
<1>4. QED BY <1>1, <1>2, <1>3, <1>5 DEF TriageNext, TriageStep

LEMMA WorkStep ==
  TriageTypes /\ LeaseIsHeld /\ OneWorking /\ [TriageNext]_triageVars => OneWorking'
<1> SUFFICES ASSUME TriageTypes, LeaseIsHeld, OneWorking, [TriageNext]_triageVars PROVE OneWorking'
  OBVIOUS
<1>1. CASE UNCHANGED at BY <1>1 DEF OneWorking
<1>2. ASSUME NEW i \in Invocations, TriageStep(i) PROVE OneWorking'
  <2>1. at'[i] \in Working /\ at[i] \notin Working
          => at[i] = "look again" /\ ~Held(Rule(i)) /\ UNCHANGED <<lease, running>>
    <3> USE DEF TriageTypes, Turn, GoOn, Leave, MayFail, ruleRows, Working, AtWork, Endings
    <3>1. CASE LookAgain(i) BY <3>1 DEF LookAgain
    <3>2. CASE Look(i) BY <3>2 DEF Look
    <3>3. CASE ClaimRule(i) BY <3>3 DEF ClaimRule
    <3>4. CASE ~LookAgain(i) /\ ~Look(i) /\ ~ClaimRule(i)
      BY <1>2, <3>4 DEF TriageStep, InvocationStep, Fire, ListStale, FreeStale, ListDue, Finish, Abandon,
         StartRun, Search, NextMessage, ClaimMessage, Act, Settle, ReleaseRule, InvocationDies
    <3>5. QED BY <3>1, <3>2, <3>3, <3>4
  <2>2. CASE at'[i] \in Working /\ at[i] \notin Working
    <3>1. ASSUME NEW j \in Invocations \ {i}, at[j] \in Working PROVE FALSE
      <4>1. lease[Rule(i)] = i /\ lease[Rule(j)] = j /\ Rule(i) \in Rules /\ Rule(j) \in Rules
        BY <2>1, <2>2, <3>1 DEF LeaseIsHeld, HasRule
      <4>2. QED BY <2>1, <2>2, <4>1, TriageAssumption DEF Held, Free
    <3>2. QED BY <1>2, <3>1, OthersStay DEF OneWorking
  <2>3. QED BY <1>2, <2>2, OthersStay DEF OneWorking
<1>3. CASE Arrive BY <1>1, <1>3 DEF Arrive, positions
<1>4. ASSUME NEW r \in Rules, FallDue(r) \/ LeaseAges(r) PROVE OneWorking'
  BY <1>1, <1>4 DEF FallDue, LeaseAges, positions
<1>6. ASSUME NEW r \in Rules, PurgeMark(r) PROVE OneWorking'
  BY <1>1, <1>6 DEF PurgeMark, positions
<1>5. QED BY <1>1, <1>2, <1>3, <1>4, <1>6 DEF TriageNext, TriageStep, triageVars, positions

LEMMA TriedIsSeen == TriedOnce => \A r, m : <<r, m>> \in tried => m \in seen[r]
<1> SUFFICES ASSUME TriedOnce, NEW r, NEW m, <<r, m>> \in tried PROVE m \in seen[r] OBVIOUS
<1>1. PICK q \in Rules : \E n \in seen[q] : <<r, m>> = <<q, n>> BY DEF TriedOnce
<1>2. PICK n \in seen[q] : <<r, m>> = <<q, n>> BY <1>1
<1>3. r = q /\ m = n BY <1>2
<1>4. QED BY <1>3

LEMMA TriedStep ==
  TriageTypes /\ LeaseIsHeld /\ OneWorking /\ TriedOnce /\ ClaimedIsTried /\ [TriageNext]_triageVars
      => TriedOnce' /\ ClaimedIsTried'
<1> SUFFICES ASSUME TriageTypes, LeaseIsHeld, OneWorking, TriedOnce, ClaimedIsTried, [TriageNext]_triageVars
             PROVE  TriedOnce' /\ ClaimedIsTried'
  OBVIOUS
<1>1. CASE UNCHANGED <<seen, tried, twice, at, running, todo>>
  <2>1. \A i : Rule(i)' = Rule(i) /\ Current(i)' = Current(i) BY <1>1 DEF Rule, Current
  <2>2. QED BY <1>1, <2>1 DEF TriedOnce, ClaimedIsTried
<1>2. ASSUME NEW i \in Invocations, TriageStep(i) PROVE TriedOnce' /\ ClaimedIsTried'
  <2> USE <1>2
  <2>1. \A j \in Invocations \ {i} :
          at'[j] = at[j] /\ Rule(j)' = Rule(j) /\ Current(j)' = Current(j)
    BY OthersStay DEF Rule, Current
  <2> DEFINE r == Rule(i)
             m == Current(i)
  <2>7. ASSUME at[i] \in Working
        PROVE  /\ r \in Rules /\ at[i] # "idle"
               /\ \A j \in Invocations \ {i} : at[j] # "act"
    BY <2>7 DEF LeaseIsHeld, HasRule, Working, AtWork, Endings, OneWorking
  <2>2. CASE ClaimMessage(i)
    <3>1. at[i] = "claim message" /\ UNCHANGED <<running, twice>> BY <2>2 DEF ClaimMessage
    <3>2. r \in Rules /\ \A j \in Invocations : at[j] # "act"
      BY <2>7, <3>1 DEF Working, AtWork
    <3>7. m \notin seen[r] => <<r, m>> \notin tried BY TriedIsSeen
    <3>8. \A q \in Rules : \A n \in seen[q] : <<q, n>> \in tried BY <3>2 DEF ClaimedIsTried
    <3>3. CASE /\ m \notin seen[r] /\ seen' = [seen EXCEPT ![r] = @ \cup {m}] /\ Turn(i, "act")
               /\ UNCHANGED <<todo, tried>>
      <4>1. at'[i] = "act" /\ Rule(i)' = r /\ Current(i)' = m
        BY <3>1, <3>3 DEF Turn, TriageTypes, Rule, Current
      <4>2. \A q \in Rules : seen'[q] = IF q = r THEN seen[q] \cup {m} ELSE seen[q]
        BY <3>3 DEF TriageTypes
      <4>6. \A p \in tried' : \E q \in Rules : \E n \in seen'[q] : p = <<q, n>>
        BY <3>3, <4>2 DEF TriedOnce
      <4>7. \A j \in Invocations : at'[j] = "act" => j = i BY <2>1, <3>2
      <4>8. m \in seen'[r] /\ <<r, m>> \notin tried' BY <3>2, <3>3, <3>7, <4>2
      <4>3. TriedOnce' BY <3>1, <4>1, <4>6, <4>7, <4>8 DEF TriedOnce
      <4>9. ASSUME NEW q \in Rules, NEW n \in seen'[q], <<q, n>> \notin tried' PROVE q = r /\ n = m
        BY <3>3, <3>8, <4>2, <4>9
      <4>4. ClaimedIsTried' BY <4>1, <4>9 DEF ClaimedIsTried
      <4>5. QED BY <4>3, <4>4
    <3>4. CASE UNCHANGED <<seen, tried>> /\ Turn(i, "message")
      <4>1. at'[i] = "message" BY <3>4 DEF Turn, TriageTypes
      <4>2. QED BY <2>1, <3>1, <3>2, <3>4, <4>1 DEF TriedOnce, ClaimedIsTried
    <3>5. CASE /\ m \notin seen[r] /\ seen' = [seen EXCEPT ![r] = @ \cup {m}] /\ Turn(i, "message")
               /\ tried' = tried \cup {<<r, m>>}
      <4>1. at'[i] = "message" BY <3>5 DEF Turn, TriageTypes
      <4>2. \A q \in Rules : seen'[q] = IF q = r THEN seen[q] \cup {m} ELSE seen[q]
        BY <3>5 DEF TriageTypes
      <4>6. \A p \in tried : \E q \in Rules : \E n \in seen'[q] : p = <<q, n>> BY <4>2 DEF TriedOnce
      <4>7. \A j \in Invocations : at'[j] # "act" BY <2>1, <3>2, <4>1
      <4>8. m \in seen'[r] BY <3>2, <4>2
      <4>10. \A p \in tried' : \E q \in Rules : \E n \in seen'[q] : p = <<q, n>>
        BY <3>2, <3>5, <4>6, <4>8
      <4>11. twice' = {} BY <3>1 DEF TriedOnce
      <4>3. TriedOnce' BY <4>7, <4>10, <4>11 DEF TriedOnce
      <4>9. ASSUME NEW q \in Rules, NEW n \in seen'[q] PROVE <<q, n>> \in tried'
        <5>1. n \in seen[q] \/ (q = r /\ n = m) BY <4>2
        <5>2. QED BY <3>5, <3>8, <5>1
      <4>4. ClaimedIsTried' BY <4>9 DEF ClaimedIsTried
      <4>5. QED BY <4>3, <4>4
    <3>6. QED BY <2>2, <3>3, <3>4, <3>5 DEF ClaimMessage, Try
  <2>3. CASE Act(i)
    <3>1. at[i] = "act" /\ UNCHANGED <<seen, running>> /\ tried' = tried \cup {<<r, m>>}
      BY <2>3 DEF Act, Try
    <3>2. r \in Rules /\ \A j \in Invocations \ {i} : at[j] # "act" BY <2>7, <3>1 DEF Working, AtWork
    <3>3. m \in seen[r] /\ <<r, m>> \notin tried BY <3>1 DEF TriedOnce
    <3>4. at'[i] = "message" /\ twice' = twice BY <2>3, <3>3 DEF Act, Turn, TriageTypes
    <3>5. TriedOnce' BY <2>1, <3>1, <3>2, <3>3, <3>4 DEF TriedOnce
    <3>6. ClaimedIsTried' BY <3>1, <3>2 DEF ClaimedIsTried
    <3>7. QED BY <3>5, <3>6
  <2>4. CASE InvocationDies(i)
    <3>1. UNCHANGED <<seen, twice>> /\ at'[i] = "idle"
      BY <2>4 DEF InvocationDies, Leave, GoOn, Turn, TriageTypes
    <3>2. CASE at[i] = "act"
      <4>1. tried' = tried \cup {<<r, m>>} BY <2>4, <3>2 DEF InvocationDies
      <4>2. r \in Rules /\ \A j \in Invocations \ {i} : at[j] # "act" BY <2>7, <3>2 DEF Working, AtWork
      <4>3. m \in seen[r] BY <3>2 DEF TriedOnce
      <4>4. TriedOnce' BY <2>1, <3>1, <4>1, <4>2, <4>3 DEF TriedOnce
      <4>5. ClaimedIsTried' BY <3>1, <4>1, <4>2 DEF ClaimedIsTried
      <4>6. QED BY <4>4, <4>5
    <3>3. CASE at[i] # "act"
      <4>1. UNCHANGED tried BY <2>4, <3>3 DEF InvocationDies
      <4>2. QED BY <2>1, <3>1, <3>3, <4>1 DEF TriedOnce, ClaimedIsTried
    <3>4. QED BY <3>2, <3>3
  <2>5. CASE ~ClaimMessage(i) /\ ~Act(i) /\ ~InvocationDies(i)
    <3>1. UNCHANGED <<seen, tried, twice>> /\ at[i] # "act" /\ at'[i] # "act"
      BY <2>5 DEF TriageStep, InvocationStep, Fire, ListStale, FreeStale, ListDue, Finish, Look, ClaimRule,
         LookAgain, Abandon, StartRun, Search, NextMessage, Settle, ReleaseRule, history, TriageTypes, Turn,
         GoOn, Leave, MayFail, Endings
    <3>2. QED BY <2>1, <3>1 DEF TriedOnce, ClaimedIsTried
  <2>6. QED BY <2>2, <2>3, <2>4, <2>5
<1>3. CASE Arrive BY <1>1, <1>3 DEF Arrive, positions, history
<1>4. ASSUME NEW r \in Rules, FallDue(r) \/ LeaseAges(r) PROVE TriedOnce' /\ ClaimedIsTried'
  BY <1>1, <1>4 DEF FallDue, LeaseAges, positions, history
<1>6. ASSUME NEW r \in Rules, PurgeMark(r) PROVE TriedOnce' /\ ClaimedIsTried'
  <2>1. PICK m \in seen[r] :
          /\ ~\E i \in Invocations : at[i] = "act" /\ Rule(i) = r /\ Current(i) = m
          /\ seen' = [seen EXCEPT ![r] = @ \ {m}] /\ tried' = tried \ {<<r, m>>}
          /\ UNCHANGED <<twice, at, running, todo>>
    BY <1>6 DEF PurgeMark, positions
  <2>2. \A i : Rule(i)' = Rule(i) /\ Current(i)' = Current(i) BY <2>1 DEF Rule, Current
  <2>3. \A q \in Rules : seen'[q] = IF q = r THEN seen[q] \ {m} ELSE seen[q]
    BY <2>1 DEF TriageTypes
  <2>4. \A p \in tried' : \E q \in Rules : \E n \in seen'[q] : p = <<q, n>>
    <3> SUFFICES ASSUME NEW p \in tried' PROVE \E q \in Rules : \E n \in seen'[q] : p = <<q, n>> OBVIOUS
    <3>1. PICK q \in Rules : \E n \in seen[q] : p = <<q, n>> BY <2>1 DEF TriedOnce
    <3>2. PICK n \in seen[q] : p = <<q, n>> BY <3>1
    <3>3. q # r \/ n # m BY <2>1, <3>2
    <3> QED BY <2>3, <3>2, <3>3
  <2>5. ASSUME NEW i \in Invocations, at'[i] = "act"
        PROVE  Current(i)' \in seen'[Rule(i)'] /\ <<Rule(i)', Current(i)'>> \notin tried'
    <3>1. Current(i) \in seen[Rule(i)] /\ <<Rule(i), Current(i)>> \notin tried /\ Rule(i) \in Rules
      BY <2>1, <2>5 DEF TriedOnce, LeaseIsHeld, HasRule, Working, AtWork
    <3> QED BY <2>1, <2>2, <2>3, <2>5, <3>1
  <2>6. TriedOnce' BY <2>1, <2>4, <2>5 DEF TriedOnce
  <2>7. ASSUME NEW q \in Rules, NEW n \in seen'[q]
        PROVE  \/ <<q, n>> \in tried'
               \/ \E i \in Invocations : at'[i] = "act" /\ Rule(i)' = q /\ Current(i)' = n
    <3>1. n \in seen[q] /\ (q # r \/ n # m) BY <2>3
    <3>2. <<q, n>> \in tried \/ \E i \in Invocations : at[i] = "act" /\ Rule(i) = q /\ Current(i) = n
      BY <3>1 DEF ClaimedIsTried
    <3> QED BY <2>1, <2>2, <3>1, <3>2
  <2>8. ClaimedIsTried' BY <2>7 DEF ClaimedIsTried
  <2> QED BY <2>6, <2>8
<1>5. QED BY <1>1, <1>2, <1>3, <1>4, <1>6 DEF TriageNext, TriageStep, triageVars, positions, history

LEMMA TriageInvHolds == TriageSpec => []TriageInv
<1>1. TriageInit => TriageInv
  BY DEF TriageInit, TriageInv, TriageTypes, LeaseIsHeld, OneWorking, TriedOnce, ClaimedIsTried,
     Positions, HasRule, Working, AtWork, Endings
<1>2. TriageInv /\ [TriageNext]_triageVars => TriageInv'
  BY LeaseStep, WorkStep, TriedStep DEF TriageInv
<1>3. QED BY <1>1, <1>2, PTL DEF TriageSpec

\* triage-engine.ts: for any number of invocations, rules and messages, with deaths, sweeps and
\* leases that age, an inbox has one run at a time, no message is handed to the provider
\* twice for one rule as long as its mark is kept (ninety days), and none is marked as seen
\* that was neither tried nor is about to be.
THEOREM AutomationsHold == TriageSpec => []TriageHolds
<1>1. TriageInv => TriageHolds
  BY DEF TriageInv, TriageHolds, OneRunPerInbox, OneWorking, Working, OncePerMark, TriedOnce
<1>2. QED BY TriageInvHolds, <1>1, PTL

-----------------------------------------------------------------------------
(* MailWatch.  Two halves meet in what has been announced.  The check:     *)
(* cursors never run ahead of what is settled, and what a holder announced *)
(* begins at the stored cursor.  The send step: who has a delivery in hand *)
(* has its lease or has outlived it.                                       *)

DeliveryStatuses == {"none", "pending", "delivered", "failed", "abandoned"}
Checking == {"check", "compare", "ask", "enqueue", "store"}
Stages == Checking \union {"idle", "send", "post", "last"}
Errands == {"none", "held", "drop", "ok", "bad"}

CheckTypes ==
    /\ landed \in 0 .. MaxNewMail /\ enabled \in BOOLEAN
    /\ watch \in [there : BOOLEAN, cursor : Int, holder : Passes \union {Nobody}]
    /\ duty \in [Passes -> Stages]
    /\ saw \in [Passes -> Int] /\ found \in [Passes -> Int] /\ named \in [Passes -> Int]
    /\ outlived \subseteq Passes /\ proper \subseteq Arrivals /\ upTo \in [Arrivals -> Int]
    /\ watchFaults \in Nat

SendTypes ==
    /\ posting \in [Arrivals -> [status : DeliveryStatuses, attempt : Nat, holder : Passes \union {Nobody}]]
    /\ errand \in [Passes -> [Arrivals -> Errands]]

\* A message that no longer needs to be announced.
Settled(m) == m \in excused \/ Announced(m)

\* Cursors never run ahead of the mailbox, and what lies below one is settled; what an
\* event will not count is excused before it is enqueued.
Reached(p) ==
    /\ saw[p] \in NoCursor .. landed /\ found[p] \in NoCursor .. landed /\ named[p] \in NoCursor .. landed
    /\ duty[p] \in {"compare", "ask", "enqueue"} => 0 <= saw[p] /\ saw[p] < found[p]
    /\ duty[p] = "store" => saw[p] <= found[p]
    /\ duty[p] \in {"check", "compare", "ask", "enqueue"} => \A m \in 1 .. saw[p] : Settled(m)
    /\ duty[p] = "store" => \A m \in 1 .. found[p] : Settled(m)
    /\ duty[p] \in {"ask", "enqueue"} =>
           \A m \in Int : saw[p] < m /\ m <= found[p] => m \in excused \/ m <= named[p]

Below ==
    /\ watch.cursor \in NoCursor .. landed
    /\ \A m \in 1 .. watch.cursor : Settled(m)
    /\ \A p \in Passes : Reached(p)

\* What an event spans it counts, or else it is excused; and it counts what has come.
Spoken(e) == \A m \in Int : e[1] < m /\ m <= e[2] => m \in excused \/ m <= upTo[e]
Counted ==
    /\ \A e \in Arrivals : upTo[e] <= landed /\ (posting[e].status # "none" => Spoken(e))
    /\ \A e \in proper : posting[e].status # "none"

\* The holder of the mailbox works on the stored cursor.
HolderIsCurrent ==
    \A p \in Passes : watch.holder = p /\ duty[p] \in Checking => saw[p] = watch.cursor

\* An event lies behind a cursor, with all it counts.
Behind(e, cursor) == upTo[e] <= cursor /\ e[2] <= cursor

Meet(e, f) == News(e) \intersect News(f) # {}
Adjacent(e, f) == e[2] = f[1] \/ f[2] = e[1]

\* What was announced is behind the cursor, or begins or ends at it.
Ordered ==
    /\ \A e \in proper :
        /\ e[2] <= landed
        /\ watch.cursor = NoCursor \/ Behind(e, watch.cursor) \/ e[1] = watch.cursor \/ e[2] = watch.cursor
        /\ \A p \in Passes : watch.holder = p /\ duty[p] \in {"compare", "ask", "enqueue", "store"}
               => Behind(e, found[p]) \/ found[p] = saw[p] \/ (e[1] = saw[p] /\ e[2] = found[p])
    /\ \A e, f \in proper : e # f /\ Meet(e, f) => e[1] = f[1] \/ Adjacent(e, f)

\* Without an incident, nothing is announced beyond the cursor but by the event that ends
\* at it, or by the one that its holder is about to store.
Calm ==
    watchFaults = 0 =>
        /\ outlived = {}
        /\ \A p \in Passes : watch.holder = p => duty[p] \in Checking
        /\ \A e \in proper :
               \/ watch.cursor = NoCursor \/ Behind(e, watch.cursor) \/ e[2] = watch.cursor
               \/ \E p \in Passes : watch.holder = p /\ duty[p] = "store" /\ found[p] = e[2]
        /\ \A e, f \in proper : e # f /\ Meet(e, f) => Adjacent(e, f)

CheckInv == CheckTypes /\ Below /\ Counted /\ HolderIsCurrent /\ Ordered /\ Calm

\* A delivery that was never enqueued was never tried.
Untried == \A e \in Arrivals : posting[e].status = "none" => posting[e].attempt = 0
SendInv == SendTypes /\ Untried /\ OnePoster /\ AttemptsEnd

WatchInv == CheckInv /\ SendInv

-----------------------------------------------------------------------------
(* Steps by what they may change. *)

\* A step that enqueues nothing and takes back no excuse.
Keeps ==
    /\ excused \subseteq excused' /\ upTo' = upTo
    /\ \A e \in Arrivals : posting'[e].status = "none" <=> posting[e].status = "none"

\* A pass outside a check, before and after its step.
Sends(p) ==
    /\ UNCHANGED <<landed, watch, checks, story>>
    /\ enabled' \in BOOLEAN
    /\ duty' \in [Passes -> Stages]
    /\ duty[p] \notin Checking /\ duty'[p] \notin Checking
    /\ \A q \in Passes \ {p} : duty'[q] = duty[q]
    /\ outlived' \subseteq outlived
    /\ watchFaults' \in Nat /\ watchFaults' >= watchFaults

LEMMA ArrivalPairs ==
    /\ \A a, b \in Int : 0 <= a /\ a < b /\ b <= MaxNewMail => <<a, b>> \in Arrivals
    /\ \A e \in Arrivals : e[1] \in Int /\ e[2] \in Int /\ e[1] < e[2] /\ 0 <= e[1]
                           /\ e[2] <= MaxNewMail /\ e = <<e[1], e[2]>>
BY WatchAssumption DEF Arrivals

\* What has been settled stays so.
LEMMA Settling ==
    ASSUME excused \subseteq excused',
           \A e \in Arrivals : posting[e].status # "none" => posting'[e].status # "none" /\ upTo'[e] = upTo[e]
    PROVE  \A m \in Int : Settled(m) => Settled(m)'
BY DEF Settled, Announced, News

LEMMA KeepsSettled == ASSUME Keeps PROVE \A m \in Int : Settled(m) => Settled(m)'
BY Settling DEF Keeps

LEMMA KeepsCounted ==
    ASSUME CheckInv, Keeps, proper' = proper, landed' \in Int, landed' >= landed
    PROVE  Counted'
<1>1. \A e \in Arrivals : Spoken(e) => Spoken(e)'
    BY DEF Keeps, Spoken
<1>2. \A e \in Arrivals : upTo'[e] <= landed'
    BY DEF Keeps, CheckInv, CheckTypes, Counted
<1>3. \A e \in proper : posting'[e].status # "none"
    BY DEF Keeps, CheckInv, CheckTypes, Counted
<1>4. \A e \in Arrivals : posting'[e].status # "none" => Spoken(e)'
    BY <1>1 DEF Keeps, CheckInv, Counted
<1> QED
    BY <1>2, <1>3, <1>4 DEF Counted

LEMMA SendsKeepCheck ==
    ASSUME CheckInv, Keeps, NEW p \in Passes, Sends(p)
    PROVE  CheckInv'
<1> USE DEF CheckInv, Sends, checks, story
<1>1. CheckTypes'
    BY DEF CheckTypes
<1>2. Below'
    <2>1. \A m \in Int : Settled(m) => Settled(m)'
        BY KeepsSettled
    <2>2. \A q \in Passes : duty'[q] \in Checking => duty'[q] = duty[q]
        OBVIOUS
    <2>3. watch.cursor \in Int /\ \A q \in Passes : saw[q] \in Int /\ found[q] \in Int
        BY DEF CheckTypes
    <2> QED
        BY <2>1, <2>2, <2>3 DEF Below, Reached, Checking
<1>3. HolderIsCurrent'
    BY DEF HolderIsCurrent
<1>4. Ordered'
    BY DEF Ordered, Behind, Adjacent, Meet, News, Checking
<1>5. Calm'
    BY DEF Calm, Behind, Adjacent, Meet, News, Checking, CheckTypes
<1>6. Counted'
    BY KeepsCounted DEF CheckTypes
<1> QED
    BY <1>1, <1>2, <1>3, <1>4, <1>5, <1>6

-----------------------------------------------------------------------------
(* The check. *)

LEMMA LeasingKeeps ==
    ASSUME CheckInv, Keeps, NEW p \in Passes, LeaseWatch(p)
    PROVE  CheckInv'
<1> USE WatchAssumption DEF CheckInv, folder, story, checks
<1>1. /\ Synced \in [there : BOOLEAN, cursor : Int, holder : Passes \union {Nobody}]
      /\ Synced = watch \/ (Synced.cursor = NoCursor /\ Synced.holder = Nobody)
    BY DEF Synced, NoRow, FreshRow, NoCursor, CheckTypes
<1>2. /\ UNCHANGED <<landed, enabled, found, named, outlived, excused, proper, upTo, watchFaults>>
      /\ duty[p] = "idle" /\ duty'[p] \in {"check", "send"}
      /\ duty' \in [Passes -> Stages]
      /\ \A q \in Passes \ {p} : duty'[q] = duty[q] /\ saw'[q] = saw[q]
      /\ saw' \in [Passes -> Int]
      /\ watch' \in [there : BOOLEAN, cursor : Int, holder : Passes \union {Nobody}]
      /\ watch'.cursor = Synced.cursor
      /\ duty'[p] = "check" =>
             watch'.holder = p /\ saw'[p] = Synced.cursor /\ Vacant(Synced.holder)
      /\ duty'[p] = "send" => watch' = Synced /\ saw' = saw
    BY <1>1 DEF LeaseWatch, Moves, CheckTypes, Stages, Checking
<1>3. CheckTypes' /\ Counted'
    BY <1>2, KeepsCounted DEF CheckTypes
<1>4. Below'
    <2>1. \A m \in Int : Settled(m) => Settled(m)'
        BY KeepsSettled
    <2>2. /\ watch'.cursor \in NoCursor .. landed'
          /\ \A m \in 1 .. watch'.cursor : Settled(m)'
        BY <1>1, <1>2, <2>1 DEF Below, CheckTypes, NoCursor
    <2>3. ASSUME NEW q \in Passes
          PROVE  Reached(q)'
        <3>1. CASE q = p
            BY <1>1, <1>2, <2>1, <2>2, <3>1 DEF Below, Reached, CheckTypes, NoCursor
        <3>2. CASE q # p
            BY <1>2, <2>1, <3>2 DEF Below, Reached, CheckTypes, NoCursor
        <3> QED
            BY <3>1, <3>2
    <2> QED
        BY <2>2, <2>3 DEF Below
<1>5. HolderIsCurrent'
    BY <1>1, <1>2 DEF HolderIsCurrent, CheckTypes, Checking
<1>6. Ordered'
    BY <1>1, <1>2 DEF Ordered, Behind, Adjacent, Meet, News, CheckTypes
<1>7. Calm'
    <2> SUFFICES ASSUME watchFaults = 0
                 PROVE  Calm'
        BY <1>2 DEF Calm
    <2>1. duty'[p] = "check" => \A q \in Passes : watch.holder # q \/ Synced # watch
        BY <1>1, <1>2 DEF Calm, Vacant, CheckTypes
    <2>2. outlived' = {} /\ \A q \in Passes : watch'.holder = q => duty'[q] \in Checking
        BY <1>1, <1>2, <2>1 DEF Calm, Checking, CheckTypes
    <2>3. ASSUME NEW e \in proper'
          PROVE  \/ watch'.cursor = NoCursor \/ Behind(e, watch.cursor)' \/ e[2] = watch'.cursor
                 \/ \E q \in Passes : watch'.holder = q /\ duty'[q] = "store" /\ found'[q] = e[2]
        BY <1>1, <1>2, <2>1 DEF Calm, Behind, CheckTypes
    <2>4. \A e, f \in proper' : e # f /\ Meet(e, f)' => Adjacent(e, f)
        BY <1>2 DEF Calm, Adjacent, Meet, News
    <2> QED
        BY <2>2, <2>3, <2>4 DEF Calm, Behind, Adjacent, Meet, News
<1> QED
    BY <1>3, <1>4, <1>5, <1>6, <1>7

\* A pass that goes on in its check, the row untouched and nothing enqueued.
Checks(p) ==
    /\ UNCHANGED <<landed, enabled, watch, saw, outlived, proper, upTo>>
    /\ duty' \in [Passes -> Stages] /\ found' \in [Passes -> Int] /\ named' \in [Passes -> Int]
    /\ duty[p] \in {"check", "compare", "ask"} /\ duty'[p] \in {"compare", "ask", "enqueue", "store"}
    /\ \A q \in Passes \ {p} : duty'[q] = duty[q] /\ found'[q] = found[q] /\ named'[q] = named[q]
    /\ found'[p] \in NoCursor .. landed /\ saw[p] <= found'[p] /\ named'[p] \in NoCursor .. landed
    /\ duty'[p] # "store" => 0 <= saw[p] /\ saw[p] < found'[p]
    /\ duty'[p] = "store" => \A m \in 1 .. found'[p] : saw[p] < m => Settled(m)'
    /\ duty'[p] \in {"ask", "enqueue"} =>
           \A m \in Int : saw[p] < m /\ m <= found'[p] => m \in excused' \/ m <= named'[p]
    /\ \/ found'[p] = found[p] /\ duty[p] # "check"
       \/ found'[p] \in {landed, saw[p]}
    /\ watchFaults' \in Nat /\ watchFaults' >= watchFaults

LEMMA ChecksKeep ==
    ASSUME CheckInv, Keeps, NEW p \in Passes, Checks(p)
    PROVE  CheckInv'
<1> USE DEF CheckInv, Checks
<1>1. CheckTypes' /\ Counted'
    BY KeepsCounted DEF CheckTypes
<1>2. Below'
    <2>1. \A m \in Int : Settled(m) => Settled(m)'
        BY KeepsSettled
    <2>2. /\ watch'.cursor \in NoCursor .. landed'
          /\ \A m \in 1 .. watch'.cursor : Settled(m)'
        BY <2>1 DEF Below, CheckTypes, NoCursor
    <2>3. \A m \in 1 .. saw[p] : Settled(m)'
        BY <2>1 DEF Below, Reached, Checking, CheckTypes, NoCursor
    <2>4. ASSUME NEW q \in Passes
          PROVE  Reached(q)'
        <3>1. CASE q = p
            BY <2>3, <3>1 DEF Below, Reached, CheckTypes, NoCursor
        <3>2. CASE q # p
            BY <2>1, <3>2 DEF Below, Reached, Keeps, CheckTypes, NoCursor
        <3> QED
            BY <3>1, <3>2
    <2> QED
        BY <2>2, <2>4 DEF Below
<1>3. HolderIsCurrent'
    BY DEF HolderIsCurrent, Checking
<1>4. Ordered'
    <2>1. ASSUME NEW e \in proper, NEW q \in Passes, watch.holder = q,
                 duty'[q] \in {"compare", "ask", "enqueue", "store"}
          PROVE  Behind(e, found[q])' \/ found'[q] = saw[q] \/ (e[1] = saw[q] /\ e[2] = found'[q])
        <3>1. CASE q # p
            BY <2>1, <3>1 DEF Ordered, Behind
        <3>2. CASE q = p /\ found'[p] = found[p] /\ duty[p] # "check"
            BY <2>1, <3>2 DEF Ordered, Behind
        <3>3. CASE q = p /\ found'[p] = landed
            <4>1. e[2] <= landed /\ upTo[e] <= landed
                BY DEF Ordered, Counted, CheckTypes
            <4> QED
                BY <3>3, <4>1 DEF Behind
        <3>4. CASE q = p /\ found'[p] = saw[p]
            BY <3>4
        <3> QED
            BY <3>1, <3>2, <3>3, <3>4
    <2> QED
        BY <2>1 DEF Ordered, Behind, Adjacent, Meet, News
<1>5. Calm'
    BY DEF Calm, Behind, Adjacent, Meet, News, CheckTypes, Checking
<1> QED
    BY <1>1, <1>2, <1>3, <1>4, <1>5

LEMMA CheckingStepKeeps ==
    ASSUME CheckInv, Keeps, NEW p \in Passes,
           \/ CheckFails(p) \/ FirstLook(p) \/ Probe(p) \/ CountersTell(p) \/ HistoryTells(p)
           \/ NothingShows(p) \/ AskTargets(p)
    PROVE  CheckInv'
<1> USE WatchAssumption DEF CheckInv, CheckTypes, folder, story, checks, leasable, Moves, Struck
<1>0. /\ landed \in Int /\ NoCursor = -1 /\ 0 <= landed
      /\ \A q \in Passes : /\ saw[q] \in NoCursor .. landed /\ found[q] \in NoCursor .. landed
                           /\ named[q] \in NoCursor .. landed
      /\ \A m \in Int : m \in excused' => Settled(m)'
    BY DEF Below, Reached, Settled, NoCursor
<1>1. CASE CheckFails(p)
    <2>1. Checks(p)
        BY <1>0, <1>1 DEF CheckFails, Checks, Checking, Stages, Below, Reached
    <2> QED
        BY <2>1, ChecksKeep
<1>2. CASE FirstLook(p)
    <2>1. \A m \in 1 .. landed : m \in excused'
        BY <1>0, <1>2 DEF FirstLook
    <2>2. Checks(p)
        BY <1>0, <1>2, <2>1 DEF FirstLook, Checks, Checking, Stages
    <2> QED
        BY <2>2, ChecksKeep
<1>3. CASE Probe(p)
    <2>1. Checks(p)
        BY <1>0, <1>3 DEF Probe, Checks, Checking, Stages
    <2> QED
        BY <2>1, ChecksKeep
<1>4. ASSUME NEW n \in Int, CountsUpTo(p, n), saw[p] < n, n <= landed,
             watchFaults' = watchFaults \/ Struck
      PROVE  CheckInv'
    <2>1. duty[p] = "compare" /\ 0 <= saw[p] /\ saw[p] < found[p]
        BY <1>4 DEF CountsUpTo, Below, Reached
    <2>2. \A m \in Int : saw[p] < m /\ m <= found[p] => m \in excused' \/ m <= n
        BY <1>0, <1>4 DEF CountsUpTo, Told
    <2>3. Checks(p)
        BY <1>0, <1>4, <2>1, <2>2 DEF CountsUpTo, Checks, Checking, Stages
    <2> QED
        BY <2>3, ChecksKeep
<1>5. CASE CountersTell(p)
    BY <1>0, <1>4, <1>5 DEF CountersTell
<1>6. CASE HistoryTells(p)
    <2> DEFINE n == IF landed < saw[p] + HISTORY_PAGE THEN landed ELSE saw[p] + HISTORY_PAGE
    <2>1. CountsUpTo(p, n) /\ watchFaults' = watchFaults
        BY <1>6 DEF HistoryTells
    <2>2. duty[p] = "compare" /\ saw[p] < found[p]
        BY <2>1 DEF CountsUpTo, Below, Reached
    <2>3. n \in Int /\ saw[p] < n /\ n <= landed
        BY <1>0, <2>2
    <2> HIDE DEF n
    <2> QED
        BY <1>4, <2>1, <2>3
<1>7. CASE NothingShows(p)
    <2>1. \A m \in Int : saw[p] < m /\ m <= found[p] => m \in excused'
        BY <1>0, <1>7 DEF NothingShows, Told
    <2>2. saw[p] < found[p]
        BY <1>7 DEF NothingShows, Below, Reached
    <2>3. Checks(p)
        BY <1>0, <1>7, <2>1, <2>2 DEF NothingShows, Checks, Checking, Stages
    <2> QED
        BY <2>3, ChecksKeep
<1>8. CASE AskTargets(p)
    <2>1. /\ duty[p] = "ask" /\ 0 <= saw[p] /\ saw[p] < found[p]
          /\ \A m \in Int : saw[p] < m /\ m <= found[p] => m \in excused \/ m <= named[p]
        BY <1>8 DEF AskTargets, Below, Reached
    <2>2. CASE Moves(p, "ask", "enqueue") /\ UNCHANGED <<excused, watchFaults>>
        <3>1. Checks(p)
            BY <1>0, <1>8, <2>1, <2>2 DEF AskTargets, Checks, Checking, Stages
        <3> QED
            BY <3>1, ChecksKeep
    <2>3. CASE Moves(p, "ask", "store") /\ NotTold(p)
        <3>1. \A m \in Int : saw[p] < m /\ m <= found[p] => m \in excused'
            BY <1>0, <2>3 DEF NotTold, Told
        <3>2. Checks(p)
            BY <1>0, <1>8, <2>1, <2>3, <3>1 DEF AskTargets, Checks, Checking, Stages
        <3> QED
            BY <3>2, ChecksKeep
    <2> QED
        BY <1>8, <2>2, <2>3 DEF AskTargets
<1> QED
    BY <1>1, <1>2, <1>3, <1>5, <1>6, <1>7, <1>8

LEMMA EnqueueKeeps ==
    ASSUME CheckInv, SendTypes, NEW p \in Passes, Enqueue(p)
    PROVE  CheckInv'
<1> USE WatchAssumption DEF CheckInv, CheckTypes, folder, story, checks, Moves, Struck
<1>p. PICK e : e = <<saw[p], found[p]>>
    OBVIOUS
<1>0. /\ landed \in Int /\ NoCursor = -1 /\ 0 <= saw[p] /\ saw[p] < found[p]
      /\ found[p] <= landed /\ saw[p] \in Int /\ found[p] \in Int
      /\ e \in Arrivals /\ e[1] = saw[p] /\ e[2] = found[p]
      /\ named[p] \in Int /\ named[p] <= landed
      /\ \A m \in Int : saw[p] < m /\ m <= found[p] => m \in excused \/ m <= named[p]
    BY <1>p, ArrivalPairs DEF Below, Reached, Enqueue, NoCursor
<1>1. /\ UNCHANGED <<landed, enabled, watch, saw, found, named, outlived>>
      /\ duty' = [duty EXCEPT ![p] = "store"] /\ duty[p] = "enqueue"
      /\ watchFaults' \in Nat /\ watchFaults' >= watchFaults
      /\ excused \subseteq excused'
    BY DEF Enqueue, NotTold
<1>2. \/ /\ posting' = Enqueued(e) /\ posting[e].status = "none"
         /\ upTo' = [upTo EXCEPT ![e] = named[p]]
         /\ proper' = proper \union {f \in {e} : watch.holder = p}
      \/ /\ posting' = posting /\ upTo' = upTo /\ posting[e].status # "none"
         /\ proper' = proper \union {f \in {e} : watch.holder = p}
      \/ posting' = posting /\ upTo' = upTo /\ proper' = proper /\ NotTold(p)
    BY <1>p DEF Enqueue, Enqueued
<1>3. /\ proper' = proper \/ (watch.holder = p /\ proper' = proper \union {e})
      /\ \A f \in Arrivals : f # e \/ posting[f].status # "none" =>
             upTo'[f] = upTo[f] /\ (posting'[f].status = "none" <=> posting[f].status = "none")
      /\ upTo' \in [Arrivals -> Int]
    BY <1>0, <1>2 DEF Enqueued, SendTypes
<1>4. \A f \in proper : f \in Arrivals /\ upTo'[f] = upTo[f]
    BY <1>3 DEF Counted
<1>5. \A m \in Int : Settled(m) => Settled(m)'
    BY <1>1, <1>3, Settling
<1>6. Counted'
    <2>1. \A f \in Arrivals : Spoken(f) /\ (f # e \/ posting[f].status # "none") => Spoken(f)'
        BY <1>1, <1>3 DEF Spoken
    <2>2. CASE posting' = posting /\ upTo' = upTo /\ (posting[e].status # "none" \/ proper' = proper)
        <3>1. \A f \in Arrivals : Spoken(f) => Spoken(f)'
            BY <1>1, <2>2 DEF Spoken
        <3>2. \A f \in proper' : posting'[f].status # "none"
            BY <1>3, <2>2 DEF Counted
        <3> QED
            BY <1>1, <2>2, <3>1, <3>2 DEF Counted
    <2>3. CASE /\ posting' = Enqueued(e) /\ posting[e].status = "none"
               /\ upTo' = [upTo EXCEPT ![e] = named[p]]
        <3>1. Spoken(e)' /\ upTo'[e] <= landed' /\ posting'[e].status # "none"
            BY <1>0, <1>1, <2>3 DEF Spoken, Enqueued, SendTypes
        <3>2. \A f \in Arrivals : f # e => upTo'[f] <= landed' /\ (posting'[f].status # "none" => Spoken(f)')
            BY <1>1, <1>3, <2>1 DEF Counted
        <3>3. \A f \in proper' : posting'[f].status # "none"
            BY <1>3, <3>1 DEF Counted
        <3> QED
            BY <3>1, <3>2, <3>3 DEF Counted
    <2> QED
        BY <1>2, <2>2, <2>3
<1>7. \A m \in 1 .. found[p] : saw[p] < m => Settled(m)'
    <2>1. CASE posting'[e].status # "none"
        <3>1. \A m \in Int : saw[p] < m /\ m <= found[p] => m \in excused' \/ m <= upTo'[e]
            BY <1>0, <1>6, <2>1 DEF Counted, Spoken
        <3> QED
            BY <1>0, <1>3, <2>1, <3>1 DEF Settled, Announced, News
    <2>2. CASE NotTold(p)
        BY <1>0, <2>2 DEF NotTold, Told, Settled
    <2> QED
        BY <1>0, <1>2, <2>1, <2>2 DEF Enqueued, SendTypes
<1>8. CheckTypes'
    BY <1>0, <1>1, <1>3 DEF Stages, Checking
<1>9. Below'
    <2>1. /\ watch'.cursor \in NoCursor .. landed'
          /\ \A m \in 1 .. watch'.cursor : Settled(m)'
        BY <1>1, <1>5 DEF Below
    <2>2. \A m \in 1 .. found[p] : Settled(m)'
        BY <1>0, <1>1, <1>5, <1>7 DEF Below, Reached
    <2>3. ASSUME NEW q \in Passes
          PROVE  Reached(q)'
        <3>1. CASE q = p
            BY <1>0, <1>1, <2>2, <3>1 DEF Below, Reached
        <3>2. CASE q # p
            BY <1>0, <1>1, <1>5, <3>2 DEF Below, Reached
        <3> QED
            BY <3>1, <3>2
    <2> QED
        BY <2>1, <2>3 DEF Below
<1>10. HolderIsCurrent'
    BY <1>1 DEF HolderIsCurrent, Checking
<1>11. watch.holder = p => watch.cursor = saw[p]
    BY <1>1 DEF HolderIsCurrent, Checking
<1>12. ASSUME NEW f \in proper, NEW g \in proper
       PROVE  Meet(f, g)' <=> Meet(f, g)
    BY <1>4 DEF Meet, News
<1>13. ASSUME NEW f \in proper, watch.holder = p, f # e, Meet(f, e)' \/ Meet(e, f)'
       PROVE  f[1] = e[1] \/ f[2] = e[1]
    <2>1. Behind(f, saw[p]) \/ f[1] = saw[p] \/ f[2] = saw[p]
        BY <1>0, <1>11, <1>13 DEF Ordered
    <2>2. f[1] \in Int /\ upTo'[f] = upTo[f] /\ upTo[f] \in Int /\ upTo'[e] \in Int
        BY <1>0, <1>3, <1>4, ArrivalPairs
    <2>3. upTo[f] <= saw[p] => ~Meet(f, e)' /\ ~Meet(e, f)'
        BY <1>0, <2>2 DEF Meet, News
    <2> QED
        BY <1>0, <1>13, <2>1, <2>3 DEF Behind
<1>14. Ordered'
    <2>1. ASSUME NEW f \in proper'
          PROVE  /\ f[2] <= landed'
                 /\ \/ watch'.cursor = NoCursor \/ Behind(f, watch.cursor)'
                    \/ f[1] = watch'.cursor \/ f[2] = watch'.cursor
                 /\ \A q \in Passes : watch'.holder = q /\ duty'[q] \in {"compare", "ask", "enqueue", "store"}
                        => \/ Behind(f, found[q])' \/ found'[q] = saw'[q]
                           \/ f[1] = saw'[q] /\ f[2] = found'[q]
        <3>1. CASE f \in proper
            BY <1>1, <1>4, <3>1 DEF Ordered, Behind
        <3>2. CASE f = e /\ watch.holder = p
            BY <1>0, <1>1, <1>11, <3>2
        <3> QED
            BY <1>3, <2>1, <3>1, <3>2
    <2>2. ASSUME NEW f \in proper', NEW g \in proper', f # g, Meet(f, g)'
          PROVE  f[1] = g[1] \/ Adjacent(f, g)
        <3>1. CASE f \in proper /\ g \in proper
            BY <1>12, <2>2, <3>1 DEF Ordered
        <3>2. CASE watch.holder = p /\ f \in proper /\ g = e
            BY <1>13, <2>2, <3>2 DEF Adjacent
        <3>3. CASE watch.holder = p /\ g \in proper /\ f = e
            BY <1>13, <2>2, <3>3 DEF Adjacent
        <3> QED
            BY <1>3, <2>2, <3>1, <3>2, <3>3
    <2> QED
        BY <2>1, <2>2 DEF Ordered, Behind, Adjacent
<1>15. Calm'
    <2> SUFFICES ASSUME watchFaults' = 0
                 PROVE  Calm'
        BY DEF Calm
    <2>1. watchFaults = 0
        BY <1>1
    <2>2. outlived' = {} /\ \A q \in Passes : watch'.holder = q => duty'[q] \in Checking
        BY <1>1, <2>1 DEF Calm, Checking
    <2>3. ASSUME NEW f \in proper'
          PROVE  \/ watch'.cursor = NoCursor \/ Behind(f, watch.cursor)' \/ f[2] = watch'.cursor
                 \/ \E q \in Passes : watch'.holder = q /\ duty'[q] = "store" /\ found'[q] = f[2]
        <3>1. CASE f \in proper
            BY <1>1, <1>4, <2>1, <3>1 DEF Calm, Behind
        <3>2. CASE f = e /\ watch.holder = p
            BY <1>0, <1>1, <3>2
        <3> QED
            BY <1>3, <2>3, <3>1, <3>2
    <2>4. ASSUME NEW f \in proper, watch.holder = p, Meet(f, e)' \/ Meet(e, f)'
          PROVE  f[2] = e[1]
        <3>1. Behind(f, saw[p]) \/ f[2] = saw[p]
            BY <1>0, <1>1, <1>11, <2>1, <2>4 DEF Calm
        <3>2. f[1] \in Int /\ upTo'[f] = upTo[f] /\ upTo[f] \in Int /\ upTo'[e] \in Int
            BY <1>0, <1>3, <1>4, ArrivalPairs
        <3>3. upTo[f] <= saw[p] => ~Meet(f, e)' /\ ~Meet(e, f)'
            BY <1>0, <3>2 DEF Meet, News
        <3> QED
            BY <1>0, <2>4, <3>1, <3>3 DEF Behind
    <2>5. ASSUME NEW f \in proper', NEW g \in proper', f # g, Meet(f, g)'
          PROVE  Adjacent(f, g)
        <3>1. CASE f \in proper /\ g \in proper
            BY <1>12, <2>1, <2>5, <3>1 DEF Calm
        <3>2. CASE watch.holder = p /\ f \in proper /\ g = e
            BY <2>4, <2>5, <3>2 DEF Adjacent
        <3>3. CASE watch.holder = p /\ g \in proper /\ f = e
            BY <2>4, <2>5, <3>3 DEF Adjacent
        <3> QED
            BY <1>3, <2>5, <3>1, <3>2, <3>3
    <2> QED
        BY <2>2, <2>3, <2>5 DEF Calm, Behind, Adjacent
<1> QED
    BY <1>6, <1>8, <1>9, <1>10, <1>14, <1>15

LEMMA StoringKeeps ==
    ASSUME CheckInv, Keeps, NEW p \in Passes, StoreCursor(p)
    PROVE  CheckInv'
<1> USE WatchAssumption DEF CheckInv, CheckTypes, folder, story, checks, Moves, Struck
<1>0. /\ landed \in Int /\ NoCursor = -1 /\ 0 <= landed
      /\ saw[p] <= found[p] /\ saw[p] \in Int /\ found[p] \in NoCursor .. landed
      /\ \A m \in 1 .. found[p] : Settled(m)
    BY DEF Below, Reached, StoreCursor, NoCursor
<1>1. /\ UNCHANGED <<landed, enabled, excused, outlived, proper, upTo>>
      /\ duty' = [duty EXCEPT ![p] = "send"] /\ duty[p] = "store"
      /\ saw' = [saw EXCEPT ![p] = NoCursor] /\ found' = [found EXCEPT ![p] = NoCursor]
      /\ named' = [named EXCEPT ![p] = NoCursor]
      /\ watchFaults' \in Nat /\ watchFaults' >= watchFaults
    BY DEF StoreCursor
<1>11. Counted'
    BY <1>1, KeepsCounted
<1>12. \A m \in Int : Settled(m) => Settled(m)'
    BY KeepsSettled
<1>13. \A q \in Passes : Reached(q)'
    BY <1>0, <1>1, <1>12 DEF Below, Reached
<1>2. CASE watch' = [watch EXCEPT !.cursor = found[p], !.holder = Nobody] /\ watch.holder = p
    <2>1. /\ watch' \in [there : BOOLEAN, cursor : Int, holder : Passes \union {Nobody}]
          /\ watch'.cursor = found[p] /\ watch'.holder = Nobody /\ watch.cursor = saw[p]
        BY <1>0, <1>1, <1>2 DEF HolderIsCurrent, Checking
    <2>2. CheckTypes'
        BY <1>0, <1>1, <2>1 DEF Stages, Checking
    <2>3. Below'
        BY <1>0, <1>1, <1>12, <1>13, <2>1 DEF Below
    <2>4. HolderIsCurrent'
        BY <2>1 DEF HolderIsCurrent
    <2>5. \A e \in proper : \/ Behind(e, found[p]) \/ e[2] = found[p]
                            \/ found[p] = saw[p]
        BY <1>1, <1>2 DEF Ordered
    <2>6. Ordered'
        BY <1>1, <2>1, <2>5 DEF Ordered, Behind, Adjacent, Meet, News
    <2>7. Calm'
        <3> SUFFICES ASSUME watchFaults = 0
                     PROVE  Calm'
            BY <1>1 DEF Calm
        <3>1. \A e \in proper : found[p] = NoCursor \/ Behind(e, found[p]) \/ e[2] = found[p]
            BY <1>2, <2>1, <2>5 DEF Calm
        <3> QED
            BY <1>1, <1>2, <2>1, <3>1 DEF Calm, Behind, Adjacent, Meet, News
    <2> QED
        BY <1>11, <2>2, <2>3, <2>4, <2>6, <2>7
<1>3. CASE watch' = watch /\ (watch.holder # p \/ watchFaults' > 0)
    <2>1. CheckTypes'
        BY <1>0, <1>1, <1>3 DEF Stages, Checking
    <2>2. Below'
        BY <1>0, <1>1, <1>3, <1>12, <1>13 DEF Below
    <2>3. HolderIsCurrent'
        BY <1>1, <1>3 DEF HolderIsCurrent, Checking
    <2>4. Ordered'
        BY <1>1, <1>3 DEF Ordered, Behind, Adjacent, Meet, News
    <2>5. Calm'
        BY <1>1, <1>3 DEF Calm, Behind, Adjacent, Meet, News
    <2> QED
        BY <1>11, <2>1, <2>2, <2>3, <2>4, <2>5
<1> QED
    BY <1>2, <1>3 DEF StoreCursor, Releases

-----------------------------------------------------------------------------
(* The send step. *)

\* A step under which no delivery changes hands.
Idles ==
    /\ UNCHANGED <<posting, errand>>
    /\ outlived \subseteq outlived'

LEMMA IdlesKeep == ASSUME SendInv, Idles PROVE SendInv'
BY DEF SendInv, Idles, SendTypes, Untried, OnePoster, AttemptsEnd

\* A pass that has nothing more in hand forgets that it outlived its leases.
Forgets(p) ==
    outlived' = outlived \/ (outlived' = outlived \ {p} /\ \A e \in Arrivals : errand'[p][e] = "none")

LEMMA EnqueueSends ==
    ASSUME SendInv, NEW p \in Passes, Enqueue(p)
    PROVE  SendInv'
<1> USE WatchAssumption DEF SendInv
<1>1. errand' = errand /\ outlived' = outlived
    BY DEF Enqueue
<1> DEFINE Same(e) == posting'[e].attempt = posting[e].attempt /\ posting'[e].holder = posting[e].holder
<1>2. /\ posting' \in [Arrivals -> [status : DeliveryStatuses, attempt : Nat, holder : Passes \union {Nobody}]]
      /\ \A e \in Arrivals :
            \/ posting'[e] = posting[e]
            \/ posting[e].status = "none" /\ posting'[e].status = "pending" /\ Same(e)
    <2>1. ASSUME NEW e, posting' = [posting EXCEPT ![e].status = "pending"], posting[e].status = "none"
          PROVE  /\ posting' \in [Arrivals -> [status : DeliveryStatuses, attempt : Nat, holder : Passes \union {Nobody}]]
                 /\ \A a \in Arrivals :
                       \/ posting'[a] = posting[a]
                       \/ posting[a].status = "none" /\ posting'[a].status = "pending" /\ Same(a)
        BY <2>1 DEF SendTypes, DeliveryStatuses
    <2>2. posting' = posting \/ \E e : posting' = Enqueued(e)
        BY DEF Enqueue
    <2> QED
        BY <2>1, <2>2 DEF Enqueued, SendTypes
<1>3. SendTypes' /\ Untried'
    BY <1>1, <1>2 DEF SendTypes, Untried
<1>4. OnePoster' /\ AttemptsEnd'
    BY <1>1, <1>2 DEF OnePoster, AttemptsEnd, Untried, SendTypes
<1> QED
    BY <1>2, <1>3, <1>4

LEMMA LeasingSends ==
    ASSUME SendInv, outlived \subseteq Passes, NEW p \in Passes, LeaseDeliveries(p)
    PROVE  SendInv' /\ \A e \in Arrivals : posting'[e].status = posting[e].status
<1> USE WatchAssumption DEF SendInv
<1>1. PICK batch \in SUBSET Arrivals :
          /\ \A e \in batch : Claims(e)
          /\ posting' = [e \in Arrivals |->
                 IF e \in batch THEN [posting[e] EXCEPT !.holder = p] ELSE posting[e]]
          /\ errand' = [errand EXCEPT ![p] = [e \in Arrivals |->
                 IF e \notin batch THEN "none" ELSE IF enabled THEN "held" ELSE "drop"]]
          /\ outlived' = IF batch = {} THEN outlived \ {p} ELSE outlived
    BY DEF LeaseDeliveries
<1>2. /\ posting' \in [Arrivals -> [status : DeliveryStatuses, attempt : Nat, holder : Passes \union {Nobody}]]
      /\ \A e \in Arrivals : /\ posting'[e].status = posting[e].status
                             /\ posting'[e].attempt = posting[e].attempt
                             /\ posting'[e].holder = IF e \in batch THEN p ELSE posting[e].holder
    BY <1>1 DEF SendTypes
<1>3. /\ errand' \in [Passes -> [Arrivals -> Errands]]
      /\ \A e \in Arrivals : e \notin batch => errand'[p][e] = "none"
      /\ \A q \in Passes \ {p} : errand'[q] = errand[q]
    BY <1>1 DEF SendTypes, Errands
<1>4. SendTypes' /\ Untried' /\ AttemptsEnd'
    BY <1>2, <1>3 DEF SendTypes, Untried, AttemptsEnd
<1>5. OnePoster'
    <2> SUFFICES ASSUME NEW q \in Passes, NEW e \in Arrivals, errand'[q][e] # "none"
                 PROVE  posting'[e].holder = q \/ q \in outlived' \/ posting'[e].status = "abandoned"
        BY DEF OnePoster
    <2>1. CASE q = p
        BY <1>2, <1>3, <2>1
    <2>2. CASE q # p
        <3>1. posting[e].holder = q \/ q \in outlived \/ posting[e].status = "abandoned"
            BY <1>3, <2>2 DEF OnePoster
        <3>2. e \in batch => posting[e].status = "pending" /\ (posting[e].holder = q => q \in outlived)
            BY <1>1 DEF Claims, Vacant
        <3> QED
            BY <1>1, <1>2, <2>2, <3>1, <3>2
    <2> QED
        BY <2>1, <2>2
<1> QED
    BY <1>2, <1>4, <1>5

\* What p had in hand for e is over: the row is closed or put back if p still holds it,
\* and other rows are abandoned or left alone.
Result(p, e) ==
    /\ errand' = [errand EXCEPT ![p][e] = "none"]
    /\ Forgets(p)
    /\ posting' \in [Arrivals -> [status : DeliveryStatuses, attempt : Nat, holder : Passes \union {Nobody}]]
    /\ \A f \in Arrivals :
          \/ posting'[f] = posting[f]
          \/ /\ posting[f].status = "pending" /\ posting'[f].status # "none"
             /\ \/ f = e /\ posting[f].holder = p
                \/ posting'[f].status = "abandoned"
             /\ posting'[f].status = "pending" => posting'[f].attempt < MAX_ATTEMPTS

LEMMA ResultKeeps ==
    ASSUME SendInv, outlived \subseteq Passes, NEW p \in Passes, NEW e \in Arrivals, Result(p, e)
    PROVE  /\ SendInv'
           /\ \A f \in Arrivals : posting'[f].status = "none" <=> posting[f].status = "none"
<1> USE WatchAssumption DEF SendInv
<1>1. /\ \A f \in Arrivals : posting'[f].status = "none" <=> posting[f].status = "none"
      /\ \A f \in Arrivals : posting'[f].status = "none" => posting'[f] = posting[f]
    BY DEF Result
<1>2. /\ errand' \in [Passes -> [Arrivals -> Errands]] /\ errand'[p][e] = "none"
      /\ \A q \in Passes, f \in Arrivals : q # p \/ f # e => errand'[q][f] = errand[q][f]
    BY DEF Result, SendTypes, Errands
<1>3. SendTypes' /\ Untried'
    BY <1>1, <1>2 DEF Result, SendTypes, Untried
<1>4. AttemptsEnd'
    BY DEF Result, AttemptsEnd
<1>5. OnePoster'
    <2> SUFFICES ASSUME NEW q \in Passes, NEW f \in Arrivals, errand'[q][f] # "none"
                 PROVE  posting'[f].holder = q \/ q \in outlived' \/ posting'[f].status = "abandoned"
        BY DEF OnePoster
    <2>1. q # p \/ f # e
        BY <1>2
    <2>2. posting[f].holder = q \/ q \in outlived \/ posting[f].status = "abandoned"
        BY <1>2, <2>1 DEF OnePoster
    <2>3. q \in outlived => q \in outlived'
        BY DEF Result, Forgets
    <2>4. CASE posting'[f] = posting[f]
        BY <2>2, <2>3, <2>4
    <2>5. CASE f = e /\ posting[f].status = "pending" /\ posting[f].holder = p
        BY <2>1, <2>2, <2>3, <2>5
    <2>6. CASE posting'[f].status = "abandoned"
        BY <2>6
    <2> QED
        BY <2>4, <2>5, <2>6 DEF Result
<1> QED
    BY <1>1, <1>3, <1>4, <1>5

\* Posting: what is in hand stays in hand.
LEMMA PostSends == ASSUME SendInv, NEW p \in Passes, NEW e \in Arrivals, Post(p, e) PROVE SendInv'
<1> USE DEF SendInv, Post, Reaches, leasable
<1>1. posting' = posting /\ outlived' = outlived /\ errand[p][e] # "none"
      /\ \E to \in Errands : errand' = [errand EXCEPT ![p][e] = to]
    BY DEF Errands
<1>2. /\ errand' \in [Passes -> [Arrivals -> Errands]]
      /\ \A q \in Passes, f \in Arrivals : q # p \/ f # e => errand'[q][f] = errand[q][f]
    BY <1>1 DEF SendTypes
<1>3. SendTypes' /\ Untried' /\ AttemptsEnd'
    BY <1>1, <1>2 DEF SendTypes, Untried, AttemptsEnd
<1>4. OnePoster'
    BY <1>1, <1>2 DEF OnePoster
<1> QED
    BY <1>3, <1>4

LEMMA Finishing ==
    ASSUME NEW p \in Passes, Finishes(p), CheckTypes, duty[p] \in {"post", "last"}
    PROVE  /\ Forgets(p) /\ outlived' \subseteq outlived
           /\ duty' \in [Passes -> Stages] /\ duty'[p] \notin Checking
           /\ \A q \in Passes \ {p} : duty'[q] = duty[q]
BY DEF Finishes, Forgets, CheckTypes, Stages, Checking

LEMMA RecordingIsAResult ==
    ASSUME SendInv, CheckTypes, NEW p \in Passes, NEW e \in Arrivals,
           RecordSuccess(p, e) \/ RecordFailure(p, e) \/ ResultLost(p, e) \/ RecordAbandon(p, e)
    PROVE  Result(p, e) /\ Sends(p) /\ excused' = excused /\ upTo' = upTo
<1> USE WatchAssumption DEF SendInv
<1>1. /\ errand' = [errand EXCEPT ![p][e] = "none"] /\ Finishes(p)
      /\ duty[p] \in {"post", "last"}
      /\ UNCHANGED <<landed, watch, checks, story>>
    BY DEF RecordSuccess, RecordFailure, ResultLost, RecordAbandon, Reaches, folder, leasable
<1>2. enabled' \in BOOLEAN /\ watchFaults' \in Nat /\ watchFaults' >= watchFaults
    <2>1. CASE RecordFailure(p, e)
        <3>1. UNCHANGED watchFaults /\ (enabled' = enabled \/ enabled' = FALSE)
            BY <2>1, Zenon DEF RecordFailure
        <3>2. enabled' \in BOOLEAN
            BY <3>1, Zenon DEF CheckTypes
        <3> QED
            BY <3>1, <3>2 DEF CheckTypes
    <2>2. CASE ResultLost(p, e)
        BY <2>2 DEF ResultLost, Struck, folder, CheckTypes
    <2> QED
        BY <2>1, <2>2 DEF RecordSuccess, RecordAbandon, folder, CheckTypes
<1>3. Sends(p) /\ Forgets(p) /\ excused' = excused /\ upTo' = upTo
    BY <1>1, <1>2, Finishing DEF Sends, Checking, story
<1>4. posting[e].attempt \in Nat /\ posting[e].attempt + 1 \in Nat
    BY DEF SendTypes
<1>5. ASSUME NEW s \in DeliveryStatuses \ {"none"}, NEW n \in Nat, s = "pending" => n < MAX_ATTEMPTS,
             Records(p, e),
             posting' = [posting EXCEPT ![e] = [status |-> s, attempt |-> n, holder |-> Nobody]]
      PROVE  Result(p, e)
    BY <1>1, <1>3, <1>5 DEF Result, Records, SendTypes
<1>6. posting' = posting => Result(p, e)
    BY <1>1, <1>3 DEF Result, SendTypes
<1>7. CASE RecordSuccess(p, e)
    <2>1. CASE Records(p, e)
        <3> DEFINE s == "delivered"
                   n == posting[e].attempt + 1
        <3>1. posting' = [posting EXCEPT ![e] = [status |-> s, attempt |-> n, holder |-> Nobody]]
            BY <1>7, <2>1 DEF RecordSuccess, Tried
        <3>2. n \in Nat /\ s \in DeliveryStatuses \ {"none"} /\ s # "pending"
            BY <1>4 DEF DeliveryStatuses
        <3> HIDE DEF n, s
        <3> QED
            BY <1>3, <1>5, <2>1, <3>1, <3>2
    <2> QED
        BY <1>3, <1>6, <1>7, <2>1 DEF RecordSuccess
<1>8. CASE RecordAbandon(p, e)
    <2>1. CASE Records(p, e)
        <3> DEFINE s == "abandoned"
                   n == posting[e].attempt
        <3>1. posting' = [posting EXCEPT ![e] = [status |-> s, attempt |-> n, holder |-> Nobody]]
            BY <1>8, <2>1 DEF RecordAbandon, Closed
        <3>2. n \in Nat /\ s \in DeliveryStatuses \ {"none"} /\ s # "pending"
            BY <1>4 DEF DeliveryStatuses
        <3> HIDE DEF n, s
        <3> QED
            BY <1>3, <1>5, <2>1, <3>1, <3>2
    <2> QED
        BY <1>3, <1>6, <1>8, <2>1 DEF RecordAbandon
<1>9. CASE ResultLost(p, e)
    BY <1>3, <1>6, <1>9 DEF ResultLost, leasable
<1>10. CASE RecordFailure(p, e)
    <2> DEFINE n == posting[e].attempt + 1
               s == IF n = MAX_ATTEMPTS THEN "failed" ELSE "pending"
               table == Tried(e, s)
    <2>1. n \in Nat /\ s \in DeliveryStatuses \ {"none"}
        BY <1>4 DEF DeliveryStatuses
    <2>2. Records(p, e) => (s = "pending" => n < MAX_ATTEMPTS)
        BY <1>4 DEF Records, AttemptsEnd
    <2>3. table = [posting EXCEPT ![e] = [status |-> s, attempt |-> n, holder |-> Nobody]]
        BY <1>4 DEF Tried
    <2> HIDE DEF n, s
    <2>4. CASE posting' = table /\ Records(p, e)
        BY <1>3, <1>5, <2>1, <2>2, <2>3, <2>4
    <2>5. CASE posting' = Switched(table) /\ Records(p, e)
        <3>1. table \in [Arrivals -> [status : DeliveryStatuses, attempt : Nat, holder : Passes \union {Nobody}]]
            BY <2>1, <2>3 DEF SendTypes
        <3>2. \A f \in Arrivals \ {e} : table[f] = posting[f]
            BY <2>3 DEF SendTypes
        <3>3. table[e].status = s /\ table[e].attempt = n /\ s # "none"
            BY <2>1, <2>3 DEF SendTypes
        <3> HIDE DEF table
        <3>4. /\ posting' \in [Arrivals -> [status : DeliveryStatuses, attempt : Nat, holder : Passes \union {Nobody}]]
              /\ \A f \in Arrivals :
                    \/ posting'[f] = table[f] /\ table[f].status # "pending"
                    \/ posting'[f].status = "abandoned" /\ table[f].status = "pending"
            <4>1. ASSUME NEW f \in Arrivals
                  PROVE  posting'[f] = IF table[f].status = "pending"
                             THEN [status |-> "abandoned", attempt |-> table[f].attempt, holder |-> Nobody]
                             ELSE table[f]
                BY <2>5 DEF Switched
            <4>2. posting' = [f \in Arrivals |-> posting'[f]]
                BY <2>5 DEF Switched
            <4>3. ASSUME NEW f \in Arrivals
                  PROVE  /\ posting'[f] \in [status : DeliveryStatuses, attempt : Nat,
                                             holder : Passes \union {Nobody}]
                         /\ \/ posting'[f] = table[f] /\ table[f].status # "pending"
                            \/ posting'[f].status = "abandoned" /\ table[f].status = "pending"
                <5>1. table[f] \in [status : DeliveryStatuses, attempt : Nat, holder : Passes \union {Nobody}]
                    BY <3>1
                <5>2. CASE table[f].status = "pending"
                    <6> DEFINE tries == table[f].attempt
                    <6>1. tries \in Nat
                        BY <5>1
                    <6>2. posting'[f] = [status |-> "abandoned", attempt |-> tries, holder |-> Nobody]
                        BY <4>1, <5>2
                    <6> HIDE DEF tries
                    <6> QED
                        BY <5>2, <6>1, <6>2 DEF DeliveryStatuses
                <5>3. CASE table[f].status # "pending"
                    BY <4>1, <5>1, <5>3
                <5> QED
                    BY <5>2, <5>3
            <4>4. posting' \in [Arrivals -> [status : DeliveryStatuses, attempt : Nat,
                                           holder : Passes \union {Nobody}]]
                BY <4>2, <4>3
            <4> QED
                BY <4>3, <4>4, Zenon
        <3>5. posting[e].status = "pending" /\ posting[e].holder = p
            BY <2>5 DEF Records
        <3> QED
            BY <1>1, <1>3, <3>2, <3>3, <3>4, <3>5 DEF Result
    <2> QED
        BY <1>3, <1>6, <1>10, <2>4, <2>5 DEF RecordFailure, n, s
<1> QED
    BY <1>3, <1>7, <1>8, <1>9, <1>10

-----------------------------------------------------------------------------
(* The other actions. *)

LEMMA OthersKeep ==
    ASSUME WatchInv,
           MailArrives \/ SwitchOn \/ SwitchOff \/ LapseWatch \/ \E e \in Arrivals : LapseDelivery(e)
    PROVE  WatchInv'
<1> USE WatchAssumption DEF WatchInv, folder, leasable, checks, story
<1>1. CASE MailArrives \/ SwitchOn \/ SwitchOff
    <2>1. /\ UNCHANGED <<watch, posting, duty, checks, errand, outlived, story>>
          /\ landed' \in 0 .. MaxNewMail /\ landed' >= landed /\ enabled' \in BOOLEAN
          /\ watchFaults' \in Nat /\ watchFaults' >= watchFaults
        <3>1. landed \in 0 .. MaxNewMail /\ watchFaults \in Nat /\ enabled \in BOOLEAN
            BY DEF CheckInv, CheckTypes
        <3>2. CASE MailArrives
            BY <3>1, <3>2 DEF MailArrives
        <3>3. CASE SwitchOn
            BY <3>1, <3>3 DEF SwitchOn
        <3>4. CASE SwitchOff
            <4>1. /\ Struck /\ enabled' \in BOOLEAN
                  /\ UNCHANGED <<landed, watch, posting, duty, checks, errand, outlived, story>>
                BY <3>4, Zenon DEF SwitchOff
            <4> QED
                BY <3>1, <4>1 DEF Struck
        <3> QED
            BY <1>1, <3>2, <3>3, <3>4
    <2>2. SendInv'
        BY <2>1, IdlesKeep DEF Idles
    <2>3. \A m \in Int : Settled(m)' <=> Settled(m)
        BY <2>1 DEF Settled, Announced, News
    <2>4. CheckTypes' /\ Counted'
        BY <2>1, KeepsCounted DEF CheckInv, CheckTypes, Keeps
    <2>5. Below'
        BY <2>1, <2>3 DEF CheckInv, CheckTypes, Below, Reached, NoCursor
    <2>6. HolderIsCurrent'
        BY <2>1 DEF CheckInv, HolderIsCurrent
    <2>7. Ordered'
        BY <2>1, ArrivalPairs DEF CheckInv, CheckTypes, Ordered, Behind, Adjacent, Meet, News
    <2>8. Calm'
        BY <2>1 DEF CheckInv, CheckTypes, Calm, Behind, Adjacent, Meet, News
    <2> QED
        BY <2>2, <2>4, <2>5, <2>6, <2>7, <2>8 DEF CheckInv
<1>2. CASE LapseWatch
    <2>1. /\ UNCHANGED <<landed, enabled, posting, duty, checks, errand, outlived, story, watchFaults>>
          /\ watch' \in [there : BOOLEAN, cursor : Int, holder : Passes \union {Nobody}]
          /\ watch'.cursor = watch.cursor /\ watch'.holder = Nobody
          /\ watch.holder \in Passes /\ duty[watch.holder] \notin Checking
        BY <1>2 DEF LapseWatch, CheckInv, CheckTypes, Checking
    <2>2. SendInv'
        BY <2>1, IdlesKeep DEF Idles
    <2>3. \A m \in Int : Settled(m)' <=> Settled(m)
        BY <2>1 DEF Settled, Announced, News
    <2>4. CheckTypes' /\ Counted'
        BY <2>1, KeepsCounted DEF CheckInv, CheckTypes, Keeps
    <2>5. Below'
        BY <2>1, <2>3 DEF CheckInv, CheckTypes, Below, Reached, NoCursor
    <2>6. HolderIsCurrent' /\ Ordered'
        BY <2>1 DEF CheckInv, HolderIsCurrent, Ordered, Behind, Adjacent, Meet, News
    <2>7. Calm'
        BY <2>1 DEF CheckInv, CheckTypes, Calm, Behind, Adjacent, Meet, News
    <2> QED
        BY <2>2, <2>4, <2>5, <2>6, <2>7 DEF CheckInv
<1>3. ASSUME NEW e \in Arrivals, LapseDelivery(e)
      PROVE  WatchInv'
    <2>1. /\ UNCHANGED <<landed, enabled, watch, duty, checks, errand, outlived, story, watchFaults>>
          /\ posting' \in [Arrivals -> [status : DeliveryStatuses, attempt : Nat, holder : Passes \union {Nobody}]]
          /\ \A f \in Arrivals : /\ posting'[f].status = posting[f].status
                                 /\ posting'[f].attempt = posting[f].attempt
          /\ \A f \in Arrivals \ {e} : posting'[f] = posting[f]
          /\ posting[e].holder \in Passes /\ errand[posting[e].holder][e] = "none"
        BY <1>3 DEF LapseDelivery, SendInv, SendTypes
    <2>2. SendTypes' /\ Untried' /\ AttemptsEnd'
        BY <2>1 DEF SendInv, SendTypes, Untried, AttemptsEnd
    <2>3. OnePoster'
        BY <2>1 DEF SendInv, OnePoster
    <2>4. \A m \in Int : Settled(m)' <=> Settled(m)
        BY <2>1 DEF Settled, Announced, News
    <2>5. Below'
        BY <2>1, <2>4 DEF CheckInv, CheckTypes, Below, Reached, NoCursor
    <2>6. CheckTypes' /\ Counted' /\ HolderIsCurrent'
        BY <2>1, KeepsCounted DEF CheckInv, CheckTypes, Keeps, HolderIsCurrent
    <2>7. Ordered' /\ Calm'
        BY <2>1 DEF CheckInv, CheckTypes, Ordered, Calm, Behind, Adjacent, Meet, News
    <2> QED
        BY <2>2, <2>3, <2>5, <2>6, <2>7 DEF CheckInv, SendInv
<1> QED
    BY <1>1, <1>2, <1>3

LEMMA EndingKeeps ==
    ASSUME WatchInv, NEW p \in Passes, PassDies(p) \/ Outlive(p)
    PROVE  WatchInv'
<1> USE WatchAssumption DEF WatchInv, folder, leasable, checks, story
<1>1. \A m \in Int : Settled(m)' <=> Settled(m)
    BY DEF Settled, Announced, News, PassDies, Outlive
<1>2. watchFaults' \in Nat /\ watchFaults' > 0
    BY DEF PassDies, Outlive, Struck, CheckInv, CheckTypes
<1>11. Counted'
    BY KeepsCounted DEF Keeps, CheckInv, CheckTypes, PassDies, Outlive
<1>3. CASE PassDies(p)
    <2>1. /\ UNCHANGED <<landed, enabled, watch, posting, excused, proper, upTo>>
          /\ duty' = [duty EXCEPT ![p] = "idle"]
          /\ saw' = [saw EXCEPT ![p] = NoCursor] /\ found' = [found EXCEPT ![p] = NoCursor]
          /\ named' = [named EXCEPT ![p] = NoCursor]
          /\ errand' = [errand EXCEPT ![p] = NoErrands]
          /\ outlived' = outlived \ {p}
        BY <1>3 DEF PassDies
    <2>2. SendInv'
        <3>1. errand' \in [Passes -> [Arrivals -> Errands]] /\ \A e \in Arrivals : errand'[p][e] = "none"
            BY <2>1 DEF SendInv, SendTypes, NoErrands, Errands
        <3>2. SendTypes' /\ Untried' /\ AttemptsEnd'
            BY <2>1, <3>1 DEF SendInv, SendTypes, Untried, AttemptsEnd
        <3>3. OnePoster'
            BY <2>1, <3>1 DEF SendInv, SendTypes, OnePoster
        <3> QED
            BY <3>2, <3>3 DEF SendInv
    <2>3. NoCursor = -1 /\ landed \in Int /\ 0 <= landed
        BY DEF CheckInv, CheckTypes, NoCursor
    <2>4. CheckTypes'
        BY <1>2, <2>1, <2>3 DEF CheckInv, CheckTypes, Stages
    <2>5. Below'
        BY <1>1, <2>1, <2>3 DEF CheckInv, CheckTypes, Below, Reached
    <2>6. HolderIsCurrent' /\ Ordered'
        BY <2>1 DEF CheckInv, CheckTypes, HolderIsCurrent, Ordered, Behind, Adjacent, Meet, News, Checking
    <2>7. Calm'
        BY <1>2 DEF Calm
    <2> QED
        BY <1>11, <2>2, <2>4, <2>5, <2>6, <2>7 DEF CheckInv
<1>4. CASE Outlive(p)
    <2>1. /\ UNCHANGED <<landed, enabled, watch, posting, duty, checks, errand, story>>
          /\ outlived' = outlived \union {p}
        BY <1>4 DEF Outlive
    <2>2. SendInv'
        BY <2>1, IdlesKeep DEF Idles
    <2>3. CheckTypes'
        BY <1>2, <2>1 DEF CheckInv, CheckTypes
    <2>4. Below'
        BY <1>1, <2>1 DEF CheckInv, CheckTypes, Below, Reached, NoCursor
    <2>5. HolderIsCurrent' /\ Ordered'
        BY <2>1 DEF CheckInv, HolderIsCurrent, Ordered, Behind, Adjacent, Meet, News
    <2>6. Calm'
        BY <1>2 DEF Calm
    <2> QED
        BY <1>11, <2>2, <2>3, <2>4, <2>5, <2>6 DEF CheckInv
<1> QED
    BY <1>3, <1>4

LEMMA SendingKeeps ==
    ASSUME WatchInv, NEW p \in Passes,
           LeaseDeliveries(p) \/
           \E e \in Arrivals : \/ Post(p, e) \/ RecordSuccess(p, e) \/ RecordFailure(p, e)
                               \/ ResultLost(p, e) \/ RecordAbandon(p, e)
    PROVE  WatchInv'
<1> USE WatchAssumption DEF WatchInv
<1>0. CheckTypes /\ outlived \subseteq Passes
    BY DEF CheckInv, CheckTypes
<1>1. CASE LeaseDeliveries(p)
    <2>1. /\ SendInv' /\ \A e \in Arrivals : posting'[e].status = posting[e].status
        BY <1>0, <1>1, LeasingSends
    <2>2. excused' = excused /\ upTo' = upTo
        BY <1>1 DEF LeaseDeliveries, story
    <2>3. Keeps
        BY <2>1, <2>2 DEF Keeps
    <2>4. Sends(p)
        BY <1>0, <1>1 DEF LeaseDeliveries, Sends, Moves, folder, checks, story, CheckTypes, Stages, Checking
    <2> QED
        BY <2>1, <2>3, <2>4, SendsKeepCheck
<1>2. ASSUME NEW e \in Arrivals, Post(p, e)
      PROVE  WatchInv'
    <2>1. SendInv'
        BY <1>2, PostSends
    <2>2. Keeps
        BY <1>2 DEF Keeps, Post, leasable, story
    <2>3. Sends(p)
        BY <1>0, <1>2 DEF Post, Reaches, Sends, folder, leasable, checks, story, CheckTypes, Checking
    <2> QED
        BY <2>1, <2>2, <2>3, SendsKeepCheck
<1>3. ASSUME NEW e \in Arrivals,
             RecordSuccess(p, e) \/ RecordFailure(p, e) \/ ResultLost(p, e) \/ RecordAbandon(p, e)
      PROVE  WatchInv'
    <2>1. Result(p, e) /\ Sends(p) /\ excused' = excused /\ upTo' = upTo
        BY <1>0, <1>3, RecordingIsAResult
    <2>2. /\ SendInv'
          /\ \A f \in Arrivals : posting'[f].status = "none" <=> posting[f].status = "none"
        BY <1>0, <2>1, ResultKeeps
    <2>3. Keeps
        BY <2>1, <2>2 DEF Keeps
    <2> QED
        BY <2>1, <2>2, <2>3, SendsKeepCheck
<1> QED
    BY <1>1, <1>2, <1>3

LEMMA CheckKeeps ==
    ASSUME WatchInv, NEW p \in Passes,
           \/ LeaseWatch(p) \/ CheckFails(p) \/ FirstLook(p) \/ Probe(p) \/ CountersTell(p)
           \/ HistoryTells(p) \/ NothingShows(p) \/ AskTargets(p) \/ Enqueue(p) \/ StoreCursor(p)
    PROVE  WatchInv'
<1> USE DEF WatchInv
<1>1. CASE Enqueue(p)
    BY <1>1, EnqueueSends, EnqueueKeeps DEF SendInv
<1>2. CASE ~Enqueue(p)
    <2>1. Idles /\ upTo' = upTo
        BY <1>2 DEF Idles, LeaseWatch, CheckFails, FirstLook, Probe, CountersTell, HistoryTells, CountsUpTo,
                    NothingShows, AskTargets, StoreCursor, leasable, story
    <2>2. excused \subseteq excused'
        BY <1>2 DEF LeaseWatch, CheckFails, FirstLook, Probe, CountersTell, HistoryTells, CountsUpTo,
                    NothingShows, AskTargets, StoreCursor, story, NotTold
    <2>3. Keeps
        BY <2>1, <2>2 DEF Idles, Keeps
    <2> QED
        BY <1>2, <2>1, <2>3, IdlesKeep, LeasingKeeps, CheckingStepKeeps, StoringKeeps
<1> QED
    BY <1>1, <1>2

-----------------------------------------------------------------------------

LEMMA WatchStarts == WatchInit => WatchInv
<1> SUFFICES ASSUME WatchInit PROVE WatchInv
    OBVIOUS
<1> USE WatchAssumption DEF WatchInit
<1>1. CheckTypes
    BY DEF CheckTypes, NoCursor, Stages
<1>2. watch.cursor = 0 /\ watch.holder = Nobody
    OBVIOUS
<1>3. Below /\ Counted /\ HolderIsCurrent /\ Ordered /\ Calm
    BY <1>2 DEF Below, Reached, Counted, HolderIsCurrent, Ordered, Calm, NoCursor
<1>4. SendInv
    BY DEF SendInv, SendTypes, Untried, OnePoster, AttemptsEnd, NoErrands, Errands, DeliveryStatuses
<1> QED
    BY <1>1, <1>3, <1>4 DEF WatchInv, CheckInv

LEMMA WatchStays == WatchInv /\ [WatchNext]_watchVars => WatchInv'
<1> SUFFICES ASSUME WatchInv, [WatchNext]_watchVars PROVE WatchInv'
    OBVIOUS
<1>1. CASE WatchNext
    BY <1>1, OthersKeep, EndingKeeps, SendingKeeps, CheckKeeps DEF WatchNext
<1>2. CASE UNCHANGED watchVars
    BY <1>2 DEF watchVars, WatchInv, CheckInv, SendInv, CheckTypes, SendTypes, Below, Reached, Settled, Announced,
                Counted, Spoken, News, HolderIsCurrent, Ordered, Calm, Behind, Adjacent, Meet, Untried, OnePoster,
                AttemptsEnd
<1> QED
    BY <1>1, <1>2

LEMMA WatchInvHolds == WatchInv => WatchHolds
<1> SUFFICES ASSUME WatchInv PROVE WatchHolds
    OBVIOUS
<1> USE WatchAssumption DEF WatchInv, CheckInv
<1>1. NothingSkipped
    BY DEF Below, Settled, NothingSkipped, CheckTypes
<1>2. OneAnnouncement
    BY DEF Ordered, Calm, Adjacent, Meet, OneAnnouncement, CheckTypes
<1>3. OnePoster /\ AttemptsEnd
    BY DEF SendInv
<1> QED
    BY <1>1, <1>2, <1>3 DEF WatchHolds

\* What the owner of a webhook is promised (dispatch.ts, deliver.ts and their SQL).  No
\* message is passed that no event counts, unless the endpoint was off, the inbox looked at
\* for the first time or anew, the insert lost, or the message hidden from the counters or
\* beyond the first page of the history.  None is counted by two events but for an incident,
\* or by the next event when it came between the probe and the history.  One pass posts a
\* delivery at a time, and none is pending after its last attempt.
THEOREM WebhooksKeepTheirWord == WatchSpec => []WatchHolds
<1>1. WatchInit => WatchInv
    BY WatchStarts
<1>2. WatchInv /\ [WatchNext]_watchVars => WatchInv'
    BY WatchStays
<1>3. WatchInv => WatchHolds
    BY WatchInvHolds
<1> QED
    BY <1>1, <1>2, <1>3, PTL DEF WatchSpec

=============================================================================
