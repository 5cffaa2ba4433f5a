----------------------------- MODULE MCServices -----------------------------
(***************************************************************************)
(* Six components that share no state: the refresh tokens, the bulk plans,  *)
(* the Stripe events, the automations, the action allowance and the         *)
(* outbound brakes.  A behaviour picks one of them and the others rest, so  *)
(* that one run checks all six at the price of the sum of their states.     *)
(***************************************************************************)
EXTENDS TokenRotation, BulkPlans, StripeEvents, TriageDispatch, ActionReservations,
        OutboundBrakes

VARIABLE part

\* Two events within one second.
Seconds == <<1, 2, 2>>

\* A tool call that forwards two messages to two people, and a row that is due from the
\* beginning and takes the same text to one of them.
AtOnce == [s \in RowSends |-> 0]
Batch == [s \in Sends |-> IF s \in ToolSends THEN 2 ELSE 1]
OneText == [s \in Sends |-> "text"]
People == [s \in Sends |-> IF s \in ToolSends THEN {"ann", "bob"} ELSE {"ann"}]

servicesVars ==
    <<part, tokenVars, planVars, stripeVars, triageVars, allowanceVars, brakesVars>>

Init ==
    /\ TokenInit /\ PlanInit /\ StripeInit /\ TriageInit /\ AllowanceInit /\ BrakesInit
    /\ part \in {"tokens", "plans", "events", "triage", "allowance", "brakes", "rows"}
    /\ part = "tokens" \/ client = Nothing     \* a part at rest has one initial state
    /\ part = "plans" \/ frozen = "some"
    /\ \A s \in Sends : ~approved[s]           \* people decide what the fan-out holds

\* Deliveries differ in nothing but their number, and requests and dispatchers in nothing
\* but their name: it is enough to look at those behaviours in which they begin in one
\* order.
InTurn == \A c, d \in Deliveries : c < d /\ place[d] # "unsent" => place[c] # "unsent"
AnyOf(S) == CHOOSE x \in S : TRUE
InOrder ==
    \A S \in {Redeems, Refreshes} : step[AnyOf(S)] = "new" => \A r \in S : step[r] = "new"

\* The operator and the incidents come in the first two ticks, and a behaviour with an
\* incident is a tick shorter.
EarlyTrouble ==
    /\ sendsFrozen' # sendsFrozen \/ brakeFaults' # brakeFaults => clock <= 1
    /\ brakeFaults' > 0 => clock' < BrakesHorizon

\* Two instances of the brakes: a call and a row, whose invocations come one after the
\* other and try at once what they fetched; and the row alone, under any invocations.
HasRows(w) == \E s \in RowSends : batch[w][s] # "none"
OneByOne ==
    /\ (\E w \in Dispatchers : HasRows(w)) => batch' # batch
    /\ \A w \in Dispatchers : HasRows(w)' => w = AnyOf(Dispatchers)
RowsOnly == \A s \in ToolSends : stage'[s] = stage[s]

\* Marks are purged of a rule that leaves its messages where they match.
MoversKeepMarks == \A r \in Movers : seen[r] \subseteq seen'[r]

Next ==
    /\ UNCHANGED part
    /\ \/ part = "tokens" /\ TokenNext /\ InOrder'
          /\ UNCHANGED <<planVars, stripeVars, triageVars, allowanceVars, brakesVars>>
       \/ part = "plans" /\ PlanNext
          /\ UNCHANGED <<tokenVars, stripeVars, triageVars, allowanceVars, brakesVars>>
       \/ part = "events" /\ StripeNext /\ InTurn'
          /\ UNCHANGED <<tokenVars, planVars, triageVars, allowanceVars, brakesVars>>
       \/ part = "triage" /\ TriageNext /\ MoversKeepMarks
          /\ UNCHANGED <<tokenVars, planVars, stripeVars, allowanceVars, brakesVars>>
       \/ part = "allowance" /\ AllowanceNext
          /\ UNCHANGED <<tokenVars, planVars, stripeVars, triageVars, brakesVars>>
       \/ /\ part \in {"brakes", "rows"} /\ BrakesNext /\ EarlyTrouble
          /\ IF part = "brakes" THEN OneByOne ELSE RowsOnly
          /\ UNCHANGED <<tokenVars, planVars, stripeVars, triageVars, allowanceVars>>

Spec == Init /\ [][Next]_servicesVars
=============================================================================
