---------------------------- MODULE StripeEvents ----------------------------
(***************************************************************************)
(* app/api/stripe/webhook/route.ts: the events of one customer become the   *)
(* plan of the user and of the user's workspaces.                           *)
(*                                                                          *)
(* Stripe delivers an event until it is acknowledged, sometimes again after *)
(* that, and in any order.  A subscription event carries the state of the   *)
(* subscription when it was created; a Checkout event makes the handler ask *)
(* Stripe for the state of now.  A state is named after the event that      *)
(* announced it, so the newest state has the highest number.                *)
(***************************************************************************)
EXTENDS Integers, FiniteSets, Sequences

CONSTANTS
    Deliveries,      \* attempts of Stripe to deliver
    SecondOf,        \* event.created, in seconds, of each event in turn
    Checkouts,       \* the events that are Checkout events
    MaxStripeFaults  \* crashes and failed calls (bound)

Events == 1 .. Len(SecondOf)

ASSUME StripeAssumption ==
    /\ SecondOf \in Seq(Nat \ {0})
    /\ \A e \in Events : \A f \in 1 .. e : SecondOf[f] <= SecondOf[e]
    /\ Checkouts \subseteq Events /\ MaxStripeFaults \in Nat

VARIABLES
    happened,   \* events so far: the state Stripe holds
    ledger,     \* stripe_webhook_events
    acked,      \* events Stripe has a 200 for
    event,      \* of each delivery
    place,      \* where each delivery stands
    writes,     \* the state it is about to write
    billing,    \* the state user_billing shows
    projected,  \* the state the workspaces show
    struck,     \* events the incidents below made the server forget
    calm,       \* no two deliveries were handled at once, and none misread
    shocks      \* deliveries that met an incident

handling == <<event, place, writes>>
plans == <<billing, projected>>
stripeVars == <<happened, ledger, acked, handling, plans, struck, calm, shocks>>

StripeInit ==
    /\ happened = 0 /\ ledger = {} /\ acked = {}
    /\ event = [d \in Deliveries |-> 0]
    /\ place = [d \in Deliveries |-> "unsent"]
    /\ writes = [d \in Deliveries |-> 0]
    /\ billing = 0 /\ projected = 0
    /\ struck = {} /\ calm = TRUE /\ shocks = {}

Ended == {"unsent", "done", "stale", "duplicate", "failed", "died"}
Busy == {d \in Deliveries : place[d] \notin Ended}

Reach(d, p) == place' = [place EXCEPT ![d] = p]
Ack(d, p) == Reach(d, p) /\ acked' = acked \cup {event[d]}
Shock(d) == Cardinality(shocks) < MaxStripeFaults /\ shocks' = shocks \cup {d}
Strike(d) == struck' = struck \cup {event[d]}

-----------------------------------------------------------------------------

Happen ==
    /\ happened < Len(SecondOf)
    /\ happened' = happened + 1
    /\ UNCHANGED <<ledger, acked, handling, plans, struck, calm, shocks>>

Deliver(d) ==
    /\ place[d] = "unsent"
    /\ \E e \in 1 .. happened : event' = [event EXCEPT ![d] = e]
    /\ Reach(d, "record")
    /\ calm' = (calm /\ Busy = {})
    /\ UNCHANGED <<happened, ledger, acked, writes, plans, struck, shocks>>

\* The event is recorded before it is handled; a conflict means somebody has it.
Record_Upserts(d) ==
    /\ place[d] = "record"
    /\ ledger' = ledger \cup {event[d]} /\ Reach(d, "guard")
    /\ UNCHANGED <<happened, acked, event, writes, plans, struck, calm, shocks>>
Record(d) ==
    /\ place[d] = "record"
    /\ ledger' = ledger \cup {event[d]}
    /\ IF event[d] \in ledger
         THEN /\ Ack(d, "duplicate")
              /\ struck' = IF \E x \in Busy \ {d} : event[x] = event[d]
                             THEN struck \cup {event[d]} ELSE struck
         ELSE Reach(d, "guard") /\ UNCHANGED <<acked, struck>>
    /\ UNCHANGED <<happened, event, writes, plans, calm, shocks>>

\* The insert fails, or succeeds and loses its answer.
RecordFails(d) ==
    /\ place[d] = "record" /\ Shock(d) /\ Reach(d, "failed")
    /\ \/ UNCHANGED <<ledger, struck>>
       \/ event[d] \notin ledger /\ ledger' = ledger \cup {event[d]} /\ Strike(d)
    /\ UNCHANGED <<happened, acked, event, writes, plans, calm>>

Newer_Never(e) == {}
Newer(e) == {n \in ledger : SecondOf[n] > SecondOf[e]}

\* A read that fails and that the handler does without.
Misread(d) == Shock(d) /\ calm' = FALSE
WellRead == UNCHANGED <<shocks, calm>>

\* An event older than one on record is acknowledged and skipped; not a Checkout
\* event, which asks for the state of now.  A failed read lets the event pass.
Guard(d) ==
    /\ place[d] = "guard"
    /\ \/ event[d] \in Checkouts /\ Reach(d, "ask") /\ UNCHANGED <<acked, writes>> /\ WellRead
       \/ event[d] \notin Checkouts /\ Newer(event[d]) # {}
          /\ Ack(d, "stale") /\ UNCHANGED writes /\ WellRead
       \/ /\ event[d] \notin Checkouts
          /\ (Newer(event[d]) = {} /\ WellRead) \/ Misread(d)
          /\ Reach(d, "bill") /\ writes' = [writes EXCEPT ![d] = event[d]] /\ UNCHANGED acked
    /\ UNCHANGED <<happened, ledger, event, plans, struck>>

\* syncPlanFromCheckoutSession; without an answer the session has to do.
Ask(d) ==
    /\ place[d] = "ask" /\ Reach(d, "bill")
    /\ \/ writes' = [writes EXCEPT ![d] = happened] /\ WellRead
       \/ writes' = [writes EXCEPT ![d] = event[d]] /\ Misread(d)
    /\ UNCHANGED <<happened, ledger, acked, event, plans, struck>>

\* applyUserPlan, its two writes
Bill(d) ==
    /\ place[d] = "bill"
    /\ \/ Reach(d, "project") /\ billing' = writes[d] /\ UNCHANGED shocks
       \/ Reach(d, "forget") /\ UNCHANGED billing /\ Shock(d)
    /\ UNCHANGED <<happened, ledger, acked, event, writes, projected, struck, calm>>

Project(d) ==
    /\ place[d] = "project"
    /\ \/ Reach(d, "answer") /\ projected' = writes[d] /\ UNCHANGED shocks
       \/ Reach(d, "forget") /\ UNCHANGED projected /\ Shock(d)
    /\ UNCHANGED <<happened, ledger, acked, event, writes, billing, struck, calm>>

AnswerOk(d) ==
    /\ place[d] = "answer" /\ Ack(d, "done")
    /\ UNCHANGED <<happened, ledger, event, writes, plans, struck, calm, shocks>>

\* A handler that threw takes its record back, so that the retry is not skipped.
\* Whether that worked is not looked at.
Forget_Keeps(d) ==
    /\ place[d] = "forget" /\ Reach(d, "failed")
    /\ UNCHANGED <<happened, ledger, acked, event, writes, plans, struck, calm, shocks>>
Forget(d) ==
    /\ place[d] = "forget" /\ Reach(d, "failed")
    /\ \/ ledger' = ledger \ {event[d]} /\ UNCHANGED <<struck, shocks>>
       \/ UNCHANGED ledger /\ Strike(d) /\ Shock(d)
    /\ UNCHANGED <<happened, acked, event, writes, plans, calm>>

\* The process ends, or the answer does not arrive.
DeliveryDies(d) ==
    /\ d \in Busy /\ Shock(d) /\ Reach(d, "died")
    /\ IF place[d] = "record" THEN UNCHANGED struck ELSE Strike(d)
    /\ UNCHANGED <<happened, ledger, acked, event, writes, plans, calm>>

DeliveryStep(d) ==
    \/ Deliver(d) \/ Record(d) \/ RecordFails(d) \/ Guard(d) \/ Ask(d) \/ Bill(d)
    \/ Project(d) \/ AnswerOk(d) \/ Forget(d) \/ DeliveryDies(d)

StripeNext == Happen \/ \E d \in Deliveries : DeliveryStep(d)

StripeSpec == StripeInit /\ [][StripeNext]_stripeVars

-----------------------------------------------------------------------------
(* Properties.                                                              *)

\* No two deliveries of one event handle it at the same time, however often and
\* however closely Stripe sends it, and whatever failed before.
HandledByOne ==
    \A c, d \in Busy : event[c] = event[d] /\ c # d => "record" \in {place[c], place[d]}

\* An acknowledged event is not lost: it was handled or found stale, or somebody
\* is at it.  Only incidents lose one: a process that dies after the record, a
\* record that is stored or stays although the call reported otherwise, and a
\* redelivery that is acknowledged while the first delivery is still to fail.
AckedIsHandled ==
    \A e \in acked \ struck :
        \E d \in Deliveries : event[d] = e /\ (d \in Busy \/ place[d] \in {"done", "stale"})

\* Before the first event there is no second.
At(n) == IF n = 0 THEN 0 ELSE SecondOf[n]
Settled == Busy = {} /\ struck = {} /\ 1 .. happened \subseteq acked

\* Out-of-order delivery, redelivery and retries leave the plan of the newest
\* event (to the second) on the user and on the workspaces alike, once every
\* event is acknowledged, none was lost, no two were handled at once and no read
\* failed that the handler does without.
NewestWins ==
    (Settled /\ calm) => At(billing) = At(happened) /\ projected = billing

\* An event is in one pair of hands, and out of them only when it was dealt with; in
\* the end the newest has won.
EventsAreHandled == HandledByOne /\ AckedIsHandled /\ NewestWins

=============================================================================
