------------------------- MODULE ActionReservations -------------------------
(***************************************************************************)
(* The monthly action allowance of one Free workspace: a billable tool      *)
(* call, or one action of an automation, takes a reservation before it runs *)
(* and settles it afterwards.                                               *)
(*                                                                          *)
(*   allowance-gate.ts           the decision, the records and the notices  *)
(*   mcp-server/index.ts         the gate's early reservation, the meter    *)
(*   triage-engine.ts            the pre-run check and the paused rule      *)
(*   reserve_action_usage, finalize_action_usage_reservation,               *)
(*   record_usage_limit_event, mcp_tools_call_gate     (migrations, SQL)    *)
(*                                                                          *)
(* Every SQL function that writes holds the workspace's advisory lock, so   *)
(* each is one atomic step; between two round trips anything may happen.    *)
(***************************************************************************)
EXTENDS Integers, FiniteSets

CONSTANTS
    Tools,      \* the interactive tools/call requests
    Runs,       \* the automation actions, one matched message each
    Cap,        \* the billable actions of a period
    Life,       \* how long a reservation holds its slot (15 minutes)
    PeriodTurn,       \* the instant the second period opens
    Horizon,    \* the last instant looked at (bound)
    MaxFaults   \* crashes and failing round trips (bound)

Calls == Tools \cup Runs

NoId == <<"none">>

ASSUME AllowanceAssumption ==
    /\ Cap \in Nat /\ Life \in Nat /\ PeriodTurn \in Nat /\ Horizon \in Nat
    /\ MaxFaults \in Nat
    /\ Tools \cap Runs = {}

VARIABLES
    now,       \* the database's clock
    rows,      \* action_usage_reservations
    usage,     \* action_usage, the billable rows
    events,    \* the periods with a row in usage_limit_events
    funnel,    \* the periods with the paywall_reached funnel row
    mails,     \* billing_email_sends: <<template, period>>
    pc,        \* where each call stands
    terms,     \* the period whose cap and window the call read; 0: unmetered
    slot,      \* the reservation the call answers for
    outcome,   \* what became of the call
    faults     \* what has gone wrong so far, and to whom

tables == <<rows, usage, events, funnel, mails>>
allowanceVars == <<now, rows, usage, events, funnel, mails, pc, terms, slot, outcome, faults>>

PeriodOf(t) == IF t < PeriodTurn THEN 1 ELSE 2
PeriodEnd(p) == IF p = 1 THEN PeriodTurn ELSE Horizon + Life + 1
Earlier(a, b) == IF a < b THEN a ELSE b

GateId(c) == <<c, "gate">>
OwnId(c)  == <<c, "own">>
BareId(c) == <<c, "bare">>
RefusedId(c) == <<c, "refused">>
ErrorId(c)   == <<c, "error">>
IdsOf(c)  == {GateId(c), OwnId(c), BareId(c)}

AllowanceInit ==
    /\ now = 0
    /\ rows = {} /\ usage = {} /\ events = {} /\ funnel = {} /\ mails = {}
    /\ pc = [c \in Calls |-> "new"]
    /\ terms = [c \in Calls |-> 0]
    /\ slot = [c \in Calls |-> NoId]
    /\ outcome = [c \in Calls |-> "open"]
    /\ faults = {}

-----------------------------------------------------------------------------
(* The tables.  A row remembers, for the properties only, the window it was *)
(* counted in and the period it was made in.                                *)

BookedIn(p) == {u \in usage : u.period = p}

Lapsed(r) == r.expires <= now

\* DELETE ... WHERE expires_at <= now(), the first thing a reservation does.
Swept == {r \in rows : ~Lapsed(r)}

Occupied_Booked(p) == Cardinality(BookedIn(p))
Occupied(p) == Cardinality(BookedIn(p)) + Cardinality(Swept)

HasRoom(p) == Occupied(p) < Cap

Row(id, p) ==
    [id |-> id, expires |-> Earlier(now + Life, PeriodEnd(p)), under |-> p, at |-> PeriodOf(now)]

\* reserve_action_usage against the window of period p.
Reserved(id, p) == Swept \cup (IF HasRoom(p) THEN {Row(id, p)} ELSE {})

RowsOf(id) == {r \in rows : r.id = id}

\* finalize_action_usage_reservation: the row is deleted whatever its age; a
\* success turns it into an action of the current period.
Booked(id) ==
    {[id |-> r.id, period |-> PeriodOf(now), late |-> r.under # r.at] : r \in RowsOf(id)}

-----------------------------------------------------------------------------
(* Steps of one call.                                                       *)

Stage(c, where) == pc[c] = where
Goto(c, where) == pc' = [pc EXCEPT ![c] = where]
Keep(c, id) == slot' = [slot EXCEPT ![c] = id]
EndAs(c, what) == outcome' = [outcome EXCEPT ![c] = what]

\* What goes wrong with one call.  A reservation that is stored but whose answer is
\* "lost" is settled by nobody.
FaultLeft == Cardinality(faults) < MaxFaults
Fault(c, what) == FaultLeft /\ faults' = faults \cup {<<c, what>>}

\* mcp_tools_call_gate: the terms, and a reservation for the tool the request
\* seems to name.  A request that names none gets the terms alone.  One whose gate
\* does not answer goes on without, whether or not a reservation was made.
Gate(c) ==
    /\ c \in Tools /\ Stage(c, "new")
    /\ Goto(c, "gated")
    /\ LET p == PeriodOf(now) IN
        \/ /\ terms' = [terms EXCEPT ![c] = p]
           /\ \/ /\ rows' = Reserved(GateId(c), p)
                 /\ Keep(c, IF HasRoom(p) THEN GateId(c) ELSE RefusedId(c))
                 /\ UNCHANGED faults
              \/ Fault(c, "reserve") /\ Keep(c, ErrorId(c)) /\ UNCHANGED rows
              \/ UNCHANGED <<rows, slot, faults>>
        \/ /\ UNCHANGED <<terms, slot>>
           /\ \/ Fault(c, "lost gate") /\ rows' = Reserved(GateId(c), p)
              \/ Fault(c, "gate") /\ UNCHANGED rows
    /\ UNCHANGED <<now, usage, events, funnel, mails, outcome>>

\* Every refusal before the allowance (rate limit, bad arguments), and the tool
\* that turns out not to be billable: the slot is given back before the
\* response leaves.
TurnAway_Forgets(c) ==
    /\ c \in Tools /\ Stage(c, "gated")
    /\ Goto(c, "done") /\ EndAs(c, "turned_away")
    /\ UNCHANGED <<now, tables, terms, slot, faults>>
TurnAway(c) ==
    /\ c \in Tools /\ Stage(c, "gated")
    /\ Goto(c, "returning") /\ EndAs(c, "turned_away")
    /\ UNCHANGED <<now, tables, terms, slot, faults>>

\* The tool the gate guessed is the one resolved: its answer is the answer,
\* and a reservation that errored fails open.
ClaimGate(c) ==
    /\ c \in Tools /\ Stage(c, "gated") /\ slot[c] # NoId
    /\ Keep(c, IF slot[c] = GateId(c) THEN GateId(c) ELSE NoId)
    /\ IF slot[c] = RefusedId(c)
         THEN Goto(c, "recording") /\ EndAs(c, "refused")
         ELSE /\ Goto(c, IF slot[c] = GateId(c) THEN "warning" ELSE "running")
              /\ UNCHANGED outcome
    /\ UNCHANGED <<now, tables, terms, faults>>

\* It is not: the reservation goes back before another one is made.  Without an
\* answer of the gate the terms are read now.
Mismatch_Keeps(c) ==
    /\ c \in Tools /\ Stage(c, "gated")
    /\ Goto(c, "ready") /\ Keep(c, NoId)
    /\ UNCHANGED <<now, tables, terms, outcome, faults>>
Mismatch(c) ==
    /\ c \in Tools /\ Stage(c, "gated")
    /\ IF slot[c] = GateId(c)
         THEN Goto(c, "swapping") /\ UNCHANGED slot
         ELSE Goto(c, IF terms[c] = 0 THEN "loading" ELSE "ready") /\ Keep(c, NoId)
    /\ UNCHANGED <<now, tables, terms, outcome, faults>>

\* finalize_action_usage_reservation(id, false).  A failure is logged and the
\* call goes on.
Release(c, from, to) ==
    /\ Stage(c, from)
    /\ Goto(c, to)
    /\ Keep(c, NoId)
    /\ \/ rows' = rows \ RowsOf(slot[c]) /\ UNCHANGED faults
       \/ /\ RowsOf(slot[c]) # {}
          /\ Fault(c, "release") /\ UNCHANGED rows
    /\ UNCHANGED <<now, usage, events, funnel, mails, terms, outcome>>

SwapOut(c) == Release(c, "swapping", "ready")
GiveBack(c) == Release(c, "returning", "done")

\* checkAutomationAllowance, after the lease is won: nothing left pauses the
\* rule.  The cap is recorded unless some refusal of the period already was.
Exhausted(p) == Cardinality(BookedIn(p)) >= Cap

PreCheck(c) ==
    /\ c \in Runs /\ Stage(c, "new")
    /\ LET p == PeriodOf(now) IN
         IF Exhausted(p)
           THEN /\ terms' = [terms EXCEPT ![c] = p]
                /\ EndAs(c, "refused")
                /\ Goto(c, IF p \in events THEN "pausing" ELSE "recording")
           ELSE Goto(c, "loading") /\ UNCHANGED <<terms, outcome>>
    /\ UNCHANGED <<now, tables, slot, faults>>

\* reserveBillableAction of a run, and of a call without a gate, reads the terms
\* afresh; a failed read lets the action through unmetered.
LoadAllowance(c) ==
    /\ Stage(c, "loading")
    /\ \/ /\ terms' = [terms EXCEPT ![c] = PeriodOf(now)]
          /\ Goto(c, "ready") /\ UNCHANGED faults
       \/ /\ Fault(c, "allowance")
          /\ Goto(c, "running") /\ UNCHANGED terms
    /\ UNCHANGED <<now, tables, slot, outcome>>

\* reserve_action_usage with the terms in hand, however old they are.  A failed
\* round trip fails open, and what it may have stored stays till it expires.
Reserve(c) ==
    /\ Stage(c, "ready")
    /\ \/ /\ rows' = Reserved(OwnId(c), terms[c])
          /\ IF HasRoom(terms[c])
               THEN Goto(c, "warning") /\ Keep(c, OwnId(c)) /\ UNCHANGED outcome
               ELSE Goto(c, "recording") /\ EndAs(c, "refused") /\ UNCHANGED slot
          /\ UNCHANGED faults
       \/ /\ \/ Fault(c, "lost own") /\ rows' = Reserved(OwnId(c), terms[c])
             \/ Fault(c, "reserve") /\ UNCHANGED rows
          /\ Goto(c, "running") /\ Keep(c, NoId) /\ UNCHANGED outcome
    /\ UNCHANGED <<now, usage, events, funnel, mails, terms>>

\* Insert-or-ignore on (workspace, template, period); best effort.
Queue(c, template) ==
    \/ mails' = mails \cup {<<template, terms[c]>>} /\ UNCHANGED faults
    \/ Fault(c, "mail") /\ UNCHANGED mails

\* The reservation that lands in the warning band queues the 80% notice.
Warn(c) ==
    /\ Stage(c, "warning")
    /\ Goto(c, "running")
    /\ \/ Queue(c, "usage_warning_80")
       \/ UNCHANGED <<mails, faults>>
    /\ UNCHANGED <<now, rows, usage, events, funnel, terms, slot, outcome>>

\* record_usage_limit_event: the event always, the funnel row once a period;
\* only the call that wrote the funnel row goes on to the notice.
RecordRefusal_FunnelOnly(c) ==
    /\ Stage(c, "recording") /\ Goto(c, "done")
    /\ funnel' = funnel \cup {terms[c]}
    /\ UNCHANGED <<now, rows, usage, events, mails, terms, slot, outcome, faults>>
RecordRefusal(c) ==
    /\ Stage(c, "recording")
    /\ \/ /\ events' = events \cup {terms[c]}
          /\ funnel' = funnel \cup {terms[c]}
          /\ Goto(c, IF terms[c] \notin funnel THEN "mailing"
                     ELSE IF c \in Runs THEN "pausing" ELSE "done")
          /\ UNCHANGED faults
       \/ /\ Fault(c, "record")
          /\ Goto(c, IF c \in Runs THEN "pausing" ELSE "done")
          /\ \/ UNCHANGED <<events, funnel>>
             \/ events' = events \cup {terms[c]} /\ funnel' = funnel \cup {terms[c]}
    /\ UNCHANGED <<now, rows, usage, mails, terms, slot, outcome>>

MailLimit(c) ==
    /\ Stage(c, "mailing")
    /\ Goto(c, IF c \in Runs THEN "pausing" ELSE "done")
    /\ Queue(c, "usage_limit_reached")
    /\ UNCHANGED <<now, rows, usage, events, funnel, terms, slot, outcome>>

\* pauseRuleForPlanLimit, then queueAutomationPausedNotice: silent while a limit
\* notice of the period is queued, and when the allowance cannot be read again.
Pause(c) ==
    /\ Stage(c, "pausing")
    /\ Goto(c, "notifying") /\ EndAs(c, "paused")
    /\ UNCHANGED <<now, tables, terms, slot, faults>>

NotifyPaused_Trusting(c) ==
    /\ Stage(c, "notifying") /\ Goto(c, "done")
    /\ IF terms[c] \in funnel THEN UNCHANGED <<mails, faults>> ELSE Queue(c, "automation_paused_limit")
    /\ UNCHANGED <<now, rows, usage, events, funnel, terms, slot, outcome>>
NotifyPaused(c) ==
    /\ Stage(c, "notifying")
    /\ Goto(c, "done")
    /\ IF <<"usage_limit_reached", terms[c]>> \in mails
         THEN UNCHANGED <<mails, faults>>
         ELSE Queue(c, "automation_paused_limit")
    /\ UNCHANGED <<now, rows, usage, events, funnel, terms, slot, outcome>>

\* The handler's verdict; for a run also the message somebody else has claimed,
\* which owes nothing.
Run(c) ==
    /\ Stage(c, "running")
    /\ \/ \E verdict \in {"success", "error"} : EndAs(c, verdict) /\ Goto(c, "settling")
       \/ c \in Runs /\ EndAs(c, "duplicate") /\ Goto(c, "returning")
    /\ UNCHANGED <<now, tables, terms, slot, faults>>

\* writeActionUsage.
SettleUsage(c) ==
    /\ Stage(c, "settling")
    /\ Goto(c, "done")
    /\ \/ /\ slot[c] # NoId
          /\ rows' = rows \ RowsOf(slot[c])
          /\ usage' = IF outcome[c] = "success" THEN usage \cup Booked(slot[c]) ELSE usage
          /\ UNCHANGED faults
       \/ /\ slot[c] = NoId
          /\ usage' = IF outcome[c] = "success"
                        THEN usage \cup {[id |-> BareId(c), period |-> PeriodOf(now), late |-> FALSE]}
                        ELSE usage
          /\ UNCHANGED <<rows, faults>>
       \/ /\ Fault(c, "settle") /\ UNCHANGED <<rows, usage>>
    /\ UNCHANGED <<now, events, funnel, mails, terms, slot, outcome>>

\* The isolate ends between two round trips.
Crash(c) ==
    /\ pc[c] \notin {"new", "done", "gone"}
    /\ Fault(c, "crash")
    /\ Goto(c, "gone")
    /\ UNCHANGED <<now, tables, terms, slot, outcome>>

Tick ==
    /\ now < Horizon
    /\ now' = now + 1
    /\ UNCHANGED <<tables, pc, terms, slot, outcome, faults>>

CallStep(c) ==
    \/ Gate(c) \/ TurnAway(c) \/ ClaimGate(c) \/ Mismatch(c) \/ SwapOut(c) \/ GiveBack(c)
    \/ PreCheck(c) \/ LoadAllowance(c) \/ Reserve(c) \/ Warn(c) \/ RecordRefusal(c) \/ MailLimit(c)
    \/ Pause(c) \/ NotifyPaused(c) \/ Run(c) \/ SettleUsage(c) \/ Crash(c)

AllowanceNext == Tick \/ \E c \in Calls : CallStep(c)

AllowanceSpec == AllowanceInit /\ [][AllowanceNext]_allowanceVars

-----------------------------------------------------------------------------
(* Properties.                                                              *)

Ids == UNION {IdsOf(c) : c \in Calls}
Templates == {"usage_warning_80", "usage_limit_reached", "automation_paused_limit"}

AllowanceTypeOK ==
    /\ now \in 0..Horizon
    /\ rows \subseteq [id : Ids, expires : 0..(Horizon + Life + 1), under : {1, 2}, at : {1, 2}]
    /\ usage \subseteq [id : Ids, period : {1, 2}, late : BOOLEAN]
    /\ events \subseteq {1, 2} /\ funnel \subseteq events
    /\ mails \subseteq (Templates \X {1, 2})
    /\ \A c \in Calls : terms[c] \in 0..2 /\ slot[c] \in IdsOf(c) \cup {NoId, RefusedId(c), ErrorId(c)}
    /\ Cardinality(faults) <= MaxFaults

\* Booked actions of a period that no cap was asked about: the ones let through
\* while the meter failed, and the ones reserved against the last period's
\* window after the turn.
Uncapped(p) == {u \in BookedIn(p) : u.late \/ \E c \in Calls : u.id = BareId(c)}
LateRows == {r \in rows : r.under # r.at}

\* The allowance is never overshot: the booked actions of the current period
\* together with every reservation that may still become one, lapsed or not,
\* stay within the cap, however calls, expiries and the turn of the period
\* interleave (reserve_action_usage counts and inserts under one lock, and a
\* finalisation only moves a row).
CapHolds ==
    LET p == PeriodOf(now) IN
      Cardinality(BookedIn(p) \ Uncapped(p)) + Cardinality(rows \ LateRows) <= Cap

\* One call never counts twice: the gate's reservation and the call's own are
\* never both there, nor a reservation beside the action it was booked as
\* (claimGateReservation's promise).  The exceptions are a release between them that
\* failed, and a reservation that was stored but whose answer was lost: for as long
\* as it holds its slot the call counts twice.
Stray(c) == {<<c, "release">>, <<c, "lost gate">>, <<c, "lost own">>}
CountedOnce ==
    \A c \in Calls :
        Stray(c) \cap faults # {} \/
        Cardinality({r \in rows : r.id \in IdsOf(c)}) + Cardinality({u \in usage : u.id \in IdsOf(c)}) <= 1

\* What a call does not owe it does not pay: an action that was turned away,
\* refused, lost its message or failed leaves no row behind once it is done
\* (the exceptions are its own failed write).
NothingOwed ==
    \A c \in Calls :
        (pc[c] = "done" /\ outcome[c] # "success" /\ \A f \in faults : f[1] # c)
            => /\ \A u \in usage : u.id \notin IdsOf(c)
               /\ \A r \in rows : r.id \notin IdsOf(c)

\* An automation stopped by the plan limit does not stop in silence: once a rule is
\* paused, and the notice of it is not still to come, its owner has a notice of that
\* period queued, the limit notice or the rule's own, even when the call that wrote
\* the funnel row died before its mail.  The exceptions are that this invocation
\* itself died between the pause and the notice, or failed to queue it.
PausedOwnerTold ==
    \A c \in Runs :
        outcome[c] = "paused" =>
            \/ pc[c] = "notifying" \/ {<<c, "mail">>, <<c, "crash">>} \cap faults # {}
            \/ \E t \in {"usage_limit_reached", "automation_paused_limit"} : <<t, terms[c]>> \in mails

\* A call is booked at most once, and not at all for what it did not do.
CallsPayOnce == AllowanceTypeOK /\ CountedOnce /\ NothingOwed

\* Concurrent calls never overshoot the allowance, each pays once and only for what it
\* did, and who is stopped by it is told.
AllowanceHolds == CapHolds /\ CallsPayOnce /\ PausedOwnerTold

=============================================================================
