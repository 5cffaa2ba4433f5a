--------------------------- MODULE OutboundBrakes ---------------------------
(***************************************************************************)
(* The abuse brakes of one inbox (outbound-brakes.ts): every send asks one *)
(* SQL function, outbound_send_gate, which refuses it, holds it for a      *)
(* person, or lets it through and counts it.  The function takes a lock    *)
(* per inbox, but the time it reads, now(), is that at which its           *)
(* transaction began, before it waited for the lock: two sends may be      *)
(* decided in another order than that of their times.                      *)
(*                                                                         *)
(* A send is a tool call, or a row of scheduled_sends, which is asked for  *)
(* again until it goes out or fails.  Whether a row was counted before is  *)
(* written in its error_detail when it is put back, and a dispatcher's     *)
(* invocation knows it from the batch that it fetched, which may be older. *)
(* Time is counted in ticks of a clock that is never more than one tick    *)
(* ahead of an open transaction.                                           *)
(***************************************************************************)
EXTENDS Naturals, Integers, FiniteSets

CONSTANTS
  ToolSends, RowSends,
  Dispatchers,        \* invocations that may overlap, each followed by another
  DueAt,              \* of a row: send_at
  MessagesOf,         \* messages a send transmits (a forwarded batch has several)
  ContentOf,          \* its normalized subject and body, or NoContent
  RecipientsOf,       \* its distinct recipients
  NoContent,
  DAILY_SEND_LIMIT, FANOUT_LIMIT, REFUSAL_THRESHOLD,
  DAY,                \* the window of the daily limit
  HOUR,               \* that of the fan-out and of the refusals, and what a hold and a pause last
  BrakesHorizon, MaxBrakeFaults

Sends == ToolSends \cup RowSends

ASSUME SendsAssumption ==
  /\ ToolSends \cap RowSends = {}
  /\ IsFiniteSet(Sends)
  /\ DueAt \in [RowSends -> Nat]
  /\ MessagesOf \in [Sends -> Nat \ {0}]
  /\ \A s \in Sends : IsFiniteSet(RecipientsOf[s])

ASSUME LimitsAssumption ==
  /\ DAILY_SEND_LIMIT \in Nat /\ FANOUT_LIMIT \in Nat /\ REFUSAL_THRESHOLD \in Nat \ {0}
  /\ HOUR \in Nat \ {0} /\ DAY \in Nat /\ HOUR <= DAY

VARIABLES
  clock,
  stage,         \* of a send: "new", "asking", "held", "allowed", "noting", "sent", "failed"
  begun,         \* now() of its transaction
  askFrom,       \* of a row: send_at; of a held call, when a person approved it
  unnoted,       \* refusals of its messages that are still to be counted
  approved,      \* a person decided it: in the app, or as an approval of the inbox
  marked,        \* of a row: its error_detail says that the brake has counted it
  batch,         \* what an invocation's batch says of a row that it has still to try
  brakeCounted,  \* what the attempt at a row, this one or the last, knows of that
  misread,       \* history: since it was counted, a row was attempted from a batch older than its mark
  open,          \* history: let through because the gate could not be asked
  tally,         \* outbound_send_events: messages counted, whether purged since or not
  reached,       \* the same of recipients
  refusals,      \* the same of the provider's refusals
  keptFrom,      \* the purge has deleted the events before this
  pauseUntil, holdUntil, heldContent,  \* inbox_send_brakes
  sendsFrozen,   \* workspaces.sends_frozen_at
  pausedTill,    \* history: the latest end a pause was given
  brakeFaults

markVars == <<marked, batch, brakeCounted, misread>>
eventVars == <<tally, reached, refusals, keptFrom>>
brakeVars == <<pauseUntil, holdUntil, heldContent, pausedTill>>
brakesVars == <<clock, stage, begun, askFrom, unnoted, approved, markVars, open, eventVars, brakeVars,
                sendsFrozen, brakeFaults>>

BrakesInit ==
  /\ clock = 0
  /\ stage = [s \in Sends |-> "new"]
  /\ begun = [s \in Sends |-> 0]
  /\ askFrom = [s \in Sends |-> IF s \in RowSends THEN DueAt[s] ELSE 0]
  /\ unnoted = [s \in Sends |-> 0]
  /\ \E people \in SUBSET Sends : approved = [s \in Sends |-> s \in people]
  /\ marked = [s \in Sends |-> FALSE]
  /\ batch = [w \in Dispatchers |-> [s \in RowSends |-> "none"]]
  /\ brakeCounted = [s \in Sends |-> FALSE]
  /\ misread = [s \in Sends |-> FALSE]
  /\ open = [s \in Sends |-> FALSE]
  /\ tally = {} /\ reached = {} /\ refusals = {}
  /\ keptFrom = -1
  /\ pauseUntil = 0 /\ holdUntil = 0 /\ heldContent = NoContent
  /\ sendsFrozen = FALSE
  /\ pausedTill = 0
  /\ brakeFaults = 0

\* Whoever puts a row back writes what it knows of its being counted.
GoesTo(s, where) ==
  /\ stage' = [stage EXCEPT ![s] = where]
  /\ marked' = IF where = "new" THEN [marked EXCEPT ![s] = brakeCounted[s]] ELSE marked
BrakeFault == brakeFaults < MaxBrakeFaults /\ brakeFaults' = brakeFaults + 1

-----------------------------------------------------------------------------
(* outbound_send_gate *)

\* The condition on created_at of every window: no upper end, so that an event
\* whose time is after this transaction's own counts too.
Recent_UpToNow(at, now, span) == at > now - span /\ at <= now
Recent(at, now, span) == at > now - span
Stored(events) == {e \in events : e.at >= keptFrom}

CountedSince(now) == Cardinality({e \in Stored(tally) : Recent(e.at, now, DAY)})
ReachedBy(c, now) ==
  {e.to : e \in {d \in Stored(reached) : d.content = c /\ Recent(d.at, now, HOUR)}}
FansOut(s) == ContentOf[s] # NoContent /\ RecipientsOf[s] # {}
TooManyReached(s) ==
  /\ FansOut(s)
  /\ Cardinality(ReachedBy(ContentOf[s], begun[s]) \cup RecipientsOf[s]) > FANOUT_LIMIT

IsPaused(s) == pauseUntil > begun[s]
OverLimit(s) == CountedSince(begun[s]) + MessagesOf[s] > DAILY_SEND_LIMIT
IsHeldContent(s) == holdUntil > begun[s] /\ ContentOf[s] # NoContent /\ heldContent = ContentOf[s]
Refuses(s) == sendsFrozen \/ IsPaused(s) \/ OverLimit(s)
Holds(s) == ~Refuses(s) /\ ~approved[s] /\ (IsHeldContent(s) \/ TooManyReached(s))
Trips(s) == Holds(s) /\ ~IsHeldContent(s)
Allows(s) == ~Refuses(s) /\ ~Holds(s)

\* A tool call always counts, also when it is run again for an approval; a row unless
\* the batch it comes from says that it was counted (p_commit).
Counts_Always(s) == TRUE
Counts(s) == s \in ToolSends \/ ~brakeCounted[s]

Messages(s) ==
  {[nr |-> Cardinality(tally) + i, send |-> s, at |-> begun[s], misread |-> misread[s]] :
     i \in 1 .. MessagesOf[s]}
PeopleReached(s) ==
  IF FansOut(s)
  THEN {[content |-> ContentOf[s], to |-> r, at |-> begun[s], human |-> approved[s]] :
          r \in RecipientsOf[s]}
  ELSE {}

\* The upsert names the columns of the hold only.
TripHold(s) ==
  /\ holdUntil' = begun[s] + HOUR
  /\ heldContent' = ContentOf[s]
  /\ UNCHANGED pauseUntil

\* What the transaction writes: nothing when it refuses.
GateWrites(s) ==
  /\ IF Allows(s) /\ Counts(s)
     THEN /\ tally' = tally \cup Messages(s) /\ reached' = reached \cup PeopleReached(s)
          /\ misread' = [misread EXCEPT ![s] = FALSE]
     ELSE UNCHANGED <<tally, reached, misread>>
  /\ IF Trips(s) THEN TripHold(s) ELSE UNCHANGED <<pauseUntil, holdUntil, heldContent>>
  /\ UNCHANGED <<refusals, keptFrom, pausedTill>>

\* An invocation begins with the rows that are due, error_detail included.
FetchDue(w) ==
  /\ \A s \in RowSends : batch[w][s] = "none"
  /\ batch' = [batch EXCEPT ![w] = [s \in RowSends |->
       IF stage[s] # "new" \/ clock < askFrom[s] THEN "none" ELSE IF marked[s] THEN "counted" ELSE "plain"]]
  /\ UNCHANGED <<clock, stage, begun, askFrom, unnoted, approved, marked, brakeCounted, misread, open,
                 eventVars, brakeVars, sendsFrozen, brakeFaults>>

\* It claims one of them that is still pending.
ClaimRow(w, s) ==
  /\ batch[w][s] # "none"
  /\ batch' = [batch EXCEPT ![w][s] = "none"]
  /\ brakeCounted' = [brakeCounted EXCEPT ![s] = batch[w][s] = "counted"]
  /\ misread' = [misread EXCEPT ![s] = @ \/ (marked[s] /\ batch[w][s] = "plain")]

\* It does not get the row: it is no longer pending, or the claim fails, or the
\* invocation ends before it.
LeaveRow(w, s) ==
  /\ batch[w][s] # "none"
  /\ batch' = [batch EXCEPT ![w][s] = "none"]
  /\ UNCHANGED <<clock, stage, begun, askFrom, unnoted, approved, marked, brakeCounted, misread, open,
                 eventVars, brakeVars, sendsFrozen, brakeFaults>>

\* The transaction begins; it waits for the inbox's lock.  A held call that was approved
\* is asked for from then on.
BeginAsk(s) ==
  /\ stage[s] = "new"
  /\ clock >= askFrom[s]
  /\ \/ s \in ToolSends /\ UNCHANGED <<batch, brakeCounted, misread>>
     \/ s \in RowSends /\ \E w \in Dispatchers : ClaimRow(w, s)
  /\ GoesTo(s, "asking")
  /\ begun' = [begun EXCEPT ![s] = clock]
  /\ UNCHANGED <<clock, askFrom, unnoted, approved, open, eventVars, brakeVars, sendsFrozen, brakeFaults>>

\* What a send does not change while it is asked for.
AskStep == UNCHANGED <<clock, begun, askFrom, unnoted, approved, batch, sendsFrozen>>

LetThrough(s) ==
  /\ stage[s] = "asking"
  /\ Allows(s)
  /\ GateWrites(s)
  /\ GoesTo(s, "allowed")
  /\ brakeCounted' = [brakeCounted EXCEPT ![s] = s \in RowSends]
  /\ AskStep /\ UNCHANGED <<open, brakeFaults>>

\* Refused: nothing was sent, the key of a tool call is released and a row is put back.
\* Both may ask again.
TurnBack(s) ==
  /\ stage[s] = "asking"
  /\ Refuses(s)
  /\ GateWrites(s)
  /\ GoesTo(s, "new")
  /\ AskStep /\ UNCHANGED <<brakeCounted, open, brakeFaults>>

\* The fan-out holds a tool call for a person, or asks to retry when it cannot queue it;
\* a row is put back.
HoldBack(s) ==
  /\ stage[s] = "asking"
  /\ Holds(s)
  /\ GateWrites(s)
  /\ (s \in ToolSends /\ GoesTo(s, "held")) \/ GoesTo(s, "new")
  /\ AskStep /\ UNCHANGED <<brakeCounted, open, brakeFaults>>

\* The call fails or its answer is lost, whatever it has written: fail open.
FailOpen(s) ==
  /\ stage[s] = "asking"
  /\ BrakeFault
  /\ GateWrites(s) \/ UNCHANGED <<eventVars, brakeVars, misread>>
  /\ GoesTo(s, "allowed")
  /\ brakeCounted' = [brakeCounted EXCEPT ![s] = s \in RowSends]
  /\ open' = [open EXCEPT ![s] = TRUE]
  /\ AskStep

\* The process ends, whether the gate has written or not: the call is over, the row is
\* given up.
CallerDies(s) ==
  /\ stage[s] = "asking"
  /\ BrakeFault
  /\ GateWrites(s) \/ UNCHANGED <<eventVars, brakeVars, misread>>
  /\ GoesTo(s, "failed")
  /\ AskStep /\ UNCHANGED <<brakeCounted, open>>

\* A person approves a held send: a row is due at once that runs the call again.
ApproveHeld(s) ==
  /\ stage[s] = "held"
  /\ GoesTo(s, "new")
  /\ approved' = [approved EXCEPT ![s] = TRUE]
  /\ askFrom' = [askFrom EXCEPT ![s] = clock]
  /\ UNCHANGED <<clock, begun, unnoted, batch, brakeCounted, misread, open, eventVars, brakeVars,
                 sendsFrozen, brakeFaults>>

-----------------------------------------------------------------------------
(* The provider, and outbound_send_refusal *)

ProviderStep == UNCHANGED <<clock, askFrom, approved, batch, brakeCounted, misread, open, sendsFrozen>>

\* A message that surely was not sent is tried again while its row is not yet late; a
\* person's own call is tried again by its caller, under the key that was released.
Deferred(s) ==
  /\ s \in RowSends \/ approved[s]
  /\ MessagesOf[s] = 1
  /\ clock = askFrom[s]

\* The provider takes the messages, or it fails without a refusal.
Attempt(s) ==
  /\ stage[s] = "allowed"
  /\ GoesTo(s, "sent") \/ GoesTo(s, "failed") \/ (Deferred(s) /\ GoesTo(s, "new"))
  /\ ProviderStep /\ UNCHANGED <<begun, unnoted, eventVars, brakeVars, brakeFaults>>

\* It refuses one or more of them as spam or against its policy, and each is counted.
ProviderRefuses(s) ==
  /\ stage[s] = "allowed"
  /\ GoesTo(s, "noting")
  /\ begun' = [begun EXCEPT ![s] = clock]
  /\ \E n \in 1 .. MessagesOf[s] : unnoted' = [unnoted EXCEPT ![s] = n]
  /\ ProviderStep /\ UNCHANGED <<eventVars, brakeVars, brakeFaults>>

RecentRefusals(now) == {e \in Stored(refusals') : Recent(e.at, now, HOUR)}

\* A refusal during a pause is stored and changes nothing.  The next after it counts
\* those within the hour, and at the threshold the inbox is paused.
PausesNow_OneLater(s) ==
  ~IsPaused(s) /\ Cardinality(RecentRefusals(begun[s])) > REFUSAL_THRESHOLD
PausesNow(s) == ~IsPaused(s) /\ Cardinality(RecentRefusals(begun[s])) >= REFUSAL_THRESHOLD

RefusalWrites(s) ==
  /\ refusals' = refusals \cup {[nr |-> Cardinality(refusals), at |-> begun[s]]}
  /\ pauseUntil' = IF PausesNow(s) THEN begun[s] + HOUR ELSE pauseUntil
  /\ pausedTill' = IF PausesNow(s) /\ begun[s] + HOUR > pausedTill
                   THEN begun[s] + HOUR ELSE pausedTill
  /\ UNCHANGED <<tally, reached, keptFrom, holdUntil, heldContent>>

\* The next refusal is counted, or the send has ended: some of a batch may have gone out.
AfterRefusal(s) ==
  /\ stage[s] = "noting"
  /\ unnoted' = [unnoted EXCEPT ![s] = @ - 1]
  /\ IF unnoted[s] > 1
     THEN begun' = [begun EXCEPT ![s] = clock] /\ UNCHANGED <<stage, marked>>
     ELSE /\ UNCHANGED begun
          /\ \/ GoesTo(s, "failed")
             \/ MessagesOf[s] > 1 /\ GoesTo(s, "sent")
             \/ Deferred(s) /\ GoesTo(s, "new")
  /\ ProviderStep

NoteRefusal(s) == RefusalWrites(s) /\ AfterRefusal(s) /\ UNCHANGED brakeFaults

\* It cannot be counted: logged and treated as no pause.
NoteFails(s) == BrakeFault /\ AfterRefusal(s) /\ UNCHANGED <<eventVars, brakeVars>>

-----------------------------------------------------------------------------
(* The operator, the hourly purge, and time *)

SetFreeze ==
  /\ sendsFrozen' = ~sendsFrozen
  /\ UNCHANGED <<clock, stage, begun, askFrom, unnoted, approved, markVars, open, eventVars,
                 brakeVars, brakeFaults>>

\* What purge_outbound_send_events deletes: events of more than two days ago, and the
\* brakes' row when both have ended a day ago.
PurgeBefore_Hour(now) == now - HOUR
PurgeBefore(now) == now - 2 * DAY
BothEnded_One(now) == holdUntil < now - DAY \/ pauseUntil < now - DAY
BothEnded(now) == holdUntil < now - DAY /\ pauseUntil < now - DAY

Purge ==
  /\ PurgeBefore(clock) > keptFrom
  /\ keptFrom' = PurgeBefore(clock)
  /\ IF BothEnded(clock)
     THEN pauseUntil' = 0 /\ holdUntil' = 0 /\ heldContent' = NoContent
     ELSE UNCHANGED <<pauseUntil, holdUntil, heldContent>>
  /\ UNCHANGED <<clock, stage, begun, askFrom, unnoted, approved, markVars, open, tally, reached,
                 refusals, pausedTill, sendsFrozen, brakeFaults>>

\* No transaction stays open for more than a tick.
BrakesTick ==
  /\ clock < BrakesHorizon
  /\ \A s \in Sends : stage[s] \in {"asking", "noting"} => begun[s] = clock
  /\ clock' = clock + 1
  /\ UNCHANGED <<stage, begun, askFrom, unnoted, approved, markVars, open, eventVars, brakeVars,
                 sendsFrozen, brakeFaults>>

SendStep(s) ==
  \/ BeginAsk(s) \/ LetThrough(s) \/ TurnBack(s) \/ HoldBack(s) \/ FailOpen(s)
  \/ CallerDies(s) \/ ApproveHeld(s) \/ Attempt(s) \/ ProviderRefuses(s) \/ NoteRefusal(s) \/ NoteFails(s)

BrakesNext ==
  \/ \E s \in Sends : SendStep(s)
  \/ \E w \in Dispatchers : FetchDue(w) \/ \E s \in RowSends : LeaveRow(w, s)
  \/ SetFreeze \/ Purge \/ BrakesTick

BrakesSpec == BrakesInit /\ [][BrakesNext]_brakesVars

-----------------------------------------------------------------------------
(* Properties *)

Between(events, at, span) == {d \in events : d.at <= at /\ d.at > at - span}

\* In no rolling day does the inbox count more messages than its limit, and in no
\* rolling hour does one content reach more people than its own without a person's
\* decision, although the gate's time is that of a transaction which may have waited
\* while a later one was decided.
DailyCeiling ==
  \A e \in tally : Cardinality(Between(tally, e.at, DAY)) <= DAILY_SEND_LIMIT
Unasked(c) == {e \in reached : e.content = c /\ ~e.human}
FanoutCeiling ==
  \A e \in reached : ~e.human =>
    Cardinality({d.to : d \in Between(Unasked(e.content), e.at, HOUR)}) <= FANOUT_LIMIT

\* Whatever leaves was counted, all of it, unless the gate could not be asked.  A row
\* that is put back again and again is counted once, and again only after an attempt of
\* an invocation that had fetched it before it was marked as counted (an approved tool
\* call asks the gate itself each time it is run again).
ChargesOf(s) == {e \in tally : e.send = s}
SendsAreCharged ==
  \A s \in Sends :
    /\ stage[s] = "sent" /\ ~open[s] => Cardinality(ChargesOf(s)) >= MessagesOf[s]
    /\ s \in RowSends => Cardinality({e \in ChargesOf(s) : ~e.misread}) <= MessagesOf[s]
    /\ s \in ToolSends /\ ~approved[s] => Cardinality(ChargesOf(s)) <= MessagesOf[s]

\* What the daily limit and the fan-out promise.
BrakesHold == DailyCeiling /\ FanoutCeiling /\ SendsAreCharged

\* As many refusals within an hour as it takes have paused the inbox, and until the
\* pause ends nothing is let through: neither the other brake nor the purge ends it.
RefusalsPause ==
  \A e \in refusals :
    Cardinality(Between(refusals, e.at, HOUR)) >= REFUSAL_THRESHOLD => pausedTill > e.at - HOUR
PauseStands ==
  \A s \in Sends : LetThrough(s) => begun[s] >= pausedTill
PausesHold == []RefusalsPause /\ [][PauseStands]_brakesVars
=============================================================================
