--------------------------- MODULE TriageDispatch ---------------------------
(***************************************************************************)
(* Automations: rules that act unattended on the mail of one inbox.         *)
(*                                                                          *)
(*   mcp-server/triage-engine.ts   handleTriageDispatch and runTriageRule   *)
(*   mcp-server/index.ts           triageStore, the queries they make       *)
(*                                                                          *)
(* pg_cron starts invocations every minute, up to four at once.  A rule is  *)
(* leased by a compare-and-set, a message is claimed before it is acted on, *)
(* and a lease older than ten minutes is swept.  An invocation lives for    *)
(* less than that, so only a lease that nobody holds any more goes stale.   *)
(* Every store call is one step.                                            *)
(***************************************************************************)
EXTENDS Integers, FiniteSets, Sequences

CONSTANTS
    Invocations,     \* calls of /triage-dispatch; a finished one may come again
    Rules,           \* all on one inbox
    Movers,          \* those whose action takes the message out of the inbox
    MaxMail,         \* messages, numbered as they arrive
    MaxPerRun,       \* max_messages_per_run
    MaxIncidents     \* invocations that die and store calls that fail (bound)

ASSUME TriageAssumption ==
    /\ Movers \subseteq Rules
    /\ Invocations \cap {"free", "dead", "stale"} = {}
    /\ MaxMail \in Nat /\ MaxPerRun \in Nat \ {0} /\ MaxIncidents \in Nat

Mail == 1 .. MaxMail

VARIABLES
    lease,      \* running_since: who holds the rule
    due,        \* enabled, next_run_at has come and no pause is in force
    seen,       \* triage_seen_messages
    inboxMail,  \* messages that match
    arrived,    \* how many have arrived
    at,         \* where each invocation stands
    listed,     \* rules it has still to try
    running,    \* the rule it holds
    todo,       \* matches still to do
    tried,      \* history: message and rule, handed to the provider, or refused to
                \* be, since the mark was last purged
    twice,      \* history: handed to the provider again before a purge of the mark
    incidents

ruleRows == <<lease, due>>
mailbox == <<inboxMail, arrived>>
positions == <<at, listed, running, todo>>
history == <<tried, twice>>
triageVars == <<ruleRows, seen, mailbox, positions, history, incidents>>

\* A lease that nobody living holds is "dead", and "stale" after ten minutes.
Free == "free"
NoRule == "none"

TriageInit ==
    /\ lease = [r \in Rules |-> Free] /\ due = [r \in Rules |-> FALSE]
    /\ seen = [r \in Rules |-> {}]
    /\ inboxMail = {} /\ arrived = 0
    /\ at = [i \in Invocations |-> "idle"] /\ listed = [i \in Invocations |-> {}]
    /\ running = [i \in Invocations |-> NoRule]
    /\ todo = [i \in Invocations |-> {}]
    /\ tried = {} /\ twice = {}
    /\ incidents = 0

Rule(i) == running[i]
Turn(i, p) == at' = [at EXCEPT ![i] = p]
\* Done with its rule, on to the next.
GoOn(i, p) == Turn(i, p) /\ running' = [running EXCEPT ![i] = NoRule]
\* No longer there.
Leave(i) ==
    /\ GoOn(i, "idle")
    /\ listed' = [listed EXCEPT ![i] = {}] /\ todo' = [todo EXCEPT ![i] = {}]
Hold(r, h) == lease' = [lease EXCEPT ![r] = h]
Incident == incidents < MaxIncidents /\ incidents' = incidents + 1
Smooth == UNCHANGED incidents
\* A store call that works, or one that fails (and may have worked all the same).
MayFail(works, fails) == (works /\ Smooth) \/ (fails /\ Incident)

-----------------------------------------------------------------------------
(* The sweep.                                                               *)

\* dispatch_triage_rules: a request only when something is due or stale.
Fire(i) ==
    /\ at[i] = "idle"
    /\ \E r \in Rules : (lease[r] = Free /\ due[r]) \/ lease[r] = "stale"
    /\ Turn(i, "sweep")
    /\ UNCHANGED <<ruleRows, seen, mailbox, listed, running, todo, history, incidents>>

\* listStaleLeases, then for each its open runs and its lease.  A sweep that
\* fails is abandoned.
ListStale(i) ==
    /\ at[i] = "sweep"
    /\ MayFail(listed' = [listed EXCEPT ![i] = {r \in Rules : lease[r] = "stale"}], UNCHANGED listed)
    /\ Turn(i, "stale")
    /\ UNCHANGED <<ruleRows, seen, mailbox, running, todo, history>>

\* A lease that became somebody's again in the meantime is left alone; a failing
\* update goes unnoticed.
FreeStale(i) ==
    /\ at[i] = "stale"
    /\ \E r \in listed[i] :
        /\ listed' = [listed EXCEPT ![i] = @ \ {r}]
        /\ MayFail(Hold(r, IF lease[r] = "stale" THEN Free ELSE lease[r]), UNCHANGED lease)
    /\ UNCHANGED <<due, seen, mailbox, at, running, todo, history>>

ListDue(i) ==
    /\ at[i] = "stale" /\ listed[i] = {}
    /\ listed' = [listed EXCEPT ![i] = {r \in Rules : lease[r] = Free /\ due[r]}]
    /\ Turn(i, "look")
    /\ UNCHANGED <<ruleRows, seen, mailbox, running, todo, history, incidents>>

-----------------------------------------------------------------------------
(* One rule after the other: look, claim, look again.                       *)

Held(r) == \E q \in Rules \ {r} : lease[q] # Free
Drop(i, r) == listed' = [listed EXCEPT ![i] = @ \ {r}]

\* Out of rules, or out of time.
Finish(i) ==
    /\ at[i] = "look" /\ Leave(i)
    /\ UNCHANGED <<ruleRows, seen, mailbox, history, incidents>>

Look(i) ==
    /\ at[i] = "look"
    /\ \E r \in listed[i] :
        /\ Drop(i, r)
        /\ \/ Held(r) /\ GoOn(i, "look")
           \/ ~Held(r) /\ Turn(i, "claim") /\ running' = [running EXCEPT ![i] = r]
    /\ UNCHANGED <<ruleRows, seen, mailbox, todo, history, incidents>>

\* The compare-and-set repeats every condition of the list.
ClaimRule(i) ==
    /\ at[i] = "claim"
    /\ LET r == Rule(i)
           free == lease[r] = Free /\ due[r]
       IN  \/ free /\ Hold(r, i) /\ Turn(i, "look again") /\ UNCHANGED running /\ Smooth
           \/ ~free /\ UNCHANGED lease /\ GoOn(i, "look") /\ Smooth
           \/ Incident /\ GoOn(i, "look") /\ (UNCHANGED lease \/ (free /\ Hold(r, "dead")))
    /\ UNCHANGED <<due, seen, mailbox, listed, todo, history>>

\* Of two claims on one inbox, the one that looks second sees the other.
LookAgain_Trusting(i) ==
    /\ at[i] = "look again" /\ Turn(i, "allowance")
    /\ UNCHANGED <<ruleRows, seen, mailbox, listed, running, todo, history, incidents>>
LookAgain(i) ==
    /\ at[i] = "look again"
    /\ Turn(i, IF Held(Rule(i)) THEN "abandon" ELSE "allowance")
    /\ UNCHANGED <<ruleRows, seen, mailbox, listed, running, todo, history, incidents>>

Abandon(i) ==
    /\ at[i] = "abandon"
    /\ MayFail(Hold(Rule(i), Free), Hold(Rule(i), "dead"))
    /\ GoOn(i, "look")
    /\ UNCHANGED <<due, seen, mailbox, listed, todo, history>>

-----------------------------------------------------------------------------
(* runTriageRule                                                            *)

\* checkAllowance; the row of the run that is written next is only read by people.
StartRun(i) ==
    /\ at[i] = "allowance"
    /\ Turn(i, "pause") \/ Turn(i, "search")
    /\ UNCHANGED <<ruleRows, seen, mailbox, listed, running, todo, history, incidents>>

\* The newest matches, seen before or not.
Newest(S) == {m \in S : Cardinality({n \in S : n > m}) < MaxPerRun}

\* Authority, inbox, filter, search and destination can each fail the run.
Search(i) ==
    /\ at[i] = "search"
    /\ \/ Turn(i, "message") /\ todo' = [todo EXCEPT ![i] = Newest(inboxMail)] /\ Smooth
       \/ Turn(i, "fail") /\ UNCHANGED todo /\ Smooth
    /\ UNCHANGED <<ruleRows, seen, mailbox, listed, running, history>>

\* The deadline and the allowance, before the message is claimed.
NextMessage_ClaimsFirst(i) ==
    /\ at[i] = "message" /\ todo[i] # {}
    /\ Turn(i, "claim message") \/ Turn(i, "stop") \/ Turn(i, "pause")
    /\ seen' = [seen EXCEPT ![Rule(i)] = @ \cup todo[i]]
    /\ UNCHANGED <<ruleRows, mailbox, listed, running, todo, history, incidents>>
NextMessage(i) ==
    /\ at[i] = "message" /\ todo[i] # {}
    /\ Turn(i, "claim message") \/ Turn(i, "stop") \/ Turn(i, "pause")
    /\ UNCHANGED <<ruleRows, seen, mailbox, listed, running, todo, history, incidents>>

Current(i) == CHOOSE m \in todo[i] : \A n \in todo[i] : m >= n
Done(i) == todo' = [todo EXCEPT ![i] = @ \ {Current(i)}]
Try(i) == tried' = tried \cup {<<Rule(i), Current(i)>>}

\* A failing claim counts as somebody else's; it may have been stored.
ClaimMessage_Blind(i) ==
    /\ at[i] = "claim message" /\ seen' = [seen EXCEPT ![Rule(i)] = @ \cup {Current(i)}]
    /\ Turn(i, "act") /\ UNCHANGED <<todo, tried, ruleRows, mailbox, listed, running, twice, incidents>>
ClaimMessage(i) ==
    /\ at[i] = "claim message"
    /\ LET mark == seen' = [seen EXCEPT ![Rule(i)] = @ \cup {Current(i)}]
           new == Current(i) \notin seen[Rule(i)]
       IN  \/ new /\ mark /\ Turn(i, "act") /\ UNCHANGED <<todo, tried>> /\ Smooth
           \/ ~new /\ Turn(i, "message") /\ Done(i) /\ UNCHANGED <<seen, tried>> /\ Smooth
           \/ Incident /\ Turn(i, "message") /\ Done(i)
              /\ (UNCHANGED <<seen, tried>> \/ (new /\ mark /\ Try(i)))
    /\ UNCHANGED <<ruleRows, mailbox, listed, running, twice>>

\* The provider acts or refuses.
Act(i) ==
    /\ at[i] = "act"
    /\ Try(i) /\ Done(i) /\ Turn(i, "message")
    /\ twice' = IF <<Rule(i), Current(i)>> \in tried THEN twice \cup {<<Rule(i), Current(i)>>} ELSE twice
    /\ inboxMail' \in {inboxMail, IF Rule(i) \in Movers THEN inboxMail \ {Current(i)} ELSE inboxMail}
    /\ UNCHANGED <<ruleRows, seen, arrived, listed, running, incidents>>

Settle(i) ==
    /\ at[i] = "message" /\ todo[i] = {}
    /\ Turn(i, "settle") \/ Turn(i, "fail")
    /\ UNCHANGED <<ruleRows, seen, mailbox, listed, running, todo, history, incidents>>

\* releaseRule, by id alone; the log has the errors.  Out of time, the rule is due
\* again at once.
Endings == {"settle", "fail", "stop", "pause"}

ReleaseRule(i) ==
    /\ at[i] \in Endings
    /\ MayFail(Hold(Rule(i), Free) /\ due' = [due EXCEPT ![Rule(i)] = at[i] = "stop"],
               Hold(Rule(i), "dead") /\ UNCHANGED due)
    /\ GoOn(i, "look") /\ todo' = [todo EXCEPT ![i] = {}]
    /\ UNCHANGED <<seen, mailbox, listed, tried, twice>>

-----------------------------------------------------------------------------
(* The world around it.                                                     *)

InvocationDies(i) ==
    /\ at[i] # "idle" /\ Incident
    /\ lease' = [r \in Rules |-> IF lease[r] = i THEN "dead" ELSE lease[r]]
    /\ tried' = IF at[i] = "act" THEN tried \cup {<<Rule(i), Current(i)>>} ELSE tried
    /\ Leave(i)
    /\ UNCHANGED <<due, seen, mailbox, twice>>

Arrive ==
    /\ arrived < MaxMail
    /\ arrived' = arrived + 1 /\ inboxMail' = inboxMail \cup {arrived + 1}
    /\ UNCHANGED <<ruleRows, seen, positions, history, incidents>>

\* The interval passes, or the pause ends.
FallDue(r) ==
    /\ ~due[r] /\ due' = [due EXCEPT ![r] = TRUE]
    /\ UNCHANGED <<lease, seen, mailbox, positions, history, incidents>>

\* Ten minutes.
LeaseAges(r) ==
    /\ lease[r] = "dead" /\ Hold(r, "stale")
    /\ UNCHANGED <<due, seen, mailbox, positions, history, incidents>>

\* The cron job triage-seen-retention: marks of ninety days ago, whether or not the
\* message still matches.  No invocation is that old, so none is at such a message.
PurgeMark(r) ==
    \E m \in seen[r] :
        /\ ~\E i \in Invocations : at[i] = "act" /\ Rule(i) = r /\ Current(i) = m
        /\ seen' = [seen EXCEPT ![r] = @ \ {m}] /\ tried' = tried \ {<<r, m>>}
        /\ UNCHANGED <<ruleRows, mailbox, positions, twice, incidents>>

InvocationStep(i) ==
    \/ ListStale(i) \/ FreeStale(i) \/ ListDue(i) \/ Finish(i) \/ Look(i)
    \/ ClaimRule(i) \/ LookAgain(i) \/ Abandon(i) \/ StartRun(i) \/ Search(i) \/ NextMessage(i)
    \/ ClaimMessage(i) \/ Act(i) \/ Settle(i) \/ ReleaseRule(i)

TriageNext ==
    \/ \E i \in Invocations : Fire(i) \/ InvocationStep(i) \/ InvocationDies(i)
    \/ Arrive
    \/ \E r \in Rules : FallDue(r) \/ LeaseAges(r) \/ PurgeMark(r)

TriageSpec == TriageInit /\ [][TriageNext]_triageVars

-----------------------------------------------------------------------------
(* Properties.                                                              *)

AtWork == {"allowance", "search", "message", "claim message", "act"}

\* One mailbox, one scheduled run at a time: whatever rules are claimed at once,
\* never two runs on the inbox.
OneRunPerInbox == \A i, j \in Invocations : at[i] \in AtWork /\ at[j] \in AtWork => i = j

\* As long as its mark is kept, no message is handed to the provider twice for one
\* rule, across overlapping invocations, deaths, sweeps and runs that find it again.
\* Ninety days later the mark is purged, and a rule that leaves its messages where
\* they are (a label, a draft, a forward) acts again on one that still matches.
OncePerMark == twice = {}

\* A message that is marked as seen was handed to the provider, is about to be,
\* or was lost to an incident: a run that is paused or out of time leaves what it
\* did not get to for a later run.
ClaimedIsTried ==
    \A r \in Rules : \A m \in seen[r] :
        <<r, m>> \in tried \/ \E i \in Invocations : at[i] = "act" /\ Rule(i) = r /\ Current(i) = m

\* One run at a time, one action per message and mark, and none marked for nothing.
TriageHolds == OneRunPerInbox /\ OncePerMark /\ ClaimedIsTried

=============================================================================
