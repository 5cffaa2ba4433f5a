------------------------------ MODULE MailWatch ------------------------------
(***************************************************************************)
(* The new-mail watcher of the client API and the webhook deliveries it     *)
(* feeds (client-api/push/dispatch.ts, client-api/webhooks/deliver.ts and   *)
(* their SQL functions), for one mailbox with one webhook endpoint.         *)
(*                                                                         *)
(* pg_cron starts passes, which may overlap.  A pass leases the mailbox's   *)
(* row, compares the stored cursor with the mailbox, enqueues one delivery  *)
(* for what is new, stores the cursor, and then sends the deliveries that   *)
(* are due.  The platform may end it between any two of these steps, and a  *)
(* pass may outlive its leases.                                             *)
(*                                                                         *)
(* Time is left out: a row or a retry may be due at any moment.  Messages   *)
(* are numbered as they arrive, and the cursor is the last number it has    *)
(* seen.  An event is a pair of cursors, as its id is a hash of two, and    *)
(* has a count, which is what this module follows: which ids it lists, ten  *)
(* at most, is read from a still later list of the newest messages, and     *)
(* those need not be the ones that were counted.                            *)
(***************************************************************************)
EXTENDS Integers, FiniteSets

CONSTANTS
    Passes,              \* requests to /push/dispatch
    MaxNewMail,          \* bound: messages that arrive
    HISTORY_PAGE,        \* what one page of a Gmail history names
    MAX_ATTEMPTS,
    SEND_BATCH,
    MaxWatchFaults,      \* bound: incidents
    Nobody

ASSUME WatchAssumption ==
    /\ MaxNewMail \in Nat /\ MAX_ATTEMPTS \in Nat \ {0} /\ SEND_BATCH \in Nat \ {0}
    /\ MaxWatchFaults \in Nat /\ Nobody \notin Passes /\ HISTORY_PAGE \in Nat \ {0}

NoCursor == -1
Arrivals == {e \in (0 .. MaxNewMail) \X (0 .. MaxNewMail) : e[1] < e[2]}
Told(e) == e[1] + 1 .. e[2]      \* the messages between its two cursors
NoErrands == [e \in Arrivals |-> "none"]

VARIABLES
    landed,      \* messages in the mailbox
    enabled,     \* the endpoint's disabled_at is null
    watch,       \* inbox_watch_state: is the row there, its cursor, whose lease_id
    posting,     \* webhook_deliveries: status, attempt and lease_id of each event
    duty,        \* where each pass is
    saw, found,  \* of a check: the cursor it leased and the one it will store
    named,       \* of a check: the last message that the event will count
    errand,      \* of a send step: what is under way for each event
    outlived,    \* passes that are still running although their leases ran out
    excused,     \* history: messages the endpoint may rightly not hear of
    proper,      \* history: events enqueued by a pass that held the mailbox
    upTo,        \* history: the last message that each event counts
    watchFaults  \* incidents so far

watchVars == <<landed, enabled, watch, posting, duty, saw, found, named, errand,
               outlived, excused, proper, upTo, watchFaults>>
folder == <<landed, enabled>>
leasable == <<watch, posting>>
checks == <<saw, found, named>>
story == <<excused, proper, upTo>>
News(e) == e[1] + 1 .. upTo[e]   \* the messages an event counts

NoRow == [there |-> FALSE, cursor |-> NoCursor, holder |-> Nobody]
FreshRow == [there |-> TRUE, cursor |-> NoCursor, holder |-> Nobody]

WatchInit ==
    /\ landed = 0 /\ enabled = TRUE
    /\ watch = [there |-> TRUE, cursor |-> 0, holder |-> Nobody]
    /\ posting = [e \in Arrivals |-> [status |-> "none", attempt |-> 0, holder |-> Nobody]]
    /\ duty = [p \in Passes |-> "idle"]
    /\ saw = [p \in Passes |-> NoCursor] /\ found = saw /\ named = saw
    /\ errand = [p \in Passes |-> NoErrands]
    /\ outlived = {} /\ excused = {} /\ proper = {} /\ upTo = [e \in Arrivals |-> 0]
    /\ watchFaults = 0

Struck == watchFaults < MaxWatchFaults /\ watchFaults' = watchFaults + 1
Moves(p, from, to) == duty[p] = from /\ duty' = [duty EXCEPT ![p] = to]

\* A lease is free when nobody has it or its pass outlived it.
Vacant(holder) == holder = Nobody \/ holder \in outlived

---------------------------------------------------------------------------
(* The world.                                                              *)

MailArrives ==
    /\ landed < MaxNewMail
    /\ landed' = landed + 1
    /\ UNCHANGED <<enabled, leasable, duty, checks, errand, outlived, story, watchFaults>>

\* The owner's switch on the dashboard.
SwitchOn ==
    /\ ~enabled
    /\ enabled' = TRUE
    /\ UNCHANGED <<landed, leasable, duty, checks, errand, outlived, story, watchFaults>>

SwitchOff ==
    /\ enabled /\ Struck
    /\ enabled' = FALSE
    /\ UNCHANGED <<landed, leasable, duty, checks, errand, outlived, story>>

---------------------------------------------------------------------------
(* The check of the mailbox.                                               *)

\* sync_inbox_watch_state: the row is there exactly while somebody wants it.
Synced ==
    IF ~enabled THEN NoRow ELSE IF watch.there THEN watch ELSE FreshRow

\* lease_inbox_watches.
LeaseWatch(p) ==
    /\ \/ /\ Synced.there /\ Vacant(Synced.holder)
          /\ Moves(p, "idle", "check")
          /\ watch' = [Synced EXCEPT !.holder = p]
          /\ saw' = [saw EXCEPT ![p] = Synced.cursor]
       \/ /\ Moves(p, "idle", "send")            \* nothing is due
          /\ watch' = Synced
          /\ UNCHANGED saw
    /\ UNCHANGED <<folder, posting, found, named, errand, outlived, story, watchFaults>>

\* The mailbox could not be read, or its login was refused a moment ago, or the
\* pass has no time left for it, or the devices to notify could not be listed: the
\* cursor is kept.
CheckFails_Advances(p) ==
    /\ \E stage \in {"check", "compare", "ask"} : Moves(p, stage, "store")
    /\ found' = [found EXCEPT ![p] = landed]
    /\ UNCHANGED <<folder, leasable, saw, named, errand, outlived, story, watchFaults>>
CheckFails(p) ==
    /\ \E stage \in {"check", "compare", "ask"} : Moves(p, stage, "store")
    /\ found' = [found EXCEPT ![p] = saw[p]]
    /\ UNCHANGED <<folder, leasable, saw, named, errand, outlived, story, watchFaults>>

\* A cursor that was never stored, or not for six hours, or of a mailbox numbered
\* anew, does not tell what is new.
FirstLook(p) ==
    /\ \/ saw[p] = NoCursor /\ UNCHANGED watchFaults
       \/ saw[p] # NoCursor /\ Struck
    /\ Moves(p, "check", "store")
    /\ found' = [found EXCEPT ![p] = landed]
    /\ excused' = excused \union (1 .. landed)
    /\ UNCHANGED <<folder, leasable, saw, named, errand, outlived, proper, upTo>>

\* The probe: the cursor of now.
Probe(p) ==
    /\ saw[p] # NoCursor
    /\ Moves(p, "check", IF landed > saw[p] THEN "compare" ELSE "store")
    /\ found' = [found EXCEPT ![p] = landed]
    /\ UNCHANGED <<folder, leasable, saw, named, errand, outlived, story, watchFaults>>

\* The event will count the new messages up to n; what the cursor passes beyond n is
\* never announced.  Pushes to devices go out before the next step.
CountsUpTo(p, n) ==
    /\ Moves(p, "compare", "ask")
    /\ named' = [named EXCEPT ![p] = n]
    /\ excused' = excused \union {m \in Told(<<saw[p], found[p]>>) : m > n}
    /\ UNCHANGED <<folder, leasable, saw, found, errand, outlived, proper, upTo>>

\* counterArrival, and what detectArrival does for IMAP: how far the counters of the
\* two probes grew, which is less when a message was read or deleted meanwhile.
CountersTell(p) ==
    \E n \in saw[p] + 1 .. found[p] :
        CountsUpTo(p, n) /\ IF n < found[p] THEN Struck ELSE UNCHANGED watchFaults

\* gmailAdded, a second question to the provider: one page of what was added from the
\* stored cursor until now, which may be later than the probe.
HistoryTells(p) ==
    /\ CountsUpTo(p, IF landed < saw[p] + HISTORY_PAGE THEN landed ELSE saw[p] + HISTORY_PAGE)
    /\ UNCHANGED watchFaults

\* Neither shows the new mail, as one message came and another was read and deleted
\* between two checks, or the history is no longer kept: the cursor moves, without an event.
NothingShows(p) ==
    /\ Struck
    /\ Moves(p, "compare", "store")
    /\ excused' = excused \union Told(<<saw[p], found[p]>>)
    /\ UNCHANGED <<folder, leasable, checks, errand, outlived, proper, upTo>>

NotTold(p) == excused' = excused \union Told(<<saw[p], found[p]>>)

\* webhook_has_targets.
AskTargets(p) ==
    /\ \/ enabled /\ Moves(p, "ask", "enqueue") /\ UNCHANGED <<excused, watchFaults>>
       \/ ~enabled /\ Moves(p, "ask", "store") /\ NotTold(p) /\ UNCHANGED watchFaults
       \/ Struck /\ Moves(p, "ask", "store") /\ NotTold(p)
    /\ UNCHANGED <<folder, leasable, checks, errand, outlived, proper, upTo>>

\* webhook_enqueue_event: ON CONFLICT (endpoint_id, event_id) DO NOTHING.
Enqueued(e) ==
    IF posting[e].status = "none" THEN [posting EXCEPT ![e].status = "pending"] ELSE posting

Enqueue(p) ==
    LET e == <<saw[p], found[p]>> IN
    /\ Moves(p, "enqueue", "store")
    /\ \/ /\ enabled
          /\ posting' = Enqueued(e)
          /\ upTo' = IF posting[e].status = "none" THEN [upTo EXCEPT ![e] = named[p]] ELSE upTo
          /\ proper' = proper \union {f \in {e} : watch.holder = p}
          /\ UNCHANGED <<excused, watchFaults>>
       \/ ~enabled /\ NotTold(p) /\ UNCHANGED <<posting, proper, upTo, watchFaults>>
       \/ Struck /\ NotTold(p) /\ UNCHANGED <<posting, proper, upTo>>
    /\ UNCHANGED <<folder, watch, checks, errand, outlived>>

\* releaseWatch: by the lease, and its error is swallowed.
Releases_Anyone(p) == watch.there
Releases(p) == watch.holder = p

StoreCursor(p) ==
    /\ Moves(p, "store", "send")
    /\ \/ /\ watch' = IF Releases(p)
                      THEN [watch EXCEPT !.cursor = found[p], !.holder = Nobody] ELSE watch
          /\ UNCHANGED watchFaults
       \/ Struck /\ UNCHANGED watch
    /\ saw' = [saw EXCEPT ![p] = NoCursor] /\ found' = [found EXCEPT ![p] = NoCursor]
    /\ named' = [named EXCEPT ![p] = NoCursor]
    /\ UNCHANGED <<folder, posting, errand, outlived, story>>

---------------------------------------------------------------------------
(* The send step.                                                          *)

Claims_Again(e) == posting[e].status = "pending"
Claims(e) == posting[e].status = "pending" /\ Vacant(posting[e].holder)

\* lease_webhook_deliveries: a first attempt is due at once and comes first, a retry
\* when its time has come.  What an endpoint that is off was to get is abandoned.
LeaseDeliveries(p) ==
    LET first == {e \in Arrivals : Claims(e) /\ posting[e].attempt = 0}
        retries == {e \in Arrivals : Claims(e) /\ posting[e].attempt > 0}
    IN \E batch \in SUBSET (first \union retries) :
        /\ Cardinality(batch) <= SEND_BATCH
        /\ first \subseteq batch \/ Cardinality(batch \intersect first) = SEND_BATCH
        /\ Moves(p, "send", IF batch = {} THEN "idle"
                            ELSE IF Cardinality(batch) < SEND_BATCH THEN "last" ELSE "post")
        /\ posting' = [e \in Arrivals |->
               IF e \in batch THEN [posting[e] EXCEPT !.holder = p] ELSE posting[e]]
        /\ errand' = [errand EXCEPT ![p] = [e \in Arrivals |->
               IF e \notin batch THEN "none" ELSE IF enabled THEN "held" ELSE "drop"]]
        /\ outlived' = IF batch = {} THEN outlived \ {p} ELSE outlived
        /\ UNCHANGED <<folder, watch, checks, story, watchFaults>>

Reaches(p, e, from, to) ==
    /\ duty[p] \in {"post", "last"} /\ errand[p][e] = from
    /\ errand' = [errand EXCEPT ![p][e] = to]

\* One POST.  A refusal may hide that the receiver took the event: the retry then
\* gives it the same event id.
Post(p, e) ==
    /\ Reaches(p, e, "held", "ok") \/ Reaches(p, e, "held", "bad")
    /\ UNCHANGED <<folder, leasable, duty, checks, outlived, story, watchFaults>>

\* record_webhook_attempt: by the lease, and only while pending.
Records_Late(p, e) == posting[e].status = "pending"
Records(p, e) == posting[e].holder = p /\ posting[e].status = "pending"

Closed(e, status) ==
    [posting EXCEPT ![e] = [status |-> status, attempt |-> @.attempt, holder |-> Nobody]]

Tried(e, status) ==
    [posting EXCEPT ![e] = [status |-> status, attempt |-> @.attempt + 1, holder |-> Nobody]]

\* With the last delivery of a full batch comes another round, unless the time is
\* over; a batch that was not full is the last one.
Finishes(p) ==
    IF \E e \in Arrivals : errand'[p][e] # "none"
    THEN UNCHANGED <<duty, outlived>>
    ELSE \/ duty[p] = "post" /\ duty' = [duty EXCEPT ![p] = "send"] /\ UNCHANGED outlived
         \/ duty' = [duty EXCEPT ![p] = "idle"] /\ outlived' = outlived \ {p}

RecordSuccess(p, e) ==
    /\ Reaches(p, e, "ok", "none")
    /\ posting' = IF Records(p, e) THEN Tried(e, "delivered") ELSE posting
    /\ Finishes(p)
    /\ UNCHANGED <<folder, watch, checks, story, watchFaults>>

Switched(table) ==
    [e \in Arrivals |-> IF table[e].status = "pending"
                      THEN [status |-> "abandoned", attempt |-> table[e].attempt, holder |-> Nobody]
                      ELSE table[e]]

\* After fifty failures in a row, or a day of them, of this mailbox or of others, the
\* endpoint is switched off and what it has pending is abandoned.
RecordFailure(p, e) ==
    LET failed == Tried(e, IF posting[e].attempt + 1 = MAX_ATTEMPTS THEN "failed" ELSE "pending") IN
    /\ Reaches(p, e, "bad", "none")
    /\ \/ ~Records(p, e) /\ UNCHANGED <<enabled, posting>>
       \/ Records(p, e) /\ posting' = failed /\ UNCHANGED enabled
       \/ /\ Records(p, e) /\ enabled
          /\ posting' = Switched(failed) /\ enabled' = FALSE
    /\ Finishes(p)
    /\ UNCHANGED <<landed, watch, checks, story, watchFaults>>

\* The write failed: the delivery is taken again when its lease has run out.
ResultLost(p, e) ==
    /\ Struck
    /\ \E result \in {"ok", "bad", "drop"} : Reaches(p, e, result, "none")
    /\ Finishes(p)
    /\ UNCHANGED <<folder, leasable, checks, story>>

RecordAbandon(p, e) ==
    /\ Reaches(p, e, "drop", "none")
    /\ posting' = IF Records(p, e) THEN Closed(e, "abandoned") ELSE posting
    /\ Finishes(p)
    /\ UNCHANGED <<folder, watch, checks, story, watchFaults>>

---------------------------------------------------------------------------
(* Ends and leases.                                                        *)

PassDies(p) ==
    /\ duty[p] # "idle" /\ Struck
    /\ duty' = [duty EXCEPT ![p] = "idle"]
    /\ saw' = [saw EXCEPT ![p] = NoCursor] /\ found' = [found EXCEPT ![p] = NoCursor]
    /\ named' = [named EXCEPT ![p] = NoCursor]
    /\ errand' = [errand EXCEPT ![p] = NoErrands]
    /\ outlived' = outlived \ {p}
    /\ UNCHANGED <<folder, leasable, story>>

\* A pass is slower than its leases of two minutes.
Outlive(p) ==
    /\ duty[p] # "idle" /\ p \notin outlived /\ Struck
    /\ outlived' = outlived \union {p}
    /\ UNCHANGED <<folder, leasable, duty, checks, errand, story>>

\* A lease whose pass is no longer at it runs out.
LapseWatch ==
    /\ watch.holder # Nobody /\ duty[watch.holder] \notin {"check", "compare", "ask", "enqueue", "store"}
    /\ watch' = [watch EXCEPT !.holder = Nobody]
    /\ UNCHANGED <<folder, posting, duty, checks, errand, outlived, story, watchFaults>>

LapseDelivery(e) ==
    /\ posting[e].holder # Nobody /\ errand[posting[e].holder][e] = "none"
    /\ posting' = [posting EXCEPT ![e].holder = Nobody]
    /\ UNCHANGED <<folder, watch, duty, checks, errand, outlived, story, watchFaults>>

---------------------------------------------------------------------------
WatchNext ==
    \/ MailArrives \/ SwitchOn \/ SwitchOff \/ LapseWatch
    \/ \E e \in Arrivals : LapseDelivery(e)
    \/ \E p \in Passes :
           \/ LeaseWatch(p) \/ CheckFails(p) \/ FirstLook(p) \/ Probe(p) \/ CountersTell(p)
           \/ HistoryTells(p) \/ NothingShows(p) \/ AskTargets(p) \/ Enqueue(p) \/ StoreCursor(p) \/ LeaseDeliveries(p)
           \/ PassDies(p) \/ Outlive(p)
           \/ \E e \in Arrivals :
                  \/ Post(p, e) \/ RecordSuccess(p, e) \/ RecordFailure(p, e)
                  \/ ResultLost(p, e) \/ RecordAbandon(p, e)

WatchSpec == WatchInit /\ [][WatchNext]_watchVars

---------------------------------------------------------------------------
(* Properties.                                                             *)

Announced(m) == \E e \in Arrivals : posting[e].status # "none" /\ m \in News(e)

\* The stored cursor passes no message that was neither counted by an event nor excused:
\* the endpoint off when it was found, a first look, an arrival that the counters hid or
\* that lay beyond the first page of the history, or a failed insert.  The pass that
\* enqueues, the one that stores and the one that died between the two need not be the
\* same.
NothingSkipped ==
    \A m \in 1 .. MaxNewMail : m <= watch.cursor => m \in excused \/ Announced(m)

\* Two events of passes that held the mailbox count one message only when the first
\* one's cursor was lost, and they then start at the same cursor; or when the message
\* came between the probe and the history, and the second event begins where the first
\* one ends.
OneAnnouncement ==
    \A e, f \in proper : e # f /\ News(e) \intersect News(f) # {}
        => (e[1] = f[1] /\ watchFaults > 0) \/ e[2] = f[1] \/ f[2] = e[1]

\* A pass that is about to POST or to record holds the delivery, or has outlived its
\* lease, or the delivery was abandoned under it.
OnePoster ==
    \A p \in Passes, e \in Arrivals :
        errand[p][e] # "none" =>
            posting[e].holder = p \/ p \in outlived \/ posting[e].status = "abandoned"

\* No delivery is left pending after its last attempt, so that none is abandoned as
\* "attempts_exhausted" by the send step.
AttemptsEnd == \A e \in Arrivals : posting[e].status = "pending" => posting[e].attempt < MAX_ATTEMPTS

\* What the owner of a webhook is promised: every message that the watcher has passed
\* was counted by an event or is excused, and by one event but for an incident or the
\* next event after it; one pass at a time posts it, within the attempts.
WatchHolds == NothingSkipped /\ OneAnnouncement /\ OnePoster /\ AttemptsEnd
=============================================================================
