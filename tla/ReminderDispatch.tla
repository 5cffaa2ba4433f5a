-------------------------- MODULE ReminderDispatch --------------------------
(***************************************************************************)
(* Reminders on one inbox: a snooze moves a message to a folder and brings  *)
(* it back, a follow-up watches for a reply.                                *)
(*                                                                          *)
(*   mcp-server/reminders-engine.ts   the dispatcher and createSnooze       *)
(*   mcp-server/index.ts              remindersStore and the reminder tools *)
(*                                                                          *)
(* pg_cron starts one sweeper a minute.  A sweeper that takes longer meets  *)
(* the next one, and both meet the calls that snooze, cancel or finish a    *)
(* reminder.  All of them lease the row with a token and write under it; a  *)
(* lease older than ten minutes is released.  Every store or provider call  *)
(* is one step.                                                             *)
(***************************************************************************)
EXTENDS Integers, FiniteSets

CONSTANTS
    Snoozes,       \* messages that may be snoozed, each with its row
    FollowUps,     \* rows of kind follow_up
    Sweepers,      \* invocations of /reminders-dispatch; a finished one may come again
    Callers,       \* tool calls: each makes one and is over
    MaxMishaps     \* failures, deaths and overlapping sweepers (bound)

ASSUME ReminderAssumption ==
    /\ Snoozes \cap FollowUps = {} /\ Sweepers \cap Callers = {}
    /\ (Sweepers \cup Callers) \cap {"nobody", "dead", "stale"} = {}
    /\ MaxMishaps \in Nat

VARIABLES
    unlocatable,   \* snoozes without a Message-ID, on a server that reports moved ids
    status,    \* "none": there is no row
    holder,    \* of the lease
    check,     \* next_check_at: "now", "later" or "never"
    knows,     \* message_ref has the id the message got when it moved
    folder,    \* messages that wait in the snooze folder
    told,      \* messages whose owner was told that they are stuck there
    misled,    \* messages the provider moved although the move was reported as failed
    sweep,     \* where each sweeper stands
    rows,      \* rows it goes through
    verdict,   \* the row it has acted on and what it is about to write
    call,      \* where each caller stands
    about,     \* the row it is about
    oldRef,    \* it read the row when the moved id was not yet there
    mishaps

reminderRows == <<unlocatable, status, holder, check, knows>>
mailboxes == <<folder, told, misled>>
sweepers == <<sweep, rows, verdict>>
calls == <<call, about, oldRef>>
reminderVars == <<reminderRows, mailboxes, sweepers, calls, mishaps>>

Reminders == Snoozes \cup FollowUps
OpenStatuses == {"pending", "due"}
ActiveStatuses == OpenStatuses \cup {"failed"}
Ended == {"replied", "returned", "done", "cancelled"}
Nobody == "nobody"
\* A lease that nobody living holds is "dead", and "stale" after ten minutes.
NoRow == "no row"
NoWrite == [row |-> NoRow, status |-> "none", check |-> "never"]

ReminderInit ==
    /\ unlocatable \in SUBSET Snoozes
    /\ status = [r \in Reminders |-> IF r \in Snoozes THEN "none" ELSE "pending"]
    /\ holder = [r \in Reminders |-> Nobody]
    /\ check = [r \in Reminders |-> "later"]
    /\ knows = [s \in Snoozes |-> FALSE]
    /\ folder = {} /\ told = {} /\ misled = {}
    /\ sweep = [w \in Sweepers |-> "idle"] /\ rows = [w \in Sweepers |-> {}]
    /\ verdict = [w \in Sweepers |-> NoWrite]
    /\ call = [c \in Callers |-> "ready"] /\ about = [c \in Callers |-> NoRow]
    /\ oldRef = [c \in Callers |-> FALSE]
    /\ mishaps = 0

Mishap == mishaps < MaxMishaps /\ mishaps' = mishaps + 1
WellDone == UNCHANGED mishaps
\* A call that works, or one that fails.
OrFails(works, fails) == (works /\ WellDone) \/ (fails /\ Mishap)

IsOpen(r) == status[r] \in OpenStatuses
IsDueNow(r) == IsOpen(r) /\ holder[r] = Nobody /\ check[r] = "now"
HeldByOther(w) == \E r \in Reminders : holder[r] \notin {Nobody, w}
GoTo(w, step) == sweep' = [sweep EXCEPT ![w] = step]
Take(R, x) == holder' = [r \in Reminders |-> IF r \in R THEN x ELSE holder[r]]
SweepersOnly == UNCHANGED <<mailboxes, calls>>

-----------------------------------------------------------------------------
(* Bringing a message back: by the id it is known to have, or by looking    *)
(* for its Message-ID in the snooze folder.                                 *)

\* <<where it is afterwards, what is reported>>.  "gone" only when a search ran
\* and was empty; with no search the error is one to retry.
Returns_OnAGuess(s, known) ==
    IF s \in folder /\ (known \/ s \notin unlocatable) THEN {<<"inbox", "back">>} ELSE {<<"same", "gone">>}
Returns(s, known) ==
    CASE s \in folder /\ (known \/ s \notin unlocatable) -> {<<"inbox", "back">>}
      [] s \notin folder /\ s \notin unlocatable -> {<<"same", "gone">>}
      [] OTHER -> {<<"same", "error">>}
\* A provider that fails, or that moves the message and does not say so: the search
\* that follows finds the folder empty.
ReturnsBadly(s, known) ==
    {<<"same", "error">>}
    \cup (IF <<"inbox", "back">> \in Returns(s, known) THEN {<<"inbox", "error">>} ELSE {})
    \cup (IF <<"inbox", "back">> \in Returns(s, known) /\ s \notin unlocatable THEN {<<"inbox", "gone">>} ELSE {})

BringBack(s, known, report) ==
    \E where \in {"inbox", "same"} :
        /\ OrFails(<<where, report>> \in Returns(s, known), <<where, report>> \in ReturnsBadly(s, known))
        /\ folder' = IF where = "inbox" THEN folder \ {s} ELSE folder
        /\ UNCHANGED <<told, misled>>

-----------------------------------------------------------------------------
(* The sweeper: runRemindersDispatch                                        *)

\* dispatch_reminders posts when something is due or stale; an invocation that
\* takes longer than a minute meets the next.
Wake(w) ==
    /\ sweep[w] = "idle"
    /\ \E r \in Reminders : IsDueNow(r) \/ holder[r] = "stale"
    /\ GoTo(w, "stale")
    /\ IF \E v \in Sweepers : sweep[v] # "idle" THEN Mishap ELSE WellDone
    /\ UNCHANGED <<reminderRows, rows, verdict>> /\ SweepersOnly

ReleaseStale_None(w) ==
    /\ sweep[w] = "stale" /\ GoTo(w, "look") /\ WellDone
    /\ UNCHANGED <<reminderRows, rows, verdict>> /\ SweepersOnly
ReleaseStale(w) ==
    /\ sweep[w] = "stale"
    /\ OrFails(Take({r \in Reminders : holder[r] = "stale"}, Nobody), UNCHANGED holder)
    /\ GoTo(w, "look")
    /\ UNCHANGED <<unlocatable, status, check, knows, rows, verdict>> /\ SweepersOnly

\* listDue names the inboxes, and then comes the first look.
LookFirst(w) ==
    /\ sweep[w] = "look"
    /\ LET worthwhile == (\E r \in Reminders : IsDueNow(r)) /\ ~HeldByOther(w)
       IN  OrFails(GoTo(w, IF worthwhile THEN "candidates" ELSE "idle"), GoTo(w, "idle"))
    /\ UNCHANGED <<reminderRows, rows, verdict>> /\ SweepersOnly

\* What is due, and the follow-ups that will be within ten minutes.
Candidates(w) ==
    /\ sweep[w] = "candidates"
    /\ \E early \in SUBSET {r \in FollowUps : IsOpen(r) /\ holder[r] = Nobody /\ check[r] = "later"} :
        rows' = [rows EXCEPT ![w] = {r \in Reminders : IsDueNow(r)} \cup early]
    /\ GoTo(w, IF rows'[w] = {} THEN "idle" ELSE "claim")
    /\ UNCHANGED <<reminderRows, verdict, mishaps>> /\ SweepersOnly

\* The compare-and-set.  An answer that is lost leaves the rows leased.
ClaimInbox(w) ==
    /\ sweep[w] = "claim"
    /\ LET won == {r \in rows[w] : IsOpen(r) /\ holder[r] = Nobody}
       IN  \/ /\ rows' = [rows EXCEPT ![w] = won] /\ Take(won, w) /\ WellDone
              /\ GoTo(w, IF won = {} THEN "idle" ELSE "look again")
           \/ /\ rows' = [rows EXCEPT ![w] = {}] /\ GoTo(w, "idle")
              /\ Take(won, "dead") \/ UNCHANGED holder
              /\ Mishap
    /\ UNCHANGED <<unlocatable, status, check, knows, verdict>> /\ SweepersOnly

\* A failing look counts as a collision.
CheckCollision_Trusting(w) ==
    /\ sweep[w] = "look again" /\ GoTo(w, "act") /\ WellDone
    /\ UNCHANGED <<reminderRows, rows, verdict>> /\ SweepersOnly
CheckCollision(w) ==
    /\ sweep[w] = "look again"
    /\ OrFails(GoTo(w, IF HeldByOther(w) THEN "give back" ELSE "act"), GoTo(w, "give back"))
    /\ UNCHANGED <<reminderRows, rows, verdict>> /\ SweepersOnly

\* Row by row, after a collision or when the time is up.
GiveBack(w) ==
    /\ sweep[w] = "give back"
    /\ \E r \in rows[w] :
        /\ rows' = [rows EXCEPT ![w] = @ \ {r}]
        /\ OrFails(Take({r} \cap {q \in Reminders : holder[q] = w}, Nobody), Take({r}, "dead"))
    /\ GoTo(w, IF rows'[w] = {} THEN "idle" ELSE "give back")
    /\ UNCHANGED <<unlocatable, status, check, knows, verdict>> /\ SweepersOnly

TimeIsUp(w) ==
    /\ sweep[w] = "act" /\ rows[w] # {}
    /\ GoTo(w, "give back") /\ Mishap
    /\ UNCHANGED <<reminderRows, rows, verdict>> /\ SweepersOnly

Decide(w, r, st, ch) == verdict' = [verdict EXCEPT ![w] = [row |-> r, status |-> st, check |-> ch]]

\* Brought back, kept away because a reply came, or unreadable; any other failure
\* leaves the snooze open for a later attempt.
ActOnSnooze(w) ==
    /\ sweep[w] = "act"
    /\ \E s \in rows[w] \cap Snoozes :
        \/ BringBack(s, knows[s], "back") /\ Decide(w, s, "returned", "never")
        \/ BringBack(s, knows[s], "gone") /\ Decide(w, s, "done", "never")
        \/ BringBack(s, knows[s], "error") /\ Decide(w, s, status[s], "later")
        \/ Decide(w, s, "replied", "never") /\ UNCHANGED mailboxes /\ WellDone
        \/ Decide(w, s, "failed", "never") /\ UNCHANGED mailboxes /\ Mishap
    /\ GoTo(w, "write")
    /\ UNCHANGED <<reminderRows, rows, calls>>

\* release, under the token.  One that fails is logged.
ReleaseWith(w, r, st, ch) ==
    /\ LET mine == holder[r] = w
       IN  \/ /\ mine /\ WellDone /\ Take({r}, Nobody)
              /\ status' = [status EXCEPT ![r] = st] /\ check' = [check EXCEPT ![r] = ch]
           \/ ~mine /\ WellDone /\ UNCHANGED <<holder, status, check>>
           \/ mine /\ Mishap /\ Take({r}, "dead") /\ UNCHANGED <<status, check>>
    /\ rows' = [rows EXCEPT ![w] = @ \ {r}]
    /\ GoTo(w, IF rows'[w] = {} THEN "idle" ELSE "act")
    /\ verdict' = [verdict EXCEPT ![w] = NoWrite]
    /\ UNCHANGED <<unlocatable, knows>> /\ SweepersOnly

WriteOutcome(w) ==
    /\ sweep[w] = "write"
    /\ ReleaseWith(w, verdict[w].row, verdict[w].status, verdict[w].check)

\* A follow-up whose key is gone or whose workspace may not, or what a reply check
\* or the last of several failures comes to.  The check only reads.
FollowUpOutcomes(r) ==
    {<<"cancelled", "never">>, <<status[r], "later">>, <<"replied", "never">>,
     <<"due", "later">>, <<"due", "never">>, <<"failed", "never">>}

CheckFollowUp(w) ==
    /\ sweep[w] = "act"
    /\ \E r \in rows[w] \cap FollowUps : \E o \in FollowUpOutcomes(r) : ReleaseWith(w, r, o[1], o[2])

SweeperDies(w) ==
    /\ sweep[w] # "idle" /\ Mishap
    /\ holder' = [r \in Reminders |-> IF holder[r] = w THEN "dead" ELSE holder[r]]
    /\ GoTo(w, "idle")
    /\ rows' = [rows EXCEPT ![w] = {}] /\ verdict' = [verdict EXCEPT ![w] = NoWrite]
    /\ UNCHANGED <<unlocatable, status, check, knows>> /\ SweepersOnly

SweeperStep(w) ==
    /\ sweep[w] # "idle"
    /\ \/ ReleaseStale(w) \/ LookFirst(w) \/ Candidates(w) \/ ClaimInbox(w)
       \/ CheckCollision(w) \/ GiveBack(w) \/ TimeIsUp(w)
       \/ CheckFollowUp(w) \/ ActOnSnooze(w) \/ WriteOutcome(w)

-----------------------------------------------------------------------------
(* reminder_snooze: createSnooze                                            *)

CallersOnly == UNCHANGED sweepers
Reply(c, step) == call' = [call EXCEPT ![c] = step]
\* What a call knows is of no use when it is over.
SameCall(c) ==
    /\ about' = IF call'[c] = "over" THEN [about EXCEPT ![c] = NoRow] ELSE about
    /\ oldRef' = IF call'[c] = "over" THEN [oldRef EXCEPT ![c] = FALSE] ELSE oldRef

\* The row first, leased; an open one of the same message refuses it.
InsertLeased(c) ==
    /\ call[c] = "ready"
    /\ \E s \in Snoozes :
        /\ status[s] = "none" /\ s \notin folder
        /\ status' = [status EXCEPT ![s] = "pending"] /\ check' = [check EXCEPT ![s] = "later"]
        /\ knows' = [knows EXCEPT ![s] = FALSE]
        /\ \/ Take({s}, c) /\ Reply(c, "move") /\ about' = [about EXCEPT ![c] = s] /\ WellDone
           \/ Take({s}, "dead") /\ Reply(c, "over") /\ UNCHANGED about /\ Mishap
    /\ UNCHANGED <<unlocatable, mailboxes, oldRef>> /\ CallersOnly

\* A move that is reported as failed may have happened.
Move(c) ==
    /\ call[c] = "move"
    /\ \/ /\ folder' = folder \cup {about[c]} /\ Reply(c, "save") /\ WellDone /\ UNCHANGED misled
       \/ /\ Reply(c, "delete") /\ Mishap
          /\ \/ UNCHANGED <<folder, misled>>
             \/ folder' = folder \cup {about[c]} /\ misled' = misled \cup {about[c]}
    /\ UNCHANGED <<reminderRows, told>> /\ SameCall(c) /\ CallersOnly

Mine(c) == status[about[c]] # "none" /\ holder[about[c]] = c

\* The moved id and the end of the lease, under the token.
SaveMoved(c) ==
    /\ call[c] = "save"
    /\ LET s == about[c]
           saved == Mine(c) /\ knows' = [knows EXCEPT ![s] = TRUE] /\ Take({s}, Nobody)
           otherwise == IF s \in unlocatable THEN "undo" ELSE "over"
       IN  \/ saved /\ Reply(c, "over") /\ WellDone
           \/ ~Mine(c) /\ UNCHANGED <<knows, holder>> /\ Reply(c, otherwise) /\ WellDone
           \/ saved /\ Reply(c, otherwise) /\ Mishap
           \/ Mine(c) /\ UNCHANGED knows /\ Reply(c, otherwise) /\ Mishap
              /\ holder' = [holder EXCEPT ![s] = IF otherwise = "over" THEN "dead" ELSE c]
    /\ UNCHANGED <<unlocatable, status, check, mailboxes>> /\ SameCall(c) /\ CallersOnly

\* Nothing could name the message later: move it back, or say where it is.
UndoMove(c) ==
    /\ call[c] = "undo"
    /\ LET s == about[c]
       IN  \/ BringBack(s, TRUE, "back") /\ Reply(c, "delete") /\ UNCHANGED reminderRows
           \/ /\ \E report \in {"gone", "error"} :
                    OrFails(<<"same", report>> \in Returns(s, TRUE), <<"same", report>> \in ReturnsBadly(s, TRUE))
              /\ told' = told \cup {s} /\ UNCHANGED <<folder, misled>>
              /\ Reply(c, "over") /\ UNCHANGED <<unlocatable, status, check, knows>>
              /\ Take({s} \cap {r \in Reminders : holder[r] = c}, "dead")
    /\ SameCall(c) /\ CallersOnly

\* deleteRow, under the token.
DeleteRow(c) ==
    /\ call[c] = "delete" /\ Reply(c, "over")
    /\ LET s == about[c]
       IN  \/ Mine(c) /\ status' = [status EXCEPT ![s] = "none"] /\ Take({s}, Nobody) /\ WellDone
           \/ ~Mine(c) /\ UNCHANGED <<status, holder>> /\ WellDone
           \/ Mine(c) /\ Take({s}, "dead") /\ UNCHANGED status /\ Mishap
    /\ UNCHANGED <<unlocatable, check, knows, mailboxes>> /\ SameCall(c) /\ CallersOnly

-----------------------------------------------------------------------------
(* reminder_done and reminder_cancel                                        *)

\* loadReminderForChange
LoadForChange(c) ==
    /\ call[c] = "ready"
    /\ \E r \in Reminders :
        /\ status[r] \in ActiveStatuses
        /\ about' = [about EXCEPT ![c] = r]
        /\ \/ Reply(c, "finish") /\ UNCHANGED oldRef
           \/ r \in Snoozes /\ Reply(c, "lease") /\ oldRef' = [oldRef EXCEPT ![c] = ~knows[r]]
    /\ UNCHANGED <<reminderRows, mailboxes, mishaps>> /\ CallersOnly

\* Done, for either kind, or a cancelled follow-up; a leased row is busy.
FinishReminder_Rude(c) ==
    /\ call[c] = "finish" /\ Reply(c, "over") /\ WellDone
    /\ LET r == about[c]
       IN  \E st \in {"done"} \cup (IF r \in FollowUps THEN {"cancelled"} ELSE {}) :
            /\ status' = [status EXCEPT ![r] = st] /\ check' = [check EXCEPT ![r] = "never"]
    /\ UNCHANGED <<unlocatable, holder, knows, mailboxes>> /\ SameCall(c) /\ CallersOnly
FinishReminder(c) ==
    /\ call[c] = "finish" /\ Reply(c, "over") /\ WellDone
    /\ LET r == about[c]
           free == status[r] \in ActiveStatuses /\ holder[r] = Nobody
       IN  \/ \E st \in {"done"} \cup (IF r \in FollowUps THEN {"cancelled"} ELSE {}) :
                /\ free
                /\ status' = [status EXCEPT ![r] = st] /\ check' = [check EXCEPT ![r] = "never"]
           \/ ~free /\ UNCHANGED <<status, check>>
    /\ UNCHANGED <<unlocatable, holder, knows, mailboxes>> /\ SameCall(c) /\ CallersOnly

\* The lease the sweeper takes.  An answer that is lost leaves it taken.
LeaseForCancel(c) ==
    /\ call[c] = "lease"
    /\ LET r == about[c]
           free == status[r] \in ActiveStatuses /\ holder[r] = Nobody
       IN  \/ free /\ Take({r}, c) /\ Reply(c, "bring back") /\ WellDone
           \/ ~free /\ UNCHANGED holder /\ Reply(c, "over") /\ WellDone
           \/ free /\ Take({r}, "dead") /\ Reply(c, "over") /\ Mishap
    /\ UNCHANGED <<unlocatable, status, check, knows, mailboxes>> /\ SameCall(c) /\ CallersOnly

\* With the reference as it was read before the lease.
CancelBringsBack(c) ==
    /\ call[c] = "bring back"
    /\ \/ \E report \in {"back", "gone"} : BringBack(about[c], ~oldRef[c], report) /\ Reply(c, "cancelled")
       \/ BringBack(about[c], ~oldRef[c], "error") /\ Reply(c, "not cancelled")
    /\ UNCHANGED reminderRows /\ SameCall(c) /\ CallersOnly

\* The release; whether it worked is not looked at.
CancelReleases(c) ==
    /\ call[c] \in {"cancelled", "not cancelled"} /\ Reply(c, "over")
    /\ LET s == about[c]
       IN  \/ /\ Mine(c) /\ WellDone /\ Take({s}, Nobody)
              /\ status' = IF call[c] = "cancelled" THEN [status EXCEPT ![s] = "cancelled"] ELSE status
              /\ check' = IF call[c] = "cancelled" THEN [check EXCEPT ![s] = "never"] ELSE check
           \/ ~Mine(c) /\ WellDone /\ UNCHANGED <<holder, status, check>>
           \/ Mine(c) /\ Mishap /\ Take({s}, "dead") /\ UNCHANGED <<status, check>>
    /\ UNCHANGED <<unlocatable, knows, mailboxes>> /\ SameCall(c) /\ CallersOnly

CallerDies(c) ==
    /\ call[c] \notin {"ready", "over"} /\ Mishap
    /\ Reply(c, "over")
    /\ holder' = [r \in Reminders |-> IF holder[r] = c THEN "dead" ELSE holder[r]]
    /\ UNCHANGED <<unlocatable, status, check, knows, mailboxes>> /\ SameCall(c) /\ CallersOnly

CallerStep(c) ==
    /\ call[c] \notin {"ready", "over"}
    /\ \/ Move(c) \/ SaveMoved(c) \/ UndoMove(c) \/ DeleteRow(c) \/ FinishReminder(c)
       \/ LeaseForCancel(c) \/ CancelBringsBack(c) \/ CancelReleases(c)

-----------------------------------------------------------------------------
(* Time, and the owner of the mailbox.                                      *)

\* The time of a snooze, of a check or of another attempt; a reconnected inbox
\* only makes it come earlier.
ComesDue(r) ==
    /\ status[r] # "none" /\ check[r] = "later"
    /\ check' = [check EXCEPT ![r] = "now"]
    /\ UNCHANGED <<unlocatable, status, holder, knows, mailboxes, sweepers, calls, mishaps>>

\* Ten minutes pass.
HolderAges(r) ==
    /\ holder[r] = "dead" /\ Take({r}, "stale")
    /\ UNCHANGED <<unlocatable, status, check, knows, mailboxes, sweepers, calls, mishaps>>

\* The owner moves the message back.
OwnerMoves(s) ==
    /\ s \in folder /\ folder' = folder \ {s}
    /\ UNCHANGED <<reminderRows, told, misled, sweepers, calls, mishaps>>

ReminderNext ==
    \/ \E w \in Sweepers : Wake(w) \/ SweeperStep(w) \/ SweeperDies(w)
    \/ \E c \in Callers : InsertLeased(c) \/ LoadForChange(c) \/ CallerStep(c) \/ CallerDies(c)
    \/ \E r \in Reminders : ComesDue(r) \/ HolderAges(r)
    \/ \E s \in Snoozes : OwnerMoves(s)

\* pg_cron keeps firing, what is not killed goes on, time passes.
ReminderFairness ==
    /\ \A w \in Sweepers : WF_reminderVars(Wake(w) \/ SweeperStep(w))
    /\ WF_reminderVars(\E c \in Callers : CallerStep(c))
    /\ \A s \in Snoozes : WF_reminderVars(ComesDue(s))
    /\ WF_reminderVars(\E r \in Reminders : HolderAges(r))

ReminderSpec == ReminderInit /\ [][ReminderNext]_reminderVars /\ ReminderFairness

-----------------------------------------------------------------------------
(* Properties.                                                              *)

\* One session per inbox: of the sweepers whose claims crossed, at most one acts.
OneSession ==
    \A w, v \in Sweepers : sweep[w] \in {"act", "write"} /\ sweep[v] \in {"act", "write"} => w = v

Watched(s) ==
    \/ status[s] \in ActiveStatuses \cup {"done", "replied"}
    \/ s \in told

\* A message in the snooze folder has a row that will bring it back or that its
\* owner closed, or the owner was told where it is: through deaths, lost answers,
\* undone moves and crossing calls.  (A move that is reported as failed and happened
\* is the exception: see NeverHidden.)
KnownWhileHidden == \A s \in folder \ misled : Watched(s)

\* "Mail is never hidden with nothing that knows about it."
NeverHidden == \A s \in folder : Watched(s)

\* A reminder that has ended stays as it ended, whoever was still at work on it.
EndedStays == [][\A r \in Reminders : status[r] \in Ended => status'[r] = status[r]]_status

\* A snoozed message that can be found comes back, whoever dies on the way, unless
\* the reminder ends otherwise or its reference cannot be read.
ComesBack ==
    \A s \in Snoozes :
        (s \in folder \ unlocatable /\ status[s] = "pending") ~> (s \notin folder \/ status[s] # "pending")

\* A reminder ends once, and a snoozed message that can be found comes back.
RemindersEnd == EndedStays /\ ComesBack

=============================================================================
