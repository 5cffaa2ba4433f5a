------------------------------ MODULE ImapPool ------------------------------
(***************************************************************************)
(* The in-isolate pool of IMAP connections of the client API               *)
(* (client-api/imap-pool.ts), for one key: an inbox and its credentials.   *)
(*                                                                         *)
(* One checkout is one call of ImapPool.checkout.  JavaScript runs a       *)
(* checkout without interruption from one await to the next, so an action  *)
(* is such a stretch; "thread" names a checkout whose loop went round      *)
(* without an await, and which nothing may interrupt.                      *)
(***************************************************************************)
EXTENDS Naturals, FiniteSets

CONSTANTS
  Checkouts,   \* natural numbers; of one request's checkouts the smaller comes first
  FlowOf,      \* the operation a checkout belongs to
  SeqOf,       \* when its request arrived (QueueOrder.seq)
  ClassOf,     \* "interactive", "normal" or "background" (QueueOrder.cls)
  MaxPerKey,   \* opts.maxPerKey
  Conns,       \* names for connections
  NoOne, NoFlow, NoConn

ASSUME CheckoutsAssumption ==
  /\ Checkouts \subseteq Nat
  /\ NoOne \notin Checkouts
  /\ \A c \in Checkouts : /\ SeqOf[c] \in Nat
                           /\ ClassOf[c] \in {"interactive", "normal", "background"}
                           /\ FlowOf[c] # NoFlow
ASSUME PoolAssumption == MaxPerKey \in Nat \ {0} /\ NoConn \notin Conns

VARIABLES
  state, client, flow, live, waiters, handoff, \* the Entry, field by field
  holder,   \* the checkout whose generation is the entry's: nobody else's release counts
  old,      \* the lease is older than maxLeaseMs
  mapped,   \* #entries holds this entry
  refused,  \* #refused holds an unexpired login refusal
  closed,   \* #closed
  thread,   \* the checkout that is running, between two awaits
  pc,       \* where a checkout is
  conn,     \* the pooled connection behind a checkout's handle
  late      \* the checkouts whose waitMs are over

entryVars == <<state, client, flow, live, holder, old>>
queueVars == <<waiters, handoff>>
poolVars == <<mapped, refused, closed>>
callVars == <<pc, conn, late>>
vars == <<entryVars, queueVars, poolVars, callVars, thread>>

\* Inside #acquire: the checkouts that entry.pending counts.
Working == {"loop", "validate", "dial", "overdial", "wait"}
\* With a handle: on the pooled connection, on a counted overflow connection,
\* on an uncounted connection that was dialled while the pool closed.
Holding == {"held", "over", "loose"}

TypeOK ==
  /\ state \in {"empty", "dialing", "idle", "leased"}
  /\ client \in Conns \cup {NoConn}
  /\ flow \in {FlowOf[c] : c \in Checkouts} \cup {NoFlow}
  /\ live \in 0 .. MaxPerKey
  /\ waiters \subseteq Checkouts
  /\ handoff \in Checkouts \cup {NoOne}
  /\ holder \in Checkouts \cup {NoOne}
  /\ thread \in Checkouts \cup {NoOne}
  /\ old \in BOOLEAN /\ mapped \in BOOLEAN /\ refused \in BOOLEAN /\ closed \in BOOLEAN
  /\ pc \in [Checkouts -> {"new", "done"} \cup Working \cup Holding]
  /\ conn \in [Checkouts -> Conns \cup {NoConn}]
  /\ late \subseteq Checkouts

Init ==
  /\ state = "empty" /\ client = NoConn /\ flow = NoFlow /\ live = 0
  /\ waiters = {} /\ handoff = NoOne /\ holder = NoOne /\ old = FALSE
  /\ mapped = FALSE /\ refused = FALSE /\ closed = FALSE
  /\ thread = NoOne
  /\ pc = [c \in Checkouts |-> "new"]
  /\ conn = [c \in Checkouts |-> NoConn]
  /\ late = {}

-----------------------------------------------------------------------------
(* The queue: nextInQueue, #wake and #wait.                                *)

Before(a, b) == SeqOf[a] < SeqOf[b] \/ (SeqOf[a] = SeqOf[b] /\ a < b)
First(S) == CHOOSE a \in S : \A b \in S \ {a} : Before(a, b)
Interactive(S) == {a \in S : ClassOf[a] = "interactive"}

\* First come, first served, except that an interactive request goes ahead
\* of a background one.
NextInQueue(S) ==
  IF ClassOf[First(S)] = "background" /\ Interactive(S) # {}
  THEN First(Interactive(S))
  ELSE First(S)

MyTurn(c) ==
  IF handoff = NoOne
  THEN waiters = {} \/ NextInQueue(waiters \cup {c}) = c
  ELSE handoff = c

\* #wake.  The next in the queue resumes, and the entry is reserved for it;
\* p is pc with the caller's own move made.
Wake(p) ==
  IF waiters = {}
  THEN handoff' = NoOne /\ pc' = p /\ UNCHANGED waiters
  ELSE LET next == NextInQueue(waiters) IN
       /\ handoff' = next
       /\ waiters' = waiters \ {next}
       /\ pc' = [p EXCEPT ![next] = "loop"]
To(c, l) == [pc EXCEPT ![c] = l]
Goto(c, l) == pc' = To(c, l)

\* A deadline matters inside the loop only.
Deadlines == late' = {c \in late : pc'[c] \in Working \ {"overdial"}}

Runs(c) == pc[c] = "loop" /\ thread \in {NoOne, c}
Yield == thread' = NoOne
\* The loop goes round without an await.
GoOn(c) == thread' = c

-----------------------------------------------------------------------------
(* The entry.                                                              *)

\* A connection nobody holds, or room for one.
Free == state = "idle" \/ (state = "empty" /\ live < MaxPerKey)

\* A change of the pooled slot that bumps entry.generation.
Slot(s, k, f, h) == state' = s /\ client' = k /\ flow' = f /\ holder' = h /\ old' = FALSE
EmptySlot == Slot("empty", NoConn, NoFlow, NoOne)
Owns_Unchecked(c) == client # NoConn
Owns(c) == holder = c /\ client = conn[c]
Unused(k) == k # client /\ \A c \in Checkouts : conn[c] # k

\* #forget: an entry that nothing uses leaves the map.
ForgetIfUnused_Pending == mapped' = (mapped /\ ~(live' = 0 /\ state' = "empty"))
ForgetIfUnused ==
  mapped' = (mapped /\ ~(/\ live' = 0
                         /\ state' = "empty"
                         /\ \A c \in Checkouts : pc'[c] \notin Working))

\* #dropPooled, up to its #wake
Drop == EmptySlot /\ live' = live - 1

-----------------------------------------------------------------------------
(* checkout, and the loop of #acquire.                                     *)

\* checkout, up to its call of #acquire
Arrive(c) ==
  /\ pc[c] = "new" /\ thread = NoOne
  /\ \A d \in Checkouts : d < c /\ SeqOf[d] = SeqOf[c] => pc[d] # "new"
  /\ \/ closed /\ Goto(c, "done") /\ Yield /\ UNCHANGED mapped
     \/ ~closed /\ refused /\ Goto(c, "done") /\ Yield /\ UNCHANGED mapped
     \/ ~closed /\ ~refused /\ Goto(c, "loop") /\ GoOn(c) /\ mapped' = TRUE
  /\ UNCHANGED <<entryVars, queueVars, refused, closed, conn, late>>

\* Queued behind the login that was just refused: everyone is told.
Refuse_Alone(c) ==
  /\ Runs(c) /\ state = "empty" /\ refused
  /\ handoff' = IF handoff = c THEN NoOne ELSE handoff
  /\ Goto(c, "done") /\ UNCHANGED waiters
  /\ Deadlines /\ Yield
  /\ UNCHANGED <<entryVars, refused, closed, conn>>
  /\ ForgetIfUnused
Refuse(c) ==
  /\ Runs(c) /\ state = "empty" /\ refused
  /\ handoff' = IF handoff = c THEN NoOne ELSE handoff
  /\ waiters' = {}
  /\ pc' = [d \in Checkouts |-> IF d = c THEN "done" ELSE IF d \in waiters THEN "loop" ELSE pc[d]]
  /\ Deadlines /\ Yield
  /\ UNCHANGED <<entryVars, refused, closed, conn>>
  /\ ForgetIfUnused

GetsPastRefusal(c) == Runs(c) /\ ~(state = "empty" /\ refused)

\* The idle connection is taken at once, or after a NOOP when it idled long.
TakeIdle(c) ==
  /\ GetsPastRefusal(c) /\ MyTurn(c) /\ state = "idle"
  /\ handoff' = NoOne
  /\ Slot("leased", client, FlowOf[c], c)
  /\ conn' = [conn EXCEPT ![c] = client]
  /\ \E l \in {"held", "validate"} : Goto(c, l)
  /\ Deadlines /\ Yield
  /\ UNCHANGED <<live, waiters, poolVars>>

\* The idle connection turns out to be dead: dropped, and round again.
TakeDead(c) ==
  /\ GetsPastRefusal(c) /\ MyTurn(c) /\ state = "idle"
  /\ Drop /\ Wake(pc) /\ GoOn(c)
  /\ UNCHANGED <<poolVars, conn, late>>

\* The NOOP is answered; the lease may have been reclaimed in the meantime.
Validated(c) ==
  /\ pc[c] = "validate" /\ thread = NoOne
  /\ IF holder = c
     THEN Goto(c, "held") /\ Yield /\ UNCHANGED conn
     ELSE Goto(c, "loop") /\ GoOn(c) /\ conn' = [conn EXCEPT ![c] = NoConn]
  /\ UNCHANGED <<entryVars, queueVars, poolVars>>
  /\ Deadlines

ValidationFails(c) ==
  /\ pc[c] = "validate" /\ thread = NoOne
  /\ conn' = [conn EXCEPT ![c] = NoConn]
  /\ IF Owns(c)
     THEN Drop /\ Wake(To(c, "loop"))
     ELSE Goto(c, "loop") /\ UNCHANGED <<entryVars, queueVars>>
  /\ GoOn(c)
  /\ UNCHANGED <<poolVars, late>>

Dial(c) ==
  /\ GetsPastRefusal(c) /\ MyTurn(c) /\ state = "empty" /\ live < MaxPerKey
  /\ handoff' = NoOne
  /\ Slot("dialing", NoConn, FlowOf[c], c)
  /\ live' = live + 1
  /\ Goto(c, "dial") /\ Yield
  /\ UNCHANGED <<waiters, poolVars, conn, late>>

\* The login is refused, or the dial fails in another way.
DialFails(c) ==
  /\ pc[c] = "dial" /\ thread = NoOne
  /\ live' = live - 1
  /\ IF holder = c THEN EmptySlot ELSE UNCHANGED <<state, client, flow, holder, old>>
  /\ Wake(To(c, "done"))
  /\ refused' \in {refused, TRUE}
  /\ Deadlines /\ Yield
  /\ UNCHANGED <<closed, conn>>
  /\ ForgetIfUnused

\* The pool was closed, or the slot reclaimed: the connection is the caller's.
DialedLate(c) ==
  /\ pc[c] = "dial" /\ thread = NoOne
  /\ closed \/ holder # c
  /\ live' = live - 1
  /\ Goto(c, "loose") /\ Yield
  /\ UNCHANGED <<state, client, flow, holder, old, queueVars, refused, closed, conn>>
  /\ ForgetIfUnused
  /\ Deadlines

Outranked_Never(c) == FALSE
Outranked(c) == waiters # {} /\ NextInQueue(waiters \cup {c}) # c

Dialed(c) ==
  /\ pc[c] = "dial" /\ thread = NoOne
  /\ ~closed /\ holder = c /\ ~Outranked(c)
  /\ LET k == CHOOSE k \in Conns : Unused(k) IN
       /\ k \in Conns /\ Unused(k)
       /\ Slot("leased", k, FlowOf[c], c)
       /\ conn' = [conn EXCEPT ![c] = k]
  /\ Goto(c, "held") /\ Yield
  /\ UNCHANGED <<live, queueVars, poolVars>>
  /\ Deadlines

\* Someone who outranks c queued up while it dialled and gets the connection
\* first, unless it has died by now; c takes its place in line.
HandOver(c) ==
  /\ pc[c] = "dial" /\ thread = NoOne
  /\ ~closed /\ holder = c /\ Outranked(c)
  /\ \/ LET k == CHOOSE k \in Conns : Unused(k) IN
          k \in Conns /\ Unused(k) /\ Slot("idle", k, NoFlow, NoOne) /\ UNCHANGED live
     \/ Drop
  /\ Wake(To(c, "loop")) /\ GoOn(c)
  /\ UNCHANGED <<poolVars, conn, late>>

\* Not c's turn, or nothing to take.  A reservation c cannot use is given up,
\* and what is free goes to whoever it is for.
Blocked(c) == GetsPastRefusal(c) /\ ~(MyTurn(c) /\ Free)
PassOn(c, l) ==
  LET waiting == IF l = "wait" THEN waiters \cup {c} ELSE waiters IN
  IF ~MyTurn(c) /\ handoff = NoOne /\ Free
  THEN LET next == NextInQueue(waiters) IN
       /\ handoff' = next
       /\ waiters' = waiting \ {next}
       /\ pc' = [To(c, l) EXCEPT ![next] = "loop"]
  ELSE /\ handoff' = IF handoff = c THEN NoOne ELSE handoff
       /\ waiters' = waiting
       /\ Goto(c, l)

SameFlow(c) == flow = FlowOf[c]
Leaked(c) == ~SameFlow(c) /\ state = "leased" /\ old

\* A lease older than maxLeaseMs is presumed leaked: its connection is
\* destroyed and the slot is free again.
Reclaim(c) ==
  /\ Blocked(c) /\ Leaked(c)
  /\ Drop /\ Wake(pc) /\ GoOn(c)
  /\ UNCHANGED <<poolVars, conn, late>>

\* An operation that holds the pooled connection and needs a second one, or
\* has waited long enough, dials one beside the pool.
Overflow_Unbounded(c) ==
  /\ Blocked(c) /\ ~Leaked(c) /\ (SameFlow(c) \/ c \in late)
  /\ PassOn(c, "overdial")
  /\ live' = live + 1
  /\ Deadlines /\ Yield
  /\ UNCHANGED <<state, client, flow, holder, old, poolVars, conn>>
Overflow(c) ==
  /\ Blocked(c) /\ ~Leaked(c) /\ (SameFlow(c) \/ c \in late) /\ live < MaxPerKey
  /\ PassOn(c, "overdial")
  /\ live' = live + 1
  /\ Deadlines /\ Yield
  /\ UNCHANGED <<state, client, flow, holder, old, poolVars, conn>>

\* ImapPoolBusyError
Busy(c) ==
  /\ Blocked(c) /\ ~Leaked(c) /\ c \in late /\ live = MaxPerKey
  /\ PassOn(c, "done")
  /\ Deadlines /\ Yield
  /\ UNCHANGED <<entryVars, refused, closed, conn>>
  /\ ForgetIfUnused

Wait(c) ==
  /\ Blocked(c) /\ ~Leaked(c) /\ c \notin late /\ ~(SameFlow(c) /\ live < MaxPerKey)
  /\ PassOn(c, "wait")
  /\ Yield
  /\ UNCHANGED <<entryVars, poolVars, conn, late>>

\* The timer of #wait, set to the end of waitMs.
Timer_Never(c) == FALSE
Timer(c) ==
  /\ pc[c] = "wait" /\ c \in late /\ thread = NoOne
  /\ handoff' = IF handoff = c THEN NoOne ELSE handoff
  /\ waiters' = waiters \ {c}
  /\ Goto(c, "loop")
  /\ UNCHANGED <<entryVars, poolVars, conn, late, thread>>

OverflowFails_Leaks(c) ==
  /\ pc[c] = "overdial" /\ thread = NoOne
  /\ Wake(To(c, "done"))
  /\ refused' \in {refused, TRUE}
  /\ UNCHANGED <<entryVars, closed, conn, late, thread>>
  /\ ForgetIfUnused
OverflowFails(c) ==
  /\ pc[c] = "overdial" /\ thread = NoOne
  /\ live' = live - 1
  /\ Wake(To(c, "done"))
  /\ refused' \in {refused, TRUE}
  /\ UNCHANGED <<state, client, flow, holder, old, closed, conn, late, thread>>
  /\ ForgetIfUnused

OverflowDialed(c) ==
  /\ pc[c] = "overdial" /\ thread = NoOne
  /\ Goto(c, "over")
  /\ UNCHANGED <<entryVars, queueVars, poolVars, conn, late, thread>>

-----------------------------------------------------------------------------
(* The handle a caller gets: logout and destroy.                           *)

\* #returnPooled by a holder whose lease was reclaimed does nothing; a
\* tainted, busy or dead connection is dropped; a sound one becomes idle, or
\* is logged out when the pool is closing.
ReleaseStale(c) ==
  /\ pc[c] = "held" /\ thread = NoOne
  /\ ~Owns(c)
  /\ Goto(c, "done") /\ conn' = [conn EXCEPT ![c] = NoConn]
  /\ UNCHANGED <<entryVars, queueVars, poolVars, late, thread>>

ReleaseDropped(c) ==
  /\ pc[c] = "held" /\ thread = NoOne
  /\ Owns(c)
  /\ Drop /\ Wake(To(c, "done"))
  /\ conn' = [conn EXCEPT ![c] = NoConn]
  /\ UNCHANGED <<refused, closed, late, thread>>
  /\ ForgetIfUnused

Release(c) ==
  /\ pc[c] = "held" /\ thread = NoOne
  /\ Owns(c)
  /\ IF closed THEN Drop ELSE Slot("idle", client, NoFlow, NoOne) /\ UNCHANGED live
  /\ Wake(To(c, "done"))
  /\ conn' = [conn EXCEPT ![c] = NoConn]
  /\ UNCHANGED <<poolVars, late, thread>>

\* The handle of an overflow connection, and of one dialled as the pool closed
ReleaseOverflow(c) ==
  /\ pc[c] \in {"over", "loose"} /\ thread = NoOne
  /\ live' = IF pc[c] = "over" THEN live - 1 ELSE live
  /\ Wake(To(c, "done"))
  /\ UNCHANGED <<state, client, flow, holder, old, poolVars, conn, late, thread>>

-----------------------------------------------------------------------------
(* Timers, and the isolate shutting down.                                  *)

\* idleTtlMs are over, or another inbox's connection needs the room (#trimIdle)
Evict ==
  /\ state = "idle" /\ thread = NoOne
  /\ EmptySlot /\ live' = live - 1
  /\ Wake(pc)
  /\ UNCHANGED <<refused, closed, conn, late, thread>>
  /\ ForgetIfUnused

LeaseAges ==
  /\ state = "leased" /\ ~old /\ thread = NoOne
  /\ old' = TRUE
  /\ UNCHANGED <<state, client, flow, live, holder, queueVars, poolVars, callVars, thread>>

\* waitMs are over, whatever c is doing
RunsLate(c) ==
  /\ pc[c] \in Working \ {"overdial"} /\ c \notin late
  /\ late' = late \cup {c}
  /\ UNCHANGED <<entryVars, queueVars, poolVars, pc, conn, thread>>

RefusalExpires ==
  /\ refused /\ thread = NoOne
  /\ refused' = FALSE
  /\ UNCHANGED <<entryVars, queueVars, mapped, closed, callVars, thread>>

CloseAll ==
  /\ ~closed /\ thread = NoOne
  /\ closed' = TRUE
  /\ IF state = "idle" THEN EmptySlot /\ live' = live - 1 ELSE UNCHANGED entryVars
  /\ Wake(pc)
  /\ mapped' = (mapped /\ live' # 0)
  /\ UNCHANGED <<refused, conn, late, thread>>

-----------------------------------------------------------------------------
Resume(c) ==
  /\ Runs(c)
  /\ \/ Refuse(c) \/ TakeIdle(c) \/ TakeDead(c) \/ Dial(c)
     \/ Reclaim(c) \/ Overflow(c) \/ Busy(c) \/ Wait(c)
Answered(c) ==
  /\ pc[c] \in {"validate", "dial", "overdial"} /\ thread = NoOne
  /\ \/ OverflowDialed(c) \/ Validated(c) \/ DialedLate(c) \/ Dialed(c)
     \/ HandOver(c) \/ ValidationFails(c) \/ DialFails(c) \/ OverflowFails(c)
GiveBack(c) == ReleaseStale(c) \/ ReleaseDropped(c) \/ Release(c) \/ ReleaseOverflow(c)

Next ==
  \/ \E c \in Checkouts :
       Arrive(c) \/ Resume(c) \/ Answered(c) \/ Timer(c) \/ RunsLate(c) \/ GiveBack(c)
  \/ Evict \/ LeaseAges \/ RefusalExpires \/ CloseAll

Spec == Init /\ [][Next]_vars

\* The isolate runs something that is ready, dials and NOOPs end, time passes
\* and timers fire.  Nobody has to return a handle, and no lease has to age.
Fairness ==
  /\ WF_vars(\E c \in Checkouts : Timer(c) \/ Answered(c) \/ Resume(c))
  /\ WF_vars(\E c \in Checkouts : RunsLate(c))
FairSpec == Spec /\ Fairness

-----------------------------------------------------------------------------
(* Properties.                                                             *)

\* Rule 2: a connection is behind one handle at a time, and an idle one
\* behind none, so that no two operations interleave on it.
ExclusiveLease ==
  /\ \A c, d \in Checkouts : conn[c] # NoConn /\ conn[c] = conn[d] => c = d
  /\ state \in {"idle", "empty", "dialing"} => \A c \in Checkouts : conn[c] = NoConn \/ conn[c] # client

\* Rule 6: entry.live is the number of connections of this inbox that are
\* open or being opened, so that the bound it is compared with means
\* something.  A connection dialled while the pool closed is not counted.
LiveIsCounted ==
  live = (IF client = NoConn THEN 0 ELSE 1)
         + Cardinality({c \in Checkouts : pc[c] \in {"dial", "overdial", "over"}})

\* "a free connection never sits beside a sleeping waiter": when something is
\* free and a checkout sleeps, the entry is reserved for one that is awake.
NobodySleepsBesideFree ==
  thread = NoOne /\ Free /\ waiters # {} => handoff # NoOne /\ pc[handoff] = "loop"

\* An entry in use is in the map: a second entry for the same inbox would be
\* a second pooled connection.
EntryStaysMapped ==
  ~closed /\ (live > 0 \/ \E c \in Checkouts : pc[c] \in Working) => mapped

\* Rule 8: the pooled connection is given out in the order of the queue, or
\* to the checkout it was reserved for, also when the one that dialled it is
\* not the one it is for.
ServedInOrder ==
  [][\A c \in Checkouts :
       pc[c] \in {"loop", "dial"} /\ pc'[c] \in {"held", "validate"} =>
         handoff = c \/ waiters = {} \/ NextInQueue(waiters \cup {c}) = c]_vars

\* Every checkout is answered, with a handle or an error, though handles may
\* never be returned: no operation waits on itself or on others for good.
EveryCheckoutAnswered ==
  (\E c \in Checkouts : pc[c] \in Working) ~> (\A c \in Checkouts : pc[c] \notin Working)

\* The books of one mailbox's entry: its types, the count, the queue and the map.
EntryIsSound == TypeOK /\ LiveIsCounted /\ NobodySleepsBesideFree /\ EntryStaysMapped

\* Nobody is passed over, and nobody waits for good.
CheckoutsAreServed == ServedInOrder /\ EveryCheckoutAnswered

=============================================================================
