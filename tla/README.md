# Formal model of MCPEmails

MCPEmails connects mailboxes (Gmail, Outlook, IMAP/SMTP) to MCP clients and to its own
web client. This directory holds TLA+ modules of its core protocols, TLC configurations
that check small instances of them, and theorems about them that TLAPS has checked.

Every claim below is about the code of this repository. Paths are relative to its root
(`src/` in PROJECT.json's "map", which names the lines each definition translates).
`index.ts` is `supabase/functions/mcp-server/index.ts`, `decide.ts` is
`apps/web/src/lib/approvals/decide.ts`.

Contents: 1 the system, 2 the plan, 3 the modules, 4 the runs, 5 the proofs, 6 what the
code does otherwise than it says, 7 what is not modelled.

## 1. The system

Five programs share one Postgres database (Supabase) and meet almost only in its rows:

- the **mcp-server** edge function: MCP `tools/call`, and the jobs that pg_cron calls
  (scheduled sends, triage, reminders, morning brief, subscription cleanup);
- the **client-api** edge function: mail operations for the web client, the assistant,
  webhooks, web push; it runs the executors of mcp-server in its own process;
- the **web app** (Next.js): dashboard, approvals, OAuth server, billing, inbox lifecycle;
- the **web client** and the **MCP app cards**: user interface only;
- **pg_cron** and SQL functions inside the database: retention, purges, dispatch triggers.

Each edge request runs in an isolate that the platform may end at any await. There is no
transaction across two statements of the TypeScript code. Every protocol is therefore a
sequence of single SQL statements whose WHERE clauses (`status = 'pending'`,
`revision = ...`, `dispatch_scheduled_send_id is null`) carry all the mutual exclusion
there is, interleaved with calls to mail providers that can succeed and lose the answer.
That is what the modules are about.

### Components

State is what survives a request. The last column is what must hold.

| Component (code) | State | Operations | Must hold |
|---|---|---|---|
| Scheduled-send queue and dispatcher (`handleScheduledDispatch`, `executeScheduleSend`, `executeCancelScheduled`) | `scheduled_sends`: status, send_at, updated_at, error_detail | schedule, cancel, insert an approval's marker, reclaim, fetch, claim, bind, send, write back | one owner per row, one transmission at most, a true status, every row resolved |
| Send approvals (`decide.ts`, `mcp-app-approvals.ts`) | `send_approvals`: status, revision, payload, send_at, expires_at, decided_at, dispatch_scheduled_send_id | queue, render, approve, reject, edit, reschedule, expire, retire, deliver | what goes out is what was approved, in time, once; refusals stand; no lost edit |
| Outbound idempotency ledger (`claim/complete/completeApprovedOutboundIdempotency`) | `outbound_idempotency`: request hash, status, approval_id, expires_at | claim, reclaim, settle, release, settle by the dispatcher | a key runs once in 24 hours; the record is true |
| Outbound abuse brakes (`outbound-brakes.ts` and SQL) | `outbound_send_events`, `inbox_send_brakes`, `workspaces.sends_frozen_at` | ask, count, hold, note a refusal, pause, freeze, purge | no window above its limit, whatever order the sends are decided in; a pause is not cut short |
| Action reservations (`allowance-gate.ts` and SQL) | `action_usage`, `action_usage_reservations` | reserve, settle, release, expire, roll over | never above the cap; a failed call costs nothing |
| Bulk plans and runs (`mcp-app-bulk.ts`, `bulk-budget.ts`) | `bulk_plans`, `bulk_runs` | plan, execute, stop on budget, resume, undo | a plan runs once; undo matches what ran |
| Triage automations (`triage-engine.ts`) | `triage_rules`, `triage_runs`, `triage_seen_messages` | claim, scan, act, advance | no message skipped or acted on twice |
| Reminders (`reminders-engine.ts`) | `reminders`: status, claims per inbox | claim inbox, resolve, fire, back off | fired once; no claim held forever |
| Morning brief, subscription cleanup | `morning_briefs`; a scan that can be resumed | run, resume | one brief per day; a resumed scan loses nothing |
| Draft lineage (`draft-lineage.ts`) | `draft_lineage`: successors of draft ids | record, resolve | an old id resolves to the newest draft |
| Chat confirmation (`chat-confirm.ts`) | none (signed token) | mint, verify | a token is for one content and expires |
| Provider concurrency (`provider-concurrency.ts`) | in memory: tasks in flight | run tasks, a few at a time | results in item order, the failure of a serial loop |
| Relay registry (`relay-registry.ts`) | `mail_relay_hosts`, `mail_relay_candidates` | rescue, learn, expire | a host is learned from two rescues |
| Mail protocol clients | one session each | send, fetch, move | "not sent" only when provably not sent |
| IMAP pool of the client API (`imap-pool.ts`) | leases per mailbox | acquire, release, evict, overflow | no deadlock, no lease leaked |
| Push, webhook delivery | `inbox_watch_state`, `webhook_deliveries`, leases | claim, attempt, back off, disable | at-least-once, a late result does not count |
| Assistant loop | conversation | model turn, tool call | policy before every tool |
| OAuth server | codes, access and refresh tokens | authorize, exchange, refresh, revoke | codes are single-use; a rotation leaves one live pair |
| Stripe webhook, billing lifecycle | events, lifecycle queue | record, handle, drain | an event handled once, and handled |
| Inbox parking, teardown, retention | `parked_at`, purge jobs | park, unpark, remove, purge | parked set fits the plan; nothing sent after removal |
| Invites, referrals, SSO, tickets, notifications, site, self-hosting | own tables | plain reads and writes | see PROJECT.json |

PROJECT.json lists every component with its sources and status, and every hazard with
its line.

### How the modelled components interact

```
 tools/call --claim key--> outbound_idempotency <--settle(approval_id)--+
     | run                                                               |
     +--needs a human--> send_approvals --approve--> scheduled_sends ----+--> provider
     |                    ^ edit, reject (MCP)        (marker row)       |
     +--schedule_create---|-------------------------> scheduled_sends ---+
                          expiry, retention, teardown   ^ cron, every minute
```

- A send that needs a human becomes a `send_approvals` row. Approving it inserts a
  *marker*: a `scheduled_sends` row that only names the approval.
- The dispatcher *binds* an approval to one marker (`dispatch_scheduled_send_id`), because
  several markers may name it (the run MCDuplicateMarkers).
- The idempotency record of the original call stays `pending_approval` until the
  dispatcher settles it.

Each of the three has a module, in which the next one appears as a few steps. That the next
one takes no other steps is a property of its own module: `ServesApprovals` (the queue, for
`SendApprovals`) and `ServesKey` (an approval, for `OutboundIdempotency`).

The other modelled components meet these three only through interfaces that each module
states for itself:

- every billable call, an automation's action included, takes an **action reservation**
  around its executor (`ActionReservations`); the executor is one step there;
- every send, of a call or of a row, asks the **outbound brakes** before the provider
  (`OutboundBrakes`); `ScheduledDispatch` models only that they answer, or do not;
- **bulk plans**, **reminders** and **automations** act on mail through the same providers,
  each under a claim on a row of its own;
- the **web client** reads mail through the **IMAP pool**, inside one isolate; the new-mail
  watcher opens its own connections;
- **token rotation** and **Stripe events** decide who may call and with what allowance;
  the calls read the result and never write it;
- the **new-mail watcher** and the **webhook deliveries** share one request: what its check
  enqueues, its send step (or that of another pass) posts.

### What is hard

Overlapping invocations of the same job (cron every minute, plus one per approval);
isolates that die between two statements; statements that were applied and reported as
failed; providers that accepted a message and did not say so; reads used after another
process wrote (the batch's `error_detail`, the rendered revision, the approval's status);
deadlines that pass between a check and the write that relies on it; a batch limit that
held rows can fill; two claimants that look for each other before and after they claim;
leases that run out under a pass that is still working; events of a payment provider that
come twice, late and in the wrong order; and, inside one isolate, promises that resolve in
an order nobody chose.

## 2. The plan

In order of what it costs a user when it goes wrong.

| | Module | Of | State |
|---|---|---|---|
| 1 | `ScheduledDispatch`, `DeliveryPromise` + proofs | a message sent twice, or reported falsely | done |
| 2 | `SendApprovals`, `ApprovalPromise` + proofs | something sent that nobody approved | done |
| 3 | `OutboundIdempotency` + proofs | a retry that sends again | done |
| 4 | `ActionReservations` (reserve, settle, expire, the turn of the period) + proofs | caps under concurrency | done |
| 5 | `BulkPlans` (single-use plan) + proofs | mass operations run twice | done |
| 6 | `TokenRotation` (code, refresh, revocation), `StripeEvents` (record before handle) + proofs | lock-outs, lost events | done |
| 7 | `ReminderDispatch` + proofs, `TriageDispatch` (inbox claims, seen marks) + proofs | skipped or repeated work, mutual back-off | done |
| 8 | `ImapPool` (leases, limit, eviction, overflow) + proofs | deadlock at the limit, a shared connection | done |
| 9 | `MailWatch` (cursor, leases, attempts, disabling) + proofs | mail nobody is told of, an event posted twice | done |
| 10 | `ServesApprovals`, `ServesKey`: the queue as the dispatcher of 2, the approval as that of 3, + proofs | the assumptions between 1, 2 and 3 | done |
| 11 | `OutboundBrakes` + proofs | a limit exceeded, a pause that ends early | done |
| 12 | `DraftLineage`, `InboxParking`, `MapWithConcurrency` | stale ids, plan limits, a wrong error | not done |

Abstract specifications: `DeliveryPromise` (what the queue promises), `ApprovalPromise`
(what holding a send promises). Between the three modules of the send path the user's module
is the abstract one: the queue refines the dispatcher's side of `SendApprovals`, and
`SendApprovals` the approval's side of `OutboundIdempotency`. Theorems: every safety
invariant and action property of 1-11 that a run checks, and the safety half of each
refinement.
No module has a RECURSIVE operator.

## 3. The modules

Conventions. One action is one database call or one provider call, so every await is a
point where others interleave. A WHERE clause is an operator of its own (`Claimable`,
`Editable`, `Reclaimable`); `X_Something` beside `X` is a plausible bug in it, used by a
mutant. Incidents (crashes, failed or lost writes) spend `faults`, bounded by `MaxFaults`.
Strings, addresses, formatting and logging are left out.

### ScheduledDispatch

| Variable | Code |
|---|---|
| `status`, `late`, `since`, `detail` | columns status, now - send_at, now - updated_at, and which of its prefixes error_detail carries |
| `bound`, `ledger` | `send_approvals.dispatch_scheduled_send_id`; status of the caller's idempotency record |
| `pc`, `batch`, `seen`, `cur`, `err`, `settles`, `attempted`, `counted`, `result` | one `handleScheduledDispatch`: where it is, rows left, rows whose fetched error_detail said "counted", the row of the loop, the thrown error class, `approvedScheduleId`, `providerAttempted`, `brakeCounted`, the re-run's log code |
| `life` | the invocation's age; the platform ends it at `MaxInvocation` |
| `cancel`, `frozen`, `faults` | a `schedule_cancel` call per row, held rows, incidents so far |
| `transmitted`, `charged` | history: messages given to the provider, whether the brake counted them or could not be asked |

A row is a natural number, its place in send_at order, so that "oldest first, at most
MAX_DISPATCH_BATCH" is `OldestDue`. `KeepsOrder` makes the inserted times agree with that
numbering. `Insert` also gives a marker a time that has already passed, since an approval
may come after its send_at. One invocation runs `Reclaim`, `Fetch`, then per row `Claim`,
gates, approval, `Bind`, key, brake, send, settlement, write-back. Steps with two outcomes
in the code have both: for instance `ClaimLost` is a lock that took effect without an answer
and leaves the row `sending`. Write-backs match by id alone, as in the code, and the
property `TerminalStays` shows why that is safe.

`DeliveryPromise` says what a user is promised: queued, then delivered once, failed or
cancelled, for good. `Fate` is the refinement mapping; a transmitted message counts as
delivered from the moment the provider has it.

`ServesApprovals` shows the queue as the dispatcher of `SendApprovals`, for each approval: the
approval's rows are the markers, `MarkerAt` says how far each is, and every step of the queue
that moves one or binds the approval must be an action of that module (`DispatcherStep`), or
move nothing it can see. The approval itself is one that was given and stays (`Review`),
since the rows hold neither content nor decision.

### SendApprovals

One approval (every statement names one id), several web reviewers (`decideApproval`,
steps `Render`, `DecideRead`, `Claim`, `Insert`, `Release`, `Reject`), several MCP calls
(`loadPendingApproval` and one write: `CardLoad`, `CardUpdate`, `CardSchedule`,
`CardReject`), the deadline (`Lapse`), the lazy expiry of each path, the retention job
(`RetireUnseen`), removal of the inbox (`RemoveInbox`) and the dispatcher's use of the row
(`DispatchRead`, `DispatchBind`, `DispatchSend`). The content of a request is the set of
edits it holds, plus its delivery time: all that a property has to tell apart.
`ApprovalPromise` is the abstract view: a version can change only while it is held.

The dispatcher's side is the interface to `ScheduledDispatch`, which shows with
`ServesApprovals` that it takes these steps only. `ServesKey` is the interface to
`OutboundIdempotency`: what that module sees of an approval (`KeyView`: pending, approved or
dead; `Delivery`: whether it went out) changes only by its own `DecideApproval`,
`ReleaseApproval` and `Dispatch`, and comes to be by the run that queues it.

### OutboundIdempotency

One key. `record` is the row under it, `owner` the call that claimed it last (history only:
the code does not store it). `Clear`, `Look`, `Check`, `Reclaim`, `Insert`, `Reread` are the
statements of `claimOutboundIdempotency` in order; `Run` is the executor with its possible
log codes; `Settle` is `completeOutboundIdempotency`, which matches the key and the
arguments and nothing else. Its write may fail, which the code only logs: the call lives on
and answers, and the key stays `processing` (`SettleFails`; `unwritten` remembers it).
`DecideApproval` and `ReleaseApproval` (a claim that is given back because its marker could
not be queued) are what happens to an approval; `Dispatch`, `RecordDispatch`,
`DispatchFails` are the dispatcher's effects. A tick is half the 24-hour window (`WINDOW =
2`); a running call takes less than two ticks, since the platform ends a request after
minutes.

### ActionReservations

The monthly allowance of one Free workspace. `rows` is `action_usage_reservations`, `usage`
the billable rows of `action_usage`, `events` and `mails` the records of the limit notice.
Calls are interactive tool calls (`Tools`), whose gate reserves before the call is known
and whose meter takes that reservation over, and single actions of an automation (`Runs`). A
reservation may be stored although its answer is lost: the call then goes on without it, and
it stays until it expires (`Stray`). A gate that does not answer leaves the call to read its
terms later.
`terms` is the period a call read its cap in, `slot` the reservation it answers for. The
SQL functions hold the workspace's advisory lock, so each is one step. Time is the
database's clock `now`, with the reservation's life (`Life`) and the turn of the period
(`PeriodTurn`). `CapHolds` leaves out what the code itself lets through uncounted: bare
rows written while the meter failed, and reservations of the last period's window.

### BulkPlans

One `bulk_plans` row, several clicks (`bulk_execute`) and declines (`bulk_cancel`), the
deadline and the pruning of old rows. `pace` is where a call stands, `said` its answer,
`ran` and `touched` what the provider was asked and did. `frozen` says whether the plan
names any message at all: one that names none is executed and touches nothing. `overtaken`
remembers the calls that found the row overdue and had not yet retired it when a click
claimed it. An Undo is such a row too.

### TokenRotation

One OAuth connection. `authCode`, `chain`, `linkedTo`, `keyRow`, `access` are the rows of
`oauth_auth_codes`, `oauth_refresh_tokens` (with `api_key_id`) and `api_keys`; `client` is
the refresh token the client would use next. Each request of `token/route.ts` is a series of
round trips (`step`), and `revoker` and `removal` are a revocation (RFC 7009 or the
dashboard's, the same writes) and the removal of the member.

### StripeEvents

`app/api/stripe/webhook/route.ts` for one customer. `ledger` is `stripe_webhook_events`;
`billing` and `projected` are the states that `user_billing` and the workspaces show. A
subscription event carries the state of its creation, a Checkout event makes the handler
ask for the state of now. Stripe delivers until acknowledged, again after that and in any
order.

### TriageDispatch

Overlapping invocations, rules of one inbox, messages numbered as they arrive. `lease` is
`running_since` (a compare-and-set), `seen` is `triage_seen_messages`. A rule is claimed
between two looks for another lease on the inbox. `PurgeMark` is the daily job that deletes
marks of ninety days ago. `tried` and `twice` are history, of the marks that are kept.

### ReminderDispatch

Snoozes and follow-ups of one inbox. `status`, `holder`, `check` and `knows` are a row's
status, lease, next_check_at and whether its message_ref has the moved id. Sweepers go
through the look, the claim and the second look of one inbox per message (`sweep`, `rows`,
`verdict`), calls snooze, cancel and finish (`call`, `about`, `oldRef`). `folder` is what
the provider has in the snooze folder.

### ImapPool

One entry of the pool, field by field (`state`, `client`, `flow`, `live`, `waiters`,
`handoff`), and the checkouts that use it. An action is what JavaScript runs without an
await; `thread` is a checkout whose loop went round without one, which nothing may
interrupt. Dials, validations, timers, reclaimed leases, refusals, the idle sweep and the
shutdown are steps of their own.

### MailWatch

`client-api/push/dispatch.ts`, `webhooks/deliver.ts` and their SQL, for one mailbox and one
endpoint. `watch` is the row of `inbox_watch_state`, `posting` the `webhook_deliveries`. A
pass leases the row, probes the mailbox (`Probe`), learns how many messages are new from
the counters of the two probes (`CountersTell`) or, in a second question to Gmail, from one
page of the history until now (`HistoryTells`, `HISTORY_PAGE`), asks for targets, enqueues an
event named after two cursors, stores the cursor, then leases, posts and records deliveries;
it may die or outlive its leases between any two of these. `named` is how far a check has
counted and `upTo` how far an event does, which may be more or less than its cursors span. An
event is followed by what it counts, not by the ids it lists: those are read later still
(section 6). `enabled` is the endpoint's switch, which the
owner turns and repeated failures turn off. `excused` holds the messages the endpoint may
rightly not hear of, `proper` the events of passes that held the mailbox.

### OutboundBrakes

`outbound_send_gate`, `outbound_send_refusal` and `purge_outbound_send_events` for one
inbox. A send is a tool call (`ToolSends`), which asks again when it is run again for an
approval, or a row of the queue (`RowSends`), which is not counted again when it is known to
be counted. What is known is a mark in its error_detail (`marked`, written by whoever puts
the row back) as the invocation fetched it with its batch (`FetchDue`, `batch`, `ClaimRow`,
`brakeCounted`): of two overlapping `Dispatchers` one may work from a batch that is older
than the mark, and `misread` remembers such an attempt. `stage` is where a send stands,
`begun` the `now()` of its transaction, read before the inbox's lock: two sends may be
decided in another order than that of their times. `tally`, `reached` and `refusals` are the
kinds of events of `outbound_send_events`, kept here as history; `keptFrom` is what the
purge has left of them, and the windows count only that (`Stored`). `pauseUntil`,
`holdUntil` and `heldContent` are the row of `inbox_send_brakes`. The clock is never more
than one tick ahead of an open transaction. A gate that cannot be asked, or whose answer is
lost, lets the send through (`FailOpen`), and `open` remembers it.

## 4. The runs

States are distinct states. Runs marked * are meant to fail: section 6.

| Run | Shows | Instance, and why it is enough | States |
|---|---|---|---|
| MCOverlap | one owner, one transmission, counted by the brake, true status, terminal rows stay; the queue refines `DeliveryPromise`, liveness included | one message, two invocations, 2 incidents: a row meets the others only through its own columns and the batch | 128,424 |
| MCDuplicateMarkers | one delivery per approval, true ledger; the queue refines the dispatcher of `SendApprovals` | two markers of one approved schedule, two invocations, 1 incident | 773,487 |
| MCResolved | every row becomes terminal | two rows of an operation that is run again, competing for a batch of one, 1 incident | 181,924 |
| MCReview | sent as reviewed, no lost edit, refusals and decisions stand, nothing late; the review path refines `ApprovalPromise`, and an approval serves its key as `OutboundIdempotency` expects. Once per 24 hours (`RunsOnce`); no mail passed in silence, none announced twice but for the excused cases, one poster (`WatchHolds`) | see below | 1,174,963 |
| MCLedger | one run, one live approval, true record, freed key, own replays, no key left processing by a call that lived, had the answer to its claim and could write; one delivery although two inserts lost their answers, and no approval left unqueued; one session per inbox, no hidden message, reminders end | one key within one life of its record, three calls of two requests, 2 incidents; two reviewers (so two markers), 2 lost inserts; a snooze, a follow-up, two sweepers, two calls, 1 mishap | 264,544 |
| MCPool | one user per connection, sound books, nobody passed over, every checkout answered | four checkouts of three flows (one takes two connections) at a limit of two, with reclaimed leases or a shutdown; both with three of them | 362,657 |
| MCServices | six more components keep their promises | see below | 1,318,932 |
| MCCancelAnswer*, MCFailedRecord*, MCLostInsertSends*, MCReclaimedExpires*, MCHidden* | section 6 | the smallest instance with the race | |

Instances that share nothing run together: `MCServices`, `MCLedger` and `MCReview` have a
variable `part` that says which of their instances acts; the others keep their initial
state. Such a run has the sum of the parts' states, not the product, and shows of each part
what a run of its own would. Its fairness is owed only to the part that acts.

`MCReview`:

| Part | Instance |
|---|---|
| approval | two reviewers, two MCP calls, 2 incidents: the shortest races need two writers and one incident |
| key | an inbox that sends directly: three calls of two requests, four ticks (two whole lives of a record), 2 incidents |
| watch | two messages, two passes that come again, two attempts, batches of one, two messages to a page of the history, 1 incident; the receiver may refuse the event of the first message (`FirstRefused`) |
| reads | the same with three messages, one more than a page: an arrival between the probe and the history, and one beyond the page; the receiver takes every POST and the one incident is a pass that outlives its leases (`SlowOnly`) |

`MCServices`:

| Part | Instance |
|---|---|
| tokens | two redemptions of the code, two refreshes, a revocation, a removal, 1 incident |
| plans | two clicks and a decline, 2 incidents; a plan that names messages and one that names none |
| events | three events, two of them within a second, the middle one of Checkout; three deliveries of any of them, 2 incidents |
| triage | two rules of one inbox, one of which moves messages; two invocations that come again; two messages, 1 incident; marks are purged of the rule that does not move (`MoversKeepMarks`), whose messages still match |
| allowance | a tool call and an automation's action at a cap of one, four instants of which the last two lie in the next period; a reservation lives for one, 2 incidents |
| brakes | a call that forwards two messages to two people and a row with the same text to one of them; limits of two messages, one person and two refusals; a day of two ticks, an hour of one, four ticks in all; freezes and incidents in the first two ticks, 1 incident, with which a behaviour is a tick shorter (`EarlyTrouble`); nobody has decided in advance; invocations come one after the other and try at once what they fetched (`OneByOne`) |
| rows | the same row alone, under two invocations that overlap in any way: a batch older than the mark |

Bounds. Clocks of ScheduledDispatch saturate one past the last value the code compares
with, so time is not bounded there. `STALE_SENDING`, `SCHEDULED_SEND_DEFER_WINDOW` and
`MaxInvocation` are one or two ticks: what matters is which is passed first, and
`InvocationsEndBeforeReclaim` is the only relation the code relies on. In
MCDuplicateMarkers both `STALE_SENDING` and `MaxInvocation` are 0: the reclaim runs as soon
as a tick has passed and no invocation survives a tick, which keeps the crash-and-reclaim
race and drops the rest. The approval of MCReview has `MaxLostInserts = 0`; that of MCLedger
and MCLostInsertSends have lost inserts. The key of MCLedger has `MaxTicks = 0`, because a
record expires while a slower approval of it lives on and both MCReclaimedExpires and an
approved send scheduled beyond 24 hours then break `RunsOnce`; MCReview lets time pass for
an inbox that sends directly. Passes, sweepers and invocations come again without bound;
clicks, calls and deliveries are single requests. Every module bounds its incidents (deaths,
failed and lost writes), and one is enough for each hazard listed: a second one is given
where it is cheap, because a crash and a lost answer together are the next thing to ask.

Symmetry is over invocations, reviewers, MCP calls, ledger calls and requests, which no
definition tells apart, and only in the runs without liveness that need it (MCReview,
MCDuplicateMarkers, MCReclaimedExpires). MCLedger has liveness, and MCServices too many
parts: there `InTurn` and `InOrder` look only at behaviours in which interchangeable calls,
deliveries or requests begin in a fixed order. In MCPool each behaviour has a leaked lease,
a shutdown, or both with one of the checkouts away (`trouble`, `away`).

Deadlock is checked in the dispatcher's runs, where the clock always ticks. The other runs
say CHECK_DEADLOCK FALSE: a decided request, a settled key, an answered checkout and an
ended reminder have nothing left to do.

Fairness, always weak.

- Queue: `WF(Step(w))`, as pg_cron calls the dispatcher every minute as long as there is
  work (`WorkToDo`), and an invocation goes on unless it crashes, which `faults` bounds;
  `WF(Tick)`, time passes; `WF(Unfreeze(r))`, an operator lifts a freeze in the end.
- Approvals and ledger: a request that was submitted runs on (`WF(Decide(r))`,
  `WF(Claim(c) \/ Run(c) \/ Settle(c))`); nobody has to submit one.
- Reminders: pg_cron wakes a sweeper and a sweeper goes on (`Wake(w) \/ SweeperStep(w)`), a
  submitted call goes on (`CallerStep`), `next_check_at` comes (`ComesDue`) and a lease gets
  old (`HolderAges`). That two sweepers back off from each other again and again is bounded
  by `MaxMishaps`: an overlap costs one.
- Pool: timers fire, dials and probes are answered (they have time limits), a promise that
  was resolved is resumed, and a checkout whose wait is over runs (`Timer`, `Answered`,
  `Resume`, `RunsLate`). Nobody has to return a handle: `EveryCheckoutAnswered` holds
  although none is.

Every property of a passing run has a mutant in PROJECT.json: a definition with a dropped
guard, a wrong status or a swapped WHERE clause, under which TLC finds it violated. A
property with several named parts is a conjunction (`PlanHolds`, `WatchHolds`, `TokensHold`);
its parts are commented one by one in the module.

## 5. The proofs

| Module | Theorems | Inductive invariant |
|---|---|---|
| `ScheduledDispatchProofs` | `TypeCorrect`, `OneOwner`, `AtMostOneTransmission`, `TruthfulStatus`, `SendsAreCounted` | `Safe`: a held row is `sending` or already failed; what is before the provider call is untransmitted, what is after it is transmitted. `Counted`: whatever carries the mark "counted", in the table or in an invocation's copy, has been before the brake |
| `ScheduledDispatchDeliveryProofs` | `TerminalRowsStay`, `OneDeliveryPerApproval`, `TruthfulLedger`, `QueueKeepsPromise`, `QueueServesApprovals` | `Timed` (a held row is `sending` and younger than its invocation), `Spent` (past the binding, the marker holds its approval), `Settler`, `Certain`, `Recorded`; `Marked` (a marker is as far as the one invocation that holds it) and `Unbound` (what is about to bind is not bound) for the interface |
| `SendApprovalsProofs` | `TypeCorrect`, `EditsAreKept`, `OneDelivery`, `SentWasApproved`, `RefusalsHold`, `DecidedInTime`, `DecisionIsFinal`, `ApprovalKeepsPromise`, `ApprovalServesKey` | `Current` (equal revisions mean equal content), `Bound` (a marker that sends is the bound one), `Held` (one request at a time holds the approval, and the row under it does not change); `FateShows` (what a key sees of the request, by its fate) |
| `OutboundIdempotencyProofs` | `TypeCorrect`, `OneCallOneApproval` (from `OneCallRuns` and `OneApprovalLives`), `KeyRunsOnce`, `RecordIsTrue`, `UnsentFreesKey`, `ReplaysAreOwn` | `Ind`: every live call (running, with an open approval, or having sent within the window) owns the record, whose age is the call's own |
| `ReminderDispatchProofs` | `OneSweeperActs`, `HiddenIsKnown`, `EndedIsOver` | `LeasesHold`: what a sweeper has claimed is its own until it gives it back, so the second look of the other finds it. `HiddenInv`: `CallerKnows`, `SweeperKnows` (who holds a row and is about to close or delete it knows whether its message is in the folder). `LeasedIsActive` |
| `ImapPoolProofs` | `OneUserPerConnection`, `EntryKeepsItsBooks`, `FirstComeFirstServed` | `LeaseInv`: `SlotIsRight` (what is pooled, and who holds it), `OneUser`, `DialerHasSlot` (who dials has the slot; a checkout has a connection exactly while it holds or validates one). `EntryInv`: `SleepersReserve` (beside a free place somebody awake has the reservation), `DialerHolds`, `Counted` |
| `AutomationProofs` | `PlanIsHonest`, `AutomationsHold`, `WebhooksKeepTheirWord` | `PlanInv`: `OneEngaged` (at most one call works on the plan or has run it), `WorkerHasRow`, `DenialIsFinal`, `AffirmationIsTrue` and `LapseIsFinal` (what was answered cannot be overtaken, but for an "expired" of a call in `overtaken` or `slips`). `TriageInv`: `LeaseIsHeld`, `OneWorking`, `TriedOnce` (what is about to be tried is marked and was not tried). `CheckInv`: `Below` (cursors never run ahead of what is settled; `Reached` says it of a pass), `Counted` (what an event spans it counts, or it is excused), `HolderIsCurrent` (the holder works on the stored cursor), `Ordered` (an event lies behind the cursor, or begins or ends at it), `Calm` (without an incident only the holder is ahead). `SendInv`: `Untried`, `OnePoster`, `AttemptsEnd` |
| `AccountProofs` | `EventsHandled`, `NewestPlanWins`, `AllowanceIsKept`, `PausedOwnerIsTold`, `AccessIsKept`, `ClientIsKept`, `TokensAreKept`, `CeilingsAreKept`, `PausesAreKept` | `StripeInv`: `HolderHasRecord`, `RecordIsHonest`, `InTurnInv` (a delivery writes nothing older than what is kept, and where the two writes disagree an event is still owed). `AllowanceInv`: `RowsAreUnique`, `SlotIsMine` (the slot a call carries names its only row, unless one of its own is astray: `Clean`), `PaidOnce`, `PausedIsTold`. `TokenInv`: `OneTaker`, `Linked`, `RevokedKey`, `LateGetsNothing`, `NewTokensLive`. `BrakesInv`: `TimesInOrder` (an open transaction is at most a tick old, the purge at least two days behind), `ChargedByStage` (what a send has been charged at each stage; `RowCharged`: whatever says "counted", the row, a batch or an invocation, is right, and a row is fresh until then unless it was misread), `PauseIsKept` (the longest pause given is the one in force, or over for more than a day) |

They hold for every number of rows, invocations, approvals, reviewers, calls, requests,
clicks, sweepers, checkouts, passes, messages, rules, events, deliveries, tokens and sends, and
every batch size, window, cap, limit and bound.

Assumptions.

- `InvocationsEndBeforeReclaim` (declared in ScheduledDispatch): an invocation is over
  before a row it claimed is stale. The code takes a row that was `sending` for
  STALE_SENDING_MS (15 minutes) for the trace of a crash, far longer than the platform lets
  a request run. `Timed` uses it, so everything in
  `ScheduledDispatchDeliveryProofs` does; `AtMostOneTransmission` and `TruthfulStatus` do
  not, since a reclaimed row is failed and never queued again.
- `InsertsAnswer` (`MaxLostInserts = 0`): a marker insert that reports an error stored
  nothing. Needed for `SentWasApproved`, `RefusalsHold`, `DecidedInTime`,
  `ApprovalKeepsPromise` and `ApprovalServesKey`; the run MCLostInsertSends shows what happens
  without it. `OneDelivery`, `EditsAreKept` and `DecisionIsFinal` do without.
- `OneLifeOrDirect` (`MaxTicks = 0` or nothing is held for approval): within one life of a
  record, or for an inbox that sends directly. Needed for the theorems about the ledger
  other than `TypeCorrect`; MCReclaimedExpires shows why.
- `ReminderAssumption`, `TriageAssumption`, `PlanAssumption`, `CheckoutsAssumption`,
  `PoolAssumption`, `WatchAssumption`, `AllowanceAssumption`, `TokenAssumption`: the sets of
  the constants are disjoint, the bounds are numbers (a page of the history names at least
  one message), and no sweeper, caller or invocation has the name of one of the markers that
  a lease without a living holder carries.
- `StripeAssumption`: the events are numbered in the order of their seconds (`SecondOf`),
  as Stripe stamps them when they happen.
- `SendsAssumption`, `LimitsAssumption`: calls and rows are different things, a send has at
  least one message and finitely many recipients, the limits are numbers, an hour is at
  least one tick and at most a day. Nobody's decisions are assumed: any send may have been
  approved in advance. That a transaction ends within a tick is a condition of `BrakesTick`,
  and since an hour is at least a tick it says no more than that no gate call stays open for
  an hour.

Why the invariants need strengthening. `AtMostOnce` alone says nothing of an invocation
that is about to send; `Safe` adds that it holds an untransmitted row. `SentAsReviewed`
needs that the row's content cannot move between the claim and the delivery, which in turn
needs that revisions name contents (`Current`) and that no second request can hold the
approval (`Held`). `RunsOnce` needs that a call's claim outlives everything it may still
send (`Owned`), which is what the missing reset of expires_at breaks. `NothingSkipped`
speaks of the stored cursor only; a pass carries two more (`saw`, `found`), and a pass that
lost its lease still carries them, so `Below` says of each what it may rely on. That
two events without an incident share no message unless the second begins where the first
ends needs to know that the holder enqueues from the stored cursor, which is where a pass
that outlived its lease could break in, and that an event which counts beyond its own end
ends at the cursor of then (`Ordered`).

`KnownWhileHidden` speaks of a row and a folder, but what breaks it is a call that deletes
or closes the row of a message it has wrongly in mind: `CallerKnows` and `SweeperKnows` say
what each step of each actor may take for granted while it holds the lease, and
`LeavesAlone` that nobody else can take it from under it. `NobodySleepsBesideFree` allows
that a waiter was woken and has not run yet; `SleepersReserve` says that between two
stretches of JavaScript the reservation is then on it, and the count of `live` (`Counted`)
is over the checkouts that open a connection, so that a dial that comes too late gives back
exactly what it took. `NewestWins` is about the end of a run; on the way there the plan may
be an older one, and what saves it is an event still to be handled (`Owed`). `CapHolds` is
kept by a booking only because it takes the place of the call's own reservation
(`SlotIsMine`): a reservation the call no longer carries would be counted beside it.
`RevokedStaysDead` needs `Linked`, that a new token names the very key its request is about
to rotate, so that a revocation of the key reaches the token too, and `ExMemberIsCutOff`
that a request which came after the removal is still before the check it will fail.

`DailyCeiling` speaks of every window of a day, and a send adds to windows that end after
its own time as well, because a later one may have been decided before it. What keeps them
is that the condition on created_at has no upper end (`Recent`): the send counts the later
events too, and everything that a window of them could hold is still stored, since the
purge is two days behind and the transaction at most a tick (`TimesInOrder`, `StillStored`).
With an upper end, the natural way to write it, the proof and the run both fail. The same
look keeps `FanoutCeiling` and `RefusalsPause`. That a pause is not cut short
(`PauseStands`) needs that the purge forgets it only when nothing could be let through
under it any more (`PauseIsKept`), and that a hold writes its own columns only.

The interfaces of the send path join what is proved on either side. `QueueServesApprovals`
says step by step that a queue with any number of overlapping, crashing and deferring
invocations does to a marker and to the binding only what `SendApprovals` lets its
dispatcher do to a request that is approved, so that what `OneDelivery` and
`SentWasApproved` say of that dispatcher they say of this queue. The hard case is a marker
that was bound, deferred and fetched again: it is never bound twice (`Unbound`), and nobody
else can have it meanwhile, an invocation that was taken for dead included (`Timed`).
`ApprovalServesKey` says the same of an approval for the key of the call that queued it: an
approval that was refused, expired or delivered is not opened again, which `KeyRunsOnce`
takes for granted. A claim that is given back is the one way from approved to pending, and
the ledger's module has a step for it (`ReleaseApproval`).

`NewestWins`, `PausedOwnerTold`, `AccessIsBounded` and `ClientKeepsAToken` are parts of
`EventsAreHandled`, `AllowanceHolds` and `TokensHold`, which the run checks; each has its own
theorem besides (`NewestPlanWins`, `PausedOwnerIsTold`, `AccessIsKept`, `ClientIsKept`).

Only model-checked: all liveness (`EventuallyResolved`, `ApprovedIsQueued`, `KeySettles`,
`ComesBack`, `EveryCheckoutAnswered`, and the fairness half of `KeepsPromise` for the queue),
since temporal proofs under fairness are out of the prover's reach. Where a run checks a
safety and a liveness property as one (`RemindersEnd`, `CheckoutsAreServed`), the safety half
is a theorem (`EndedIsOver`, `FirstComeFirstServed`). `RunsOnce` of MCReview and
the first half of `ApprovalIsServed` of MCLedger are properties of an instance inside a
composed run; for every value of the constants they are `KeyRunsOnce` and `OneDelivery`.

## 6. What the code does otherwise than it says

With a run that TLC violates (PROJECT.json quotes the line):

- MCCancelAnswer: a cancel that loses to the dispatcher answers `cancelled: true`.
- MCFailedRecord: the record of an approved operation says failed while its retry is
  still to come.
- MCLostInsertSends: a marker whose insert was reported as failed can deliver a
  combination of content and time that nobody approved.
- MCReclaimedExpires: a record claimed again after a dead approval keeps its first
  deadline, and a retry within a day of the second claim sends again.
- MCHidden: a snooze whose move happened and was reported as failed leaves the message in
  the snooze folder without a row.

Read off the same models, without a run here.

Queue, approvals and ledger:

- A held row is put back unchanged (`index.ts` 36600) and keeps its place in the
  oldest-first batch, so MAX_DISPATCH_BATCH of them keep every later row of every workspace
  waiting while the freeze lasts, against "delivery can be up to 60s late" (7426).
- The mark in `error_detail` is read with the batch (36205): an invocation that
  fetched a row before another one deferred it counts it a second time, which `BrakesHold`
  allows after such an attempt (`misread`) and at no other time. An approved
  operation is counted on every retry (36445), since its own handler asks the brake.
- A marker refused at a gate before its approval is known, and a re-run that throws before
  its operation starts, never settle the caller's record (36624).
- The marker of MCLostInsertSends can also deliver a request that has been rejected since,
  and answered with "Nothing was sent." (`mcp-app-approvals.ts` 1204).
- A web rejection that matched no row is answered as a rejection (`decide.ts` 252).
- A request that dies between the claim and the insert leaves an approved send that
  nothing delivers (`decide.ts` 211): `ApprovedIsQueued` holds only while none dies.
- A refusal that asks to retry the exact request settles its key (`index.ts` 35451).
- A write that settles or releases a key and fails is only logged (2354-2358, 2394-2398). A key
  whose call has proof that nothing was sent then answers "already in progress" until its
  record expires, up to 24 hours later: the very thing that the release is there to avoid
  (2334-2338). `NotSentFreesKey` and `KeySettles` name this exception.
- The dispatcher's outcome is lost when it comes before the call that queued the approval
  has recorded it (2413): the record then stays `pending_approval`.

Bulk plans (`mcp-app-bulk.ts`):

- A click that loses to a cancel is answered "This preview was already run." (1222), the
  sentence that the comment at 939 calls the worst one the file can emit.
- An overdue plan is retired by an UPDATE whose result is not looked at: when a click
  claimed it since it was read, or the UPDATE fails, the answer is still "expired", with
  "Nothing was changed." (986, 1008-1027), although the plan runs or may still run.
  `AnswersHold` names both cases.
- A plan that names no message is executed, not failed, since a total failure needs a failed
  message (1277-1282).
- The claim does not look at the deadline again. A claim whose answer is lost leaves the plan
  executing and says that nothing was changed (1206). A plan whose isolate dies stays
  executing for ever.

Tokens (`token/route.ts`, `revocation.ts`):

- The insert of the first refresh token ignores its error. An answer that is lost after the
  old token was revoked locks the client out, which the comment at 456-460 accepts.
- A revocation of a chain from before keys were linked, during a refresh under way, is
  undone by that refresh; a fresh key that the dashboard revokes before it is linked leaves a
  live refresh token of no use; a redemption past its membership check mints a key after the
  removal swept the keys. `AccessIsBounded` states what holds in spite of these: none of them
  ever yields access to somebody removed.

Stripe events (`stripe/webhook/route.ts`):

- The guard against older events is a read before two writes: an older event past it
  overwrites a newer one, two interleaved handlers leave `user_billing` and the workspaces
  disagreeing, events of one second are not ordered, and a guard that cannot be read lets the
  event through. `NewestWins` therefore speaks of events that were not handled at once
  (`calm`).
- The event is recorded before it is handled: an isolate that dies in between, a record
  whose insert or removal reports the wrong outcome, and a redelivery acknowledged while the
  first delivery is still to fail each lose it (`struck`).

Allowance (`allowance-gate.ts`):

- Bare rows written while the meter fails, and reservations of the last period's window,
  may exceed the cap; `CapHolds` counts the others. A death between
  `record_usage_limit_event` and the mail loses the limit notice of that period for good, and
  one between the pause of a rule and its own notice leaves that owner untold, unless a limit
  notice was queued (`PausedOwnerTold`).
- A reservation, of the gate or of the call, may be stored although its answer is lost
  (`index.ts` 2853-2866, 4313-4323). The call goes on and books a bare row (4103-4111), and
  the reservation holds a place beside it for the 15 minutes it lives, which may refuse another
  call at the cap: against "never whether ... a call is limited, or an action is counted"
  (2818-2819). `CountedOnce` allows it after a lost answer or a failed release only.

Outbound brakes (`outbound-brakes.ts`):

- An approved call that is run again is counted each time (`SendsAreCharged` bounds only the
  others), and the people reached with a person's approval count towards the fan-out of
  those without.
- A refusal that cannot be counted is logged and forgotten, and refusals during a pause
  neither lengthen it nor start the next one by themselves.

Automations (`triage-engine.ts`, `index.ts`):

- A sweep ends only the runs that started before its cutoff, while the lease is older than
  its run: a crashed run can stay `running`, against the comment in
  `20260819170000_create_triage_automations.sql` 251-254.
- The marks of a rule are purged after ninety days (`20260819190000_schedule_triage_dispatch.sql`
  165-169). A rule that leaves its messages where they are (a label, a draft, a forward) and
  still matches an old one then acts on it again, against "a digest can never age out of the
  ledger while its rule could still re-match the message and act on it twice" (149-152).
  `OncePerMark` speaks of a message while its mark is kept.
- A backlog starves: the search returns the newest matches up to the limit and does not know
  which were seen, against "the automation picks them up on its next run" (`triage-engine.ts`
  1686-1688).
- A claim of a message whose answer is lost marks it as seen although nothing acts on it,
  against "the next run picks it up" (`index.ts` 36938-36941).
- A run acts on the rule as it was listed, up to 40 seconds before; the release of a rule
  names the rule alone and relies on invocations that end within ten minutes.

Reminders (`reminders-engine.ts`, `index.ts`):

- When an inbox is connected again, the rows that a dispatcher holds are skipped. A cancel
  does not look at the result of its release and may answer `cancelled: true` with the row
  still pending, and uses a message_ref read before its lease.
- A snooze that died between the move and the save, on a server where its message cannot be
  found, is tried again for ever. The claim does not repeat the condition that the row is due,
  although the comment says "every predicate again" (39015).

IMAP pool (`imap-pool.ts`):

- The back-off after a refused login is looked at only while the entry is empty: an overflow
  dials during it. A LIST that is answered after a folder was created, renamed or deleted on
  another connection stays cached. A pool closed during a dial leaves its entry `dialing`.

Watcher and webhooks (`push/dispatch.ts`, `webhooks/deliver.ts`):

- The same event id makes a repeated enqueue harmless only when no more mail came meanwhile:
  a pass that dies between the enqueue and the store, and a next one that finds more, announce
  the first messages twice, in two events that start at the same cursor
  (`OneAnnouncement` allows that after an incident only), against "no lost event,
  no duplicate" (`deliver.ts` 13-16).
- Gmail is asked twice: for the cursor (`dispatch.ts` 333) and, after an await, for the history,
  which answers until now (341). A message that comes in between is counted by this event and by
  the next one, without any incident; `OneAnnouncement` allows that to two adjacent events.
- The history is read one page of 100 deep (`mail.ts` 141), and the cursor passes what lies
  beyond: it is never announced (`excused`). Nor is what the counters of IMAP and Outlook hide,
  when a message was read or deleted between two checks.
- Which messages an event lists (ten at most) is taken from a still later list of the newest
  unread ones (`dispatch.ts` 375, `deliver.ts` 281-285), so they need not be those it counts.
- An endpoint that is switched off and on under a live lease has its row deleted and created
  anew, and the displaced pass enqueues still: `proper` leaves that out.
- A failing enqueue is swallowed while the cursor advances: the event is lost (`excused`).
- A POST that was accepted and is recorded after the endpoint was disabled stays listed as
  abandoned.
- No delivery reaches the branch that abandons it as "attempts_exhausted" (`AttemptsEnd`).

## 7. What is not modelled

The repository is large, and most of it is user interface, texts, tool schemas, formatting,
provider protocols and plain reads and writes. What is modelled is the small part in which
steps of several actors meet: the map covers about 6,300 lines in 41 files, and the rest is either
listed here or belongs to a component whose status in PROJECT.json is not_modelled, with the
reason there.

Left out of the modelled components:

- Queue: the hold while a column of a newer deploy is missing, the purge of old rows, the
  content of the inbox gates (one choice: pass or refuse), the wording of errors.
- Approvals: roles, API-key inbox allowlists and the owner checks before a decision,
  legacy drafts, the purge of payloads (which deletes content of decided rows only), the
  `cancelled` status (in the type of the column, written by no code), an approval insert
  whose answer is lost (the call then reports that nothing was queued). What a page draws
  is taken to be its revision's content and time; the dashboard's dialog
  (`apps/web/components/dashboard/ApprovalsPanel.jsx`) shows no delivery time although
  the revision covers it.
- Ledger: the hash of the arguments (requests are equal or not), `ON DELETE SET NULL` of
  approval_id when an approval is purged, account deletion, and the replay's text.
- Allowance: workspaces without a meter, paid plans, the counts behind the warning mails.
- Brakes: a fan-out limit of a workspace's own, which errors count as refusals, the notice
  to the operator, and the removal of an inbox with its events.
- Bulk: how a plan is resolved and how a run stops on its budget and resumes (`bulk_runs`).
- Tokens: scope narrowing by role, client, PKCE and resource checks, the expiry of tokens.
- Stripe: the three-month pass, which overrides the projection, and a customer id that is
  not known yet; what the mails and the referral credit do.
- Automations: the ladder of failures that disables a rule, and the rows of `triage_runs`.
- Reminders: the parsing of times, the search for a moved message (found or not), the
  notices to the owner.
- Pool: the cache of LIST and the figures of the health check.
- Watcher: which ids an event lists, the pushes to devices (sent before the enqueue), quiet
  hours and limits per host, payloads and signatures, the time at which a row or retry is
  due (any time), the count of failures (a recorded failure may switch the endpoint off),
  the plan, the removal of an inbox or an endpoint, and retention. An enqueue that races the
  disabling inside one SQL statement is below the grain of the model.

Not composed. The modules of the send path meet through `ServesApprovals` and `ServesKey`,
each of which is about one approval and its own side; there is no module whose state holds a
call, its reservation, its approval, its markers and its record together. Three things fall
between them. A marker whose insert was reported as failed is in `SendApprovals` only
(`ServesApprovals` sees the approval as given, `InsertsAnswer` is assumed for `ServesKey`). The
dispatcher's settlement of the caller's record is modelled twice, as `ledger` in
`ScheduledDispatch` and as `RecordDispatch` and `DispatchFails` in `OutboundIdempotency`,
without a refinement between them. Reservations and brakes are one step to a send.

Other components are stateless, user interface, plain reads and writes, or calls to services
outside the repository: PROJECT.json says which. `DraftLineage`, `InboxParking`
and `MapWithConcurrency` keep state worth a module and have none yet.
