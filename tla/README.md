# Cloud Ops Tool: a TLA+ verification project

The Cloud Ops Tool is a multi-tenant ticketing, monitoring and cloud-cost
platform: a NestJS modular monolith (`apps/api`) over Postgres and Redis, a web
application, a customer portal and a Go server agent. Several API processes may
run at once, one per probe location. Nothing coordinates them except the
database and the Redis stream, and most of the interesting work is done by
timers: each process has some fifteen `setInterval` sweeps, each guarded by a
`running` flag that is local to the process.

This project models the parts in which concurrency and failure decide whether
the system does what it promises: alerts and their tickets, notifications,
escalations, the creation, SLA, automation and merging of tickets, mail and
chat, log and network alerts, and the cost jobs.

## 1. Inventory

The pattern repeated through the code is: open a transaction at READ COMMITTED,
SELECT, decide in TypeScript, UPDATE by id, COMMIT, then act (publish, call,
enqueue). What can go wrong follows from it: the row read may be stale when it
is written, two processes may both decide the same, and a failure after the
COMMIT loses the act for good.

| Component | State | Operations | Talks to | What is hard | What makes it correct |
|---|---|---|---|---|---|
| Alert lifecycle (`monitor-scheduler`, `agent-ingestion`, `alert-evaluation`, `alerts`, `alert-rules`) | `monitor_checks`, `alert_rules`, `alerts`, the sweep in memory | sweep, report, evaluate (resolve, repeat, debounce, quorum, insert), link ticket, post note, acknowledge, resolve, manual link, edit rule | tickets over the internal HTTP API; event bus | concurrent evaluations, stale debounce, answer of the ticket call lost, crash between INSERT and link | one active alert per monitor, one ticket per alert, no silently unlinked alert, recovery clears alerts |
| Notification pipeline (`notifications`, `event-bus`, `notification-dispatcher`) | `notifications`, `events`, Redis stream, consumer group, pending list, a consumer's batch | enqueue, publish, consume, handle, send, mark, XACK | called by the sweeps, mail and chat channels | restarts with a batch in hand, lost and resent commands, a failed handler | at most one delivery, truthful final reports, nothing lost without a fault |
| Escalation (`escalation-sweep`, `escalation-policies`) | `alerts.last_escalated_step`, policy steps, the sweep in memory | select, mark, notify each target, edit or remove the policy | reads alerts, enqueues notifications | overlapping sweeps, policy edited half-way, crash after the mark | a step fires once, in order, to the end |
| Ticket SLA (`tickets`, `apply-action`, `automation-rules`, `scenarios`, `ticket-triage`, `sla-policies`, `ticket-types`, `overdue-sweep`) | status, type, policy, due dates, first response, resolution and overdue flags of a ticket | create, update, merge, reply, rules, scenario, triage, import, policy and type edits, overdue sweep | AI client, event bus, notifications | several writers of the same columns from rows read at different times; flags committed before the announcement | `resolved_at` matches status, dates match the policy, the policy is one its type had, every breach announced once |
| Time-based automation | tickets, `automation_rule_applications`, the open transaction | sweep: select candidates, apply actions, record, commit | agents' edits of the same tickets | two sweeps apply a rule twice, deadlock, one transaction for all rules | a rule fires once per ticket and process, what is recorded was done |
| Ticket creation and assignment | counter row, round-robin cursor, open tickets | take a number, choose an agent, insert, import, roll back | groups, agents, importer | counts and cursor read beside uncommitted creates | numbers dense, cap kept, turns fair |
| Conversation | `merged_into_id`, `ticket_messages.ticket_id` | merge, add a message, mail it | notifications | overlapping merges, replies during a merge, one email of several failing | the conversation is carried over, a failed email costs itself |
| Live chat | sessions, messages | visitor turn, agent reply (claims), close, AI reply; poll of the console | AI client, web application | claim races the AI, commits out of order of `created_at`, overlapping polls | the human wins, somebody answers, the console shows the chat once |
| Email intake | IMAP `\Seen`, tickets | fetch, create, append, flag | tickets, IMAP | a failure between ticket, message and flag | nothing flagged that is not filed, no mail left that can be filed |
| Business hours | cursor, minute of the day, minutes left (of one call) | add business minutes | SLA | edges of days and windows, seconds, clock changes | agrees with a count of working time |
| Rate limits (login throttle, ingestion) | a counter in Redis | INCR, EXPIRE | Redis | the two commands are two steps | the limit holds, a lock-out ends |
| Log alerting, network poller | `last_fired_at`; stored samples | sweep, mark, open ticket | tickets | overlapping jobs, `ts` of the BEGIN, failed call after the mark | one ticket per occasion, none lost without a fault |
| Cost (recommendations, savings, budgets, reports) | recommendation rows, savings log, alerts of budgets, `next_run_at` | sweeps, create ticket, notify, send report | tickets, notifications, provider | lost answers, aborted transactions, partial delivery, reports that never render | one ticket per recommendation, no rise unannounced where there is somebody to tell, every due report that can be rendered is run |
| Records, reads, probes, AI clients, web pages, portal, agent | independent rows or none | CRUD, queries, network I/O | | | |

`PROJECT.json` lists every component with its source files, and every hazard at
the line where it bites.

## 2. Plan

Done, most important behaviour first, each with its proofs:

1. `AlertLifecycle`;
2. `NotificationPipeline`, refining the abstract `NotificationDelivery`;
3. `EscalationSweep`, `TicketSla`;
4. the two abstract promises of a background job, `MarkThenAct` and
   `ActThenMark`, and the jobs that implement them: `LogAlertSweep`,
   `NetworkPoller`; `EmailIntake`, `ScheduledReports`, `BudgetPace`;
5. `TimeAutomation`, `TicketCreation`, `Conversation`;
6. `ChatSession`, `ChatConsole`;
7. `CostRecommendations`, `FixedWindow`;
8. `BusinessHours`.

Worth adding:

9. a composition of `AlertLifecycle`, `EscalationSweep` and
   `NotificationPipeline`: from a failing check to a message;
10. the list page of the web application, whose answers can overtake each
    other.

## 3. Modules and how they follow the code

A transaction is split at the points where another may come between: each
SELECT that a later write relies on is a step, the write and its COMMIT are one
step (the row lock makes other writers wait) unless something else happens
between them. What was read stays with the worker, so it can be stale.
Everything is one tenant's.

**Environment** is what the jobs and the handlers share: the API processes that
are deployed, the clock, the faults so far.

**AlertLifecycle.** `recent` and `latest` are the rows the debounce and the
quorum query of `monitor_checks`; `status`, `monitorOf`, `ticketOf`, `repeats`
are columns of `alerts`. A worker (a scheduler instance, or an agent's request)
goes through `phase`: `next` is the loop of `recordAndEvaluate`, `select`,
`debounce`, `quorum`, `insert`, `resolve`, `repeat` are the statements of
`applyToDatabase`, `announce`, `ticket`, `link`, `note` what `evaluate` does
after it. The partial unique index of the migration is the guard of `EvalInsert`
and of `TransitionUpdate`. `CreateTicketAnswerLost` is a call that took effect
and failed. Threshold rules are computed from the samples; an anomaly's verdict
is left open, since its baseline is older than the window. A sweep's batch is
of polled monitors or of server_agent ones (`AgentMonitors`): the two sweeps
read different columns, and only the first reads `min_failing_locations`.
`origin` and `lost` are history variables.

**NotificationDelivery** is the promise: requested, delivered at most once,
reported 'sent' only after that, never re-reported. **NotificationPipeline** is
the code: the INSERT of the notification, the INSERT of the event and the XADD
are three steps of `enqueue`/`publish`; `cursor` is the group's
last-delivered-id, `unacked` its pending list; `at..end` is the batch a
consumer holds in memory, `step` what it does with the entry. Redis and the
mail channels are modelled as the code uses them. `dropped` records the events
a fault took from their handler.

**EscalationSweep.** `Select` and `Mark` are the SELECT and the UPDATEs of
`sweepTenant`; `TakeUp` and `Notify` the loops over pending escalations and
targets; the clock counts minutes. An edit of the policy replaces its steps at
any time, the marker being an index into them. `Acknowledge` may hit a resolved
alert because `AlertLifecycle` shows it can.

**TicketSla.** A row has the columns the SLA depends on. `Read` is the SELECT
of any request, `WriteUpdate`, `WriteScenario`, `WriteReply` and `WriteMerge`
are what each writes; `RunRules` applies the automation rules in order, each
seeing the row the last one left. `now()` is the time the transaction began,
while `update` computes `resolved_at` at the write. `policyOf` is
`ticket_types.default_sla_policy_id`, which `EditType` changes without a look at
the tickets of the type; the history variable `hadPolicy` keeps what it was.
`Import` is the importer's INSERT: dates and status of its own, a type, no
policy. `typeOnly` are the tickets whose type came last from the triage or the
import, which write it without the policy; an update that names a type takes
the ticket out again.

**TicketCreation.** `TakeNumber` is the upsert of the counter's row, which
stays locked until `CommitCreate`, `CommitImport` or `Rollback`; in between
`ChooseByLoad` and `ChooseInTurn` are `pickAssignee`. That lock is what
serialises the counts, so `CapHolds` is a property of the order of statements
in `create`, not of `AssignmentService`.

**Conversation.** `merge` reads a source, starts an UPDATE with the messages
that are committed then (`StartMove`), takes them one after the other and waits
for rows of others (`MoveMessages`), closes the source and commits; opposite
merges can deadlock, and one is rolled back. `addMessage` commits and then
sends its emails one by one.

**TimeAutomation.** One transaction per sweep; `mine` are the rows it has
updated and locked, seen by itself only. `Candidate` is the WHERE clause on
what the transaction sees; the application row's unique index makes a second
sweep wait (`Waits`).

**NetworkPoller.** The newest sample of an interface is the one with the
greatest `ts`, and `ts` is `now()`, the BEGIN of the INSERT. So a reading goes
through `record` (SELECT of the previous sample), `store` (to the BEGIN),
`insert` (to the COMMIT) and `ticket`. `ahead` says which open INSERTs began
before which; a COMMIT makes those that began earlier `outdated`, and what they
store is never the newest. `upSince` and `upAfter` are history: whether an `up`
newer than the drop a process last noticed became the newest sample.

**ScheduledReports** and **EmailIntake.** What fails at every pass is not a
fault that comes and goes. `Unrenderable` are reports that `create` accepts and
no `render` can make (`cost_by_tag` without `params.tagKey`): each sweep meets
them again, logs, and goes on. `Unusable` are mails that each poll passes over
or fails on (no source, no From address, a reference no integer column can be
compared with): they stay unseen for ever. A fault is what fails once.

**BudgetPace.** `addressed` says whether a budget has both a channel and a
recipient; both are optional and edited (`EditRecipient`). `paceTo` is what the
sync's SELECT read of it: without both, `NotifyOwner` returns at once and the
alert opens or rises in silence. `raises` counts the openings and rises that are
to be announced.

**MarkThenAct** and **ActThenMark** are the two promises a background job can
give. To record first means at most one action per occasion, and a fault may
lose it (`LogAlertSweep`: `last_fired_at`, then the ticket; `NetworkPoller`:
the stored sample, then the ticket). To act first means nothing is recorded
that was not done, and a fault may repeat it (`EmailIntake`: ticket and message,
then `\Seen`; `ScheduledReports`: deliveries, then `next_run_at`; `BudgetPace`:
the notification inside the transaction, then its COMMIT). Each job's last
definitions are the INSTANCE with its mapping.

**ChatSession.** A message has the time its transaction began and its place in
the order of commits. The responder of a turn reads (`LoadContext`), may give
up, waits for the advisory lock, inserts under its gate (`MayAnswer`) and
commits. **ChatConsole** is the page's polling: `poll` holds requests under way
with the `since` they went out with, `visit` numbers the runs of the effect
whose `active` flag a late answer meets.

**CostRecommendations.** A sweep's transaction works in `draft` and waits on
the partial unique index; a caught error leaves it aborted (`CommitAborted`).
`createTicket` is read, call, write. **FixedWindow** is INCR and EXPIRE of
`auth-security.ts` and `ingest-rate-limit.ts`.

**BusinessHours** is `addBusinessMinutes` as a state machine: `question` holds
its arguments, `position` its cursor, minute of the day and `remaining`, `due`
its result. `Fallback` is the early return, `PositionCursor` what precedes the
loop, `ConsumeDay` and `ReturnDue` the loop's two branches; `ZonedTimeToUtc` and
`NextWorkingDay` are its conversions. Instants are integers, `MinuteLen` of them
a minute and `DayLen` minutes a day; a zone is an offset that may change once.
The reference, `CountsWorkingTime`, counts working instants and knows of no
cursor, day or conversion back.

**Jobs** and **TicketWriters** have no state of their own: they state what
several components promise together (`JobsImplementPromises`,
`RepetitionIsBounded`; `ResolvedAtIsRight`).

`MCSweeps` and `MCConcurrent` put several components into one run: they share
the environment and nothing else, so a behaviour is about one part, chosen at
the start, and the state spaces add up. They define values for the constants
and, where a part needs less than the others, bounds. `MCTicketSla` does the
same with several settings of one component, `MCAlertReports` with two monitors
and a constraint that a behaviour is about one of them. The other `MC` modules
only define values. Definitions marked "Mutant of X" are not part of a
specification: they are the slips that show that a property can fail.

## 4. Runs

Every passing run has, for every property, a mutant: a definition replaced by
a plausible slip (a forgotten reset, an index left out, an early
acknowledgement) under which TLC reports that property violated.

| Run | Instance | Shows |
|---|---|---|
| `alert_operators` | one scheduler, one operator, window 2, one fault | `UnlinkedIsAccountedFor`, and `OpensWhileStillFailing`: no alert opens on a debounce that is no longer true |
| `alert_reports` | two instances polling one monitor from two locations, one of which sees failures, quorum 2; or an agent's reports of one monitor against the sweep for silent agents; all rule kinds, edited, one fault | `OneActivePerMonitor`, `AtMostOneTicketPerAlert` for concurrent evaluations; `FewLocationsNeverAlert`: one failing location of two never opens an alert of a status rule on a polled monitor |
| `alert_liveness` | one scheduler, one operator, fair | `ClearsAfterRecovery`, `AlertGetsTicket` |
| `notify_faults` | two processes, two notifications (one unsendable), a foreign event, two faults of any kind | `QueuedIsAccountedFor`, `AckedIsSettled` |
| `notify_delivery` | two processes, two notifications, one fault except a resent command, fair | `ImplementsDelivery` (refinement), `QueuedIsSettled` |
| `sla_sweep` | one request at a time, triage applied, imports; one process's sweeps, fair, with one policy edit or one fault; or two processes' overlapping sweeps and one fault; or one edit of a ticket type | `RightInTurn` (`PolicyFollowsType`, `FirstResponseIsFirst` and `NotifiedOncePerProcess`), `FlaggedIsNotified`, `OverdueIsFlagged` |
| `sweeps` | one process, one fault, edits, fair; parts: escalation (two alerts, three policies), logs, reports, mail, budgets, rate limit | `OwedIsAccountedFor`, `EscalatesOnceInOrder` (`FiresOnce`, `EscalatesInOrder`), `EscalatesForward` (`MarkerNeverReturns`, `EscalatesToTheEnd`); `JobsCatchUp`: a failed pass is made up for (`NoisyRuleFires`, `DueReportIsRun`, `MailIsTaken`, `AlertFollowsSpend`, `LockoutEnds`), and a report or mail that can never be processed does not hold up the others |
| `concurrent` | one and two processes, two overlapping requests, one fault; fourteen parts | see below |

Some properties of `concurrent` say one thing of several parts, each in that
part's own terms: `TypesOK` (the type invariants; with them, that no row is held
by two transactions, no message is on the page twice and no limit is passed),
`ResolvedAtIsRight`, `JobsImplementPromises` (three refinements) and
`RepetitionIsBounded` (what the jobs do again, or leave half done, is bounded by
the faults and the processes). The table names the part's conjunct.

| Part | Instance | Shows, besides `TypesOK` |
|---|---|---|
| SLA columns | two requests (update, scenario, merge), three rules, triage on, imports | `ResolvedAtMatchesStatus`, `DuesFollowPolicy` |
| Logs | one rule, two settings, two entries | `FiresSpaced`, `LogImplementsPromise` |
| Network | one interface, two changes; INSERTs that overlap commit in either order | `OutagesAreNoticed` (`NoticedOncePerOutage`, `DropsAreNoticed`), `NetImplementsPromise` |
| Reports | two reports, two recipients and one | `RepImplementsPromise`, `CopiesAreBounded` |
| Mail | a new mail, a reply, one without sender | `MailImplementsPromise`, `TicketsPerMailAreBounded`, `EmptyTicketsAreFaults` |
| Automation | three rules that feed each other, one ticket, one agent's edit | `RulesActInTurn` (`AppliedMeansActed`, `LaterRulesSeeEarlier`, `RuleFiresOncePerProcess`, `TagCopiesAreBounded`), `AutoResolvedAt` |
| Chat | two visitor turns, two agent messages | `OneReplyAfterHandoff`, `NewestTurnIsAnswered` |
| Creation | two creates, an import, two agents (one skilled), cap 1, one staff edit | `NumbersAreDense`, `CapHolds`, `TurnsAreFair` |
| Budgets | one budget with or without somebody to tell, two changes of spend, recipient or activity | `PaceImplementsPromise`, `NoticesAreBounded` |
| Cost | one monitor, two recommendations, two users | `ClosedForGood` (`ClosedStaysClosed`, `SavingsAreEarned`), `TicketsPerRecAreBounded` |
| Rate limit | two requests, limit 2, window 2 | `KeyExpires` |
| Conversation | three tickets, two merges, one post, one watcher | `CarriedOver`, `MergedOnceInTurn`, `FailedMailCostsItself` |
| Console | two sessions, three messages, two polls at once, two selections | `TranscriptIsTheChat` (`ShowsThisChat`, `CursorSkipsOnlyLate`) |
| Hours | 42 anchors, 5 targets, 18 settings, 3 zones; minutes of two instants, days of six minutes | `DueCountsWorkingTime` (`CountsWorkingTime`, `NotBeforeAnchor`) |

Four runs state what the repository says of itself and find it violated; the
findings quote the lines.

- `alert_reopened`: `transition` checks the status it read and writes by id, so
  a late acknowledge turns a resolved alert back into an active one.
- `notify_restart`: the loop reads only `>`, so entries a stopped process had
  read are never read again, although the comment says a consumer "never misses
  an event across restarts".
- `escalation_twice`: with two processes a step fires twice, although the
  comment says "exactly once no matter how many overlapping sweep passes run".
- `chat_twice`: the newest message is found by `created_at`, so two AI replies
  can be committed in a row, although the gate "blocks a duplicate AI reply".

Four more statements of the repository do not hold of the code. They have no
run of their own; the property that bounds what happens says so in its comment.

- Two processes' overdue sweeps both find a breach unflagged, flag it by id and
  announce it (`overdue-sweep.service.ts:122`), although each breach is marked
  "in the same transaction as the read, so a ticket is never notified twice even
  across overlapping/interval-driven runs" (`overdue-sweep.service.ts:28-31`).
  `NotifiedOncePerProcess` bounds it: each process announces a breach once, in
  however many sweeps, and mails it no more often than it announces it.
- Two processes' sweeps apply a time-based rule twice, although "overlapping
  sweep runs can't double-apply a rule" (`time-automation-sweep.service.ts:25-27`):
  the unique index keeps one application row, but the actions were done.
  `RuleFiresOncePerProcess` bounds it by the number of processes.
- Two users who ask for a ticket of one recommendation at the same time make two
  tickets and the second link replaces the first, although the rule is "ticket id
  set once" (`recommendations.service.ts:21-22`). `TicketsPerRecAreBounded`
  counts such users.
- The sweep for silent agents does not read `min_failing_locations`
  (`monitor-scheduler.service.ts:167-169`, `:234`), so a `server_agent` monitor
  that asks for two failing locations alerts on one, although "an alert only
  opens once at least that many distinct locations are currently failing"
  (`1784370000000-AddMultiLocationProbing.ts:7-9`). `FewLocationsNeverAlert` and
  its theorem are about monitors that are polled.

A fifth is a test's: an anchor with seconds inside working hours is due up to a
minute before anchor plus target, since `zonedParts` drops the seconds
(`business-hours.ts:127`). `verify-business-hours.ts:146-150` asserts that the
"business-hours due date is never earlier than the flat-elapsed equivalent"; it
creates its ticket at the wall clock's time, so the assertion holds outside
working hours and fails within them. `CountsWorkingTime` counts from the anchor's
minute.

What the properties had to leave room for, that is, what the code does not
promise although one might expect it:

- `AlertsService.linkTicket` replaces a link it did not see; two agents' replies
  can overwrite `first_response_at`; editing an SLA policy recalculates no due
  date, and editing the policy of a ticket type leaves the tickets of the type
  as they are; the AI triage and the importer write a type without the policy
  derived from it. So `FirstResponseIsFirst` is checked for one request at a
  time, `DuesFollowPolicy` without edits of a policy, and
  `PolicyFollowsType` asks that a ticket has a policy its type has or had, and
  nothing of a ticket whose type the triage or the importer wrote.
- A `cost_by_tag` report without `params.tagKey` is accepted, throws at every
  sweep and stays due for ever; a mail without source or sender is fetched at
  every poll and never flagged. `DueReportIsRun` and `MailIsTaken` are about the
  others. (A body that PostgreSQL cannot store, which also fails at every poll,
  after making an empty ticket each time, is not modelled.)
- A budget without channel or recipient opens and raises alerts that nobody is
  told of: `PaceImplementsPromise` is about budgets that were read with both.
- The poller finds the newest sample by the BEGIN of its INSERT. A poll of `up`
  that began later and committed earlier than a `down` hides that `down`: the
  process that stored it notices the outage again, although nothing stored `up`
  in between. `NoticedOncePerOutage` asks for an `up` that is newer by `ts`.
- `merge` does not look whether the primary is itself merged: chains and cycles
  are possible even one after the other. Overlapping merges process a source
  twice (`MergedOnceInTurn` is about merges in turn), and a reply committed
  after a merge looked for messages stays in the closed source (`late` in
  `CarriedOver`).
- In `addMessage` the lookup of the assigned agent's address is not caught, so
  its failure drops the watchers' emails too (`FailedMailCostsItself`).
- A fault between INCR and EXPIRE leaves a counter without expiry
  (`KeyExpires` asks for its absence).
- A chat message that commits after one that began later is passed by the
  console's cursor and not shown until the session is opened again
  (`overtaken` in `CursorSkipsOnlyLate`).
- A change of the clock inside working hours shifts the result, and where a
  window ends just where the clocks skip, a due date at its end can come out
  early, since that reading of the clock does not exist. `QuietSwitch` leaves out
  just these: no reading that is skipped or shown twice is worked, and no window
  ends at the first of them.
- `TicketListPage` cancels no request: an answer for an older filter can arrive
  last. No property of the shown list would hold, so it has no module.

### Bounds

- **Alerts 2, tickets 2 or 3.** A second row is enough for a second active
  alert, a second ticket, or a reopened old alert beside a new one. When the
  rows are used up the evaluation waits; the liveness property asks for a free
  row.
- **One monitor, or one of two.** Alerts of different monitors share no row; the
  interference is between workers on the same one. `alert_reports` has one with
  an agent and one without, and a behaviour is about one of them. A sweep over
  several monitors only adds order, which the proofs cover.
- **Window 2, quorum 2, `NoteEvery` 1 or 2.** The smallest values for which one
  bad check, one location or one repeat does not suffice. In `alert_reports` the
  quorum is asked for and never met, since `FewLocationsNeverAlert` is about
  that; what follows once it is met is what follows a debounce without quorum,
  which the other alert runs explore.
- **Faults 1 or 2.** Each fault is recorded for what it hit, so the properties
  speak about what no fault touched; a second fault is allowed where
  interaction is possible (the pipeline).
- **Two notifications, two processes, batch 2.** Enough for a batch of two, for
  two batches of one, for one process to stop with a batch in hand while the
  other reads on.
- **Clock 1 or 2 units.** Every delay, window and cadence is at most 1, and the
  target minutes at most 2; overdue is a strict comparison, so the clock of
  `sla_sweep` passes a due date of 0 or 1.
- **One ticket in TicketSla and TimeAutomation.** No operation modelled there
  writes two tickets' columns except merge, whose effect on the source is
  modelled in TicketSla and whose messages are in Conversation.
- **Two processes, two requests.** The races of the code are between two
  transactions on a row; the bounded properties ("one per fault and process")
  are counted, so a third adds one more of the same. Deployed sets of one and
  of two processes are both explored.
- **Three tickets in Conversation.** The smallest number for two merges with a
  common primary or source, for a chain and for opposite merges.
- **Two turns in the chat part, three in `chat_twice`.** Two responders are
  enough to race a claim and each other; the duplicate needs a turn that
  overtakes a reply, and a third responder.
- **Millisecond 2 in the console.** Two `created_at` values share a
  millisecond, so the cut cursor asks for a message again.
- **Smaller bounds of single parts** are the conjuncts marked BOUND in
  `MCConcurrent`, `MCSweeps`, `MCAlertReports` and `MCTicketSla`. In `sla_sweep`
  types are edited while the clock stands still: neither the sweep nor the time
  has a part in `PolicyFollowsType`.

`CHECK_DEADLOCK FALSE` appears where the model has nothing left to do: in the
pipeline once all notifications of the bounded set are handled and the
processes are up, in `concurrent` and `chat_twice` once every ticket is created
or the chat had its last turn.

### Fairness

`setInterval` starts a sweep again and again for as long as the process lives,
and the `finally` of each sweep resets `running`: weak fairness of a sweep's
steps (in `sweeps` of the job of each deployed process). A request that was
started runs to its end or fails: weak fairness of an operator's UPDATE and of
the EXPIRE after an INCR. A stopped process is started again
(`restart: unless-stopped` in `docker-compose.prod.yml`): weak fairness of
`Start`. The clock runs. No fairness is assumed of users, agents, mail, spend,
rule and policy edits, triage or faults.

## 5. Proofs

TLAPS proves the theorems below for all values of the constants that satisfy
the named assumptions. These say that parameters have their types, that windows
and counts are positive, that the sets that are counted (processes, locations,
agents, callers, creates, watchers, chat messages) are finite, and that `None`
is not among the rows and names. A theorem that needs more says so in its
statement, and the need is named here.

**AlertLifecycleProofs**

- `TypeCorrect`: `Spec => []TypeOK`. Not inductive alone: `ShapeOK` adds what a
  worker carries in each phase (`Fits`), without which a phase could write a
  row named `None`.
- `OneActive`: `Spec => []OneActivePerMonitor`. Given the shape it is inductive,
  because every write that makes an alert active is guarded by the partial
  unique index.
- `OneTicketPerAlert` and `NoSilentlyUnlinkedAlert`, from the invariant
  `LinkInv`: rows worked on exist, at most one evaluation is on its way to link
  an alert (`OneLinker`, because only the evaluation that inserted the row
  links it), no ticket exists for an alert before its evaluation asks
  (`NoTicketYet`), and the origins of tickets are rows (`OriginsExist`).
- `OpensOnFailure`: with one worker and status rules, an alert opens only while
  the whole window is bad. `StillFailing`: what the debounce read stays so until
  the INSERT. With a second worker it is false (a good check may come between),
  and a threshold rule's debounce looks at other rows.
- `QuorumSuppresses`: fewer failing locations than `min_failing_locations` never
  open an alert of a status rule for a polled monitor, for any number of
  schedulers and agents. `SeenThere`: the newest row of a location was seen
  there; `QuorumHeld`: an evaluation past the quorum has that many locations
  that can fail.

**NotificationPipelineProofs**

- `TypeCorrect`, `NothingLost`, `OnlySettledAcked`, `StreamRecorded`, from
  `Account`: an event whose XADD is due is recorded and rows agree with calls
  (`CallsInv`), entries are published events (`StreamInv`), a running process
  has created the group (`GroupInv`: so a start never moves the cursor), and a
  consumer about to acknowledge has settled its notification (`AckInv`).
- `Implements`: if commands are not resent, `Spec => ImplementsDelivery`. It
  needs `Single`: entries are distinct events (`Distinct`), no two consumers
  hold one entry (`Disjoint`), what nobody has come to is queued and unsent
  (`AheadFresh`), and what a consumer has in hand is in the state its step
  calls for (`HandInv`). With resent commands the theorem is false: the client
  may add an entry twice and the recipient gets two messages.

**EscalationSweepProofs**

- `NothingOwedIsForgotten`, for any number of processes. A message owed leaves a
  sweep's hands only by going out or by a fault; that needs `RowsOK` (markers of
  selected rows are at least -1, so the step marked is a step of the policy) and
  `HeldOK` (a sweep holds escalations only between its COMMIT and its end, each
  with a message left).
- `FiresOnceInOrder` and `MarkerForward` (the safety half of
  `EscalatesForward`), under `[]Alone`: the run `escalation_twice` shows that
  two processes break them. `OnceInv`: what the sweep read is still so when it
  marks (`ReadsHold`), an escalation in hand is of the step its alert is marked
  with and has sent the targets before its next (`HandsHold`), and nothing went
  out of a step beyond the mark (`SentOK`).

**TicketSlaProofs** (`TicketSla` and `TimeAutomation`)

- `SlaTypeCorrect`, from `SlaShape` (what a request carries). `ResolvedAtRight`
  needs nothing of what a request has read: every writer writes status and
  `resolved_at` together.
- `DuesRightUntilEdited`: dates follow the policy as long as no policy was
  edited. `Anchored`: a request computes from the row's own `created_at`.
- `FlaggedBreachesNotified`: a flagged breach was announced, was lost to a
  fault, or is in the hands of the sweep that flagged it (`Dispatching`).
- `AnnouncedOncePerProcess`: any number of processes sweep at once, and no
  breach is announced more often than there are processes, or mailed more often
  than announced. What was announced is flagged (`FlaggedFirst`), so no new sweep
  finds it; the events of a breach and the sweeps that may still publish one are
  together no more than the processes (`NoticesCounted`).
- `RightWhenInTurn`: under `[]InTurn` (requests one after the other; sweeps may
  overlap), `RightInTurn`, for any edits of policies and types, any imports and
  any answers of the triage. `RowsInTurn` adds that what a request has read is
  current and that no reply on record is later than the one under way; that the
  policy is one of its type's follows since each writer of a type either writes
  the type's present policy, which `hadPolicy` has, or enters the ticket in
  `typeOnly` (`TypeSteps`, `ImportedRow`). Without the hypothesis the conjuncts
  about rows are false (section 4).
- `AutoTypeCorrect` and `RulesInTurn`, the conjunction of `AppliedActed`,
  `LaterRulesSee`, `RuleFiresBounded` and `TagCopiesBounded`. `AutoInv`: a
  transaction's rows keep `resolved_at` right and add one tag (`TxRows`), its
  candidates are rows of the rule at hand (`TxCandidates`), notes go with
  application rows (`TxNotes`). The bounds count: `FiresCounted` weighs the notes
  against the transactions that may still add one, `CopiesCounted` the tags
  against those that read the row without it.
- `ResolvedAtAlwaysRight` joins the two components.

**TicketProofs** (`TicketCreation` and `Conversation`)

- `CrTypeCorrect`, `NumbersDense`, `CapIsFirm`, `TurnsFair`. Each rests on the
  lock of the counter's row: the number taken is the next one until its
  transaction ends (`Numbering`), the agent chosen by load still has room when
  the ticket is inserted (`Loading`), and the agents up to the cursor had exactly
  one turn more than those after it (`Turning`).
- `ConvTypeCorrect`, `MessagesCarriedOver`, `MergedOnce` from `ConvInv` (a
  message of a ticket that a merge has looked at is one it will move, or came
  late; while merges do not overlap, what is being closed was not merged),
  `FailedMailsBounded` from `DropsCounted`.

**BusinessHoursProofs**

- `DuesCountWorkingTime`, for all hours, zones, anchors and targets, and with it
  `HoursTypeCorrect`. `HoursAssumption` says what the code justifies: hours
  within a day and days within a week (the DTO's validation), clocks that change
  at a whole minute and by at most a quarter of a day. The argument has three
  parts. A reading of the clock that exists once is converted to the only
  instant that has it (`CalmConverts`), so each window lasts as long in time as
  on the clock (`WindowLasts`). Whole days from local noon reach every later day
  (`NoonSteps`), so the loop's next day is the next working one
  (`NextDayIsNext`) and nothing is worked on the way (`IdleUntil`,
  `NothingBetween`). And the invariant `HoursInv`: the cursor lies in a window
  (`InWindow`), and from the anchor's minute to it exactly the minutes that no
  longer remain were worked (`Counted`), without which the due date alone says
  nothing of how it came about.
- `EveryDayConsumes`: every round of the loop leaves fewer minutes, but some.

**JobsProofs** (`Jobs`, `FixedWindow`)

- `JobsKeepPromises`, `MailRefines`, `PaceRefines`: the five jobs implement their
  abstract promises. Behind a `MarkThenAct` job stands an equation: every mark
  has its ticket, was dropped, or is in one process's hands (`MarksAccounted`,
  `DropsAccounted`). Behind an `ActThenMark` job stands what its mark relies on:
  what is flagged is filed (`FlaggedIsFiled`), recorded rises of budgets that
  were read with somebody to tell do not exceed notifications (`RiseIsNoticed`),
  a run's deliveries were made (`CopiesCounted`). A mark set twice is a stutter under the mapping.
- `RepetitionBounded`, from a count per component (`CopiesCounted`,
  `MailsCounted`, `NoticesCounted`, `RecTicketsCounted`): what was done is at
  most what was recorded, plus one per fault, plus one per process or caller
  that will not do it again.
- `FiresAreSpaced`: `last_fired_at` is not before what the process wrote last
  (`FiresRecorded`), and the window has passed for every row still to be marked
  (`RowsQuiet`), since no rule has two rows in a sweep (`RowsDistinct`).
- `OutagesNoticed`: an `up` that is compared with became the newest sample after,
  by `ts`, the drop last noticed (`UpIsNews`), in whatever order the INSERTs
  commit: `BeginOrder` says that the open INSERTs of an interface are ordered by
  their BEGINs and that what began before an outdated one is outdated too. A
  process alone compares with the newest sample (`ComparesWithNewest`).
- `RecsClosedForGood`: a draft is on top of the committed row, and in nobody's
  view are two recommendations open (`DraftsOK`); only solved ones are booked
  (`RowsOK`).
- `WindowTypeCorrect` (no more requests pass in the life of a key than the
  limit) and `KeysExpire`: `PassedIsCounted` ties what passed to the counter.
- the type invariants of all six jobs.

**ChatSessionProofs** (`ChatSession` and `ChatConsole`)

- `ChatTypeCorrect` (the advisory lock: one responder between INSERT and
  COMMIT), and `HandoffWins`: `HandoffInv` adds that nothing is counted before
  the claim and that the count is zero while a reply is uncommitted.
- `VisitorsAnswered`: while nothing failed and nobody claimed the chat, a
  visitor who wrote last has a responder that will answer. `WillAnswer`: it has
  still to read the session, or its reply is newer than every turn.
- `ConsoleTypeCorrect`, `TranscriptRight`. `Covers`: a cursor of the selected
  chat has everything committed in time below it on the page; a poll asks past
  such a cursor and its answer closes the gap to its own last message. That the
  merged transcript is sorted and has every message once is a lemma about
  `SortedBy`: a message's place is the number of messages up to it.

`Spec /\ AutoSpec`, `LogSpec /\ NetSpec /\ RepSpec` and the like are components
side by side in one environment; no component writes another's variables.

The loops over rules and actions are recursive functions over an interval. What
they preserve is proved with `IntervalInduction`, an induction over `0..n` with
a set in place of the predicate, from the library's well-founded minimum.

The type invariants of the alerts and of the pipeline, and `StreamIsRecorded`,
are proved and so have no run.

Only model-checked:

- liveness (`ClearsAfterRecovery`, `AlertGetsTicket`, `QueuedIsSettled`,
  `OverdueIsFlagged`, `JobsCatchUp`, and `EscalatesToTheEnd` in
  `EscalatesForward`): fairness and `ENABLED` are outside the prover;
- `TypesOK` of `concurrent` as one formula: it only distributes the parts' type
  invariants over the parts, and each of these is proved.

What a violation run states is refuted, so it has no theorem.

## 6. Not modelled

- Row-level security and tenants: every model is of one tenant.
- What follows a commit in `TicketsService.update`: the assignment email and the
  knowledge-base draft. Clearing the type of a ticket is not an input of the
  model; nor is the removal of an SLA policy (types and tickets lose the
  reference, the due dates stay) or the conversations of an import (they leave
  `first_response_at` NULL). `TicketSla` computes due dates as creation time
  plus target minutes, as `calculateDueDates` does without business hours;
  `BusinessHours` stands by itself. A zone has one change of its offset: a
  question that spans two is not modelled, nor a zone that skips a whole day.
- Removing a log rule, and reopening a ticket after its recommendation's saving
  was booked. `last_fired_at` is written as the time of the step that writes it;
  in the code it is the BEGIN of that short transaction.
- Message texts, templates, reasons; the values of metrics beyond "breaches or
  not"; how many repeats an alert had beyond the bound; amounts of money.
- Passwords, tokens, second factors and single sign-on: cryptography over single
  rows.
- The components marked `not_modelled` in `PROJECT.json`, with their reasons.

Most of the repository's lines are of kinds that have no behaviour to check in
this way: React pages and API clients that load, show and submit (about a quarter
of all lines), DTOs, entities, modules and controllers that declare, CRUD
services of independent tables, migrations, verification scripts, provider SDK
calls and network probes, prompts and formatting. The map therefore covers a
small share of all lines: the statements of the jobs and handlers in which
concurrency, failure and order matter.
