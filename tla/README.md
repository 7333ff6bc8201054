# HealthPage in TLA+

HealthPage is a status-page service: a Go API process, a set of Go workers, a
PostgreSQL database and a RabbitMQ broker. This directory holds TLA+ models of
its parts that are hard to test, TLC configurations that check them on small
instances, and TLAPS proofs for any number of nodes, messages and faults.

Paths below are relative to `src/backend/internal/` unless they start with
`cmd/`, `migrations/` (both under `src/backend/`) or `DESIGN.md`.

## 1. Inventory

### Parts, state and operations

| Part | State | Operations | Modelled in |
|---|---|---|---|
| Notification engine (`notify/`) | none of its own; writes the journal, publishes | `IncidentCreated`, `IncidentUpdated`, `MaintenanceEvent` (all through `dispatch`), `SendConfirmation`, `SendAccessLink`, `Retry` | `Delivery` |
| Queue topology, publisher, consumer (`queue/`) | exchanges, bindings, queues (RabbitMQ) | `DeclareTopology`, `Publish`, `PublishDelayed`, `Consume` | `Delivery` |
| Channel workers (`email/`, `telegram/`, `slack/`, `webhookout/`, `cmd/worker-*`) | the unacknowledged message of each loop | `Process` and the acknowledgement | `Delivery` |
| Notifications journal (`store/notifications.go`) | `notifications.status`, `.attempts` | create, mark sent, mark failed, increment | `Delivery` |
| Subscribers, double opt-in (`api/subscribe.go`, `api/subscribers.go`, `store/subscribers.go`) | `subscribers` rows, confirmation tokens | subscribe, reissue, confirm, unsubscribe, add, delete | `Subscribers` (their effect on a fan-out: `Delivery`) |
| Telegram and Slack subscription (`telegram/bot.go`, `api/slack.go`) | the offset of the polling loop; a signed state | `/start`, `/stop`; return from Slack's OAuth | `Subscribers` |
| Billing (`billing/`, `store/billing.go`, `cmd/worker-billing`) | `subscriptions`, `payments`, `accounts.billing_plan` | `Checkout`, `HandleWebhook`, `Cancel`, `ProcessDue` | `Billing` |
| Incidents (`api/incidents.go`, `store/incidents.go`) | `incidents` and their components | create, patch, add update, delete | `Incidents` |
| Planned maintenance (`api/maintenances.go`, `store/maintenances.go`) | `maintenances` and their components | create, patch, delete | `Incidents` |
| Component status (`store/components.go`, `domain/derive.go`) | `components.current_status`, `component_status_history` | manual change, derived change, soft delete | `Incidents` |
| Inbound alerts (`api/integrations.go`, `webhook/`) | `incidents.external_dedup_key` | `ingestAlert` | `Incidents` |
| Components, groups, summary, uptime (`api/components.go`, `api/public.go`, `domain/summary.go`, `domain/page_status.go`, `domain/uptime.go`) | `components`, `component_groups`, `component_status_history` | create, patch, delete; what a visitor is shown | `Board` |
| Importer (`importer/`, `api/import.go`, `store/import.go`, `cmd/worker-import`) | `import_jobs`, `external_id_map`, the rows it creates | open a job, run it, settle it | `Importer`, `StatusPal`, `ImportContract` |
| Sessions (`auth/service.go`, `api/auth.go`) | `users`, `refresh_tokens`, the cookie of a browser | register, login, refresh, logout | `Sessions` |
| Pages, custom domains (`api/pages.go`, `api/page_domain.go`, `dokploy/client.go`) | `status_pages`, the records at Dokploy | create, patch, delete, verify a domain | `Pages` |
| API tokens, private pages (`api/tokens.go`, `api/middleware.go`, `api/page_access.go`, `api/allowed_emails.go`) | `api_tokens`, the lists of addresses; passes and links are signed and stored nowhere | create, delete, check; password, magic link, view | `Pages` |
| Certificates, component tree, templates, changelog, feeds, rendering, generated code, frontend | | | no (section 6) |

### How they interact

A handler of the API process changes incidents or maintenances in one
PostgreSQL transaction and then calls the engine on the request's own context.
The engine reads the subscribers, writes one journal row each and publishes one
message each. A worker takes the message, looks at the journal row, sends, and
records the result; a transient error publishes a delayed copy and acknowledges
the original, an exhausted schedule dead-letters it. Billing runs in two
processes at once, the API for checkout, cancellation and webhooks and
`worker-billing` for renewals, over the same rows and without transactions.
The importer's API writes a job and publishes its id to `q.import`; a replica of
`worker-import` fetches the whole source and then creates rows one call at a time.
The plan that `Billing` writes is what `Pages` asks before it lets a page be private
or have a domain; the letters of `Subscribers` and the links of `Pages` are
messages of `Delivery`; the components `Incidents` derives a status for are those
`Board` shows.

### What is hard

* **Delivery**: two stores (journal and broker) without a common transaction;
  at-least-once delivery; confirms that get lost; replicas of a loop; requests
  whose client leaves; unsubscription at any moment; a bounded schedule of retries.
* **Billing**: read, call the provider, write the *whole row* back: every pair of
  callers can overlap; the provider redelivers and reorders; charges whose answer
  is lost; the payment marked before the effects of the payment.
* **Incidents**: transactions under READ COMMITTED that derive from other rows;
  whole-row writes from copies read before the transaction; partial unique
  indexes as the last line of defence; redelivered alerts.
* **Importer**: dozens of independent writes without a transaction, of which a
  dead or expired run leaves any prefix; the only memory is a map written after the
  row; jobs on one page run in parallel; errors that are only logged.
* **Subscribers**: read, decide, write in separate queries by five writers; tokens
  that are replaced while a letter is under way; a bot that repeats its batch.
* **Sessions**: a token that is read, then revoked; two tabs with one cookie;
  answers that arrive in another order than they were given.
* **Pages**: a copy of the row carried through DNS, Dokploy and two updates.
* **Board**: two queries of a visitor around an operator's change; integer
  arithmetic over periods that straddle the window.

`PROJECT.json` lists each hazard at its line with the properties that cover it.

### What makes each part correct

* Delivery: what the broker confirmed is never lost; `sent` and `failed` are true;
  no delivery to an unsubscribed address begins; a fan-out accounts for everyone
  it selected; duplicates are paid for by faults; everything is settled in the end.
* Billing: premium is paid for; paid is turned on; no shutdown before the dunning
  is used up; no second charge for a period; a cancellation stays.
* Incidents: component status is the worst active one; one open history period
  that agrees with it; stamps agree with statuses; one open incident per key.
* Importer: a job reported clean has carried over everything; orphan rows are
  paid for by faults; the tree and the statuses are the source's; jobs settle.
* Subscribers: nobody is subscribed without consent; who subscribed can confirm;
  the chat gets what it asked for last.
* Sessions: one successor per token; rotation signs nobody out; logout ends.
* Pages: privacy is what was asked last; verified means checked; the record at
  Dokploy serves the page's domain; a private page is seen with a good credential.
* Board: a component is listed once; the head of the page is explained by what
  it lists; uptime is the true share of time.

## 2. Modules

| Module | Contents |
|---|---|
| `Delivery` | engine, broker, journal, workers: state, actions, properties |
| `DeliveryProofs` | the inductive invariant of `Delivery` and the theorems |
| `Billing` | checkout, webhooks, cancellation, renewal and dunning |
| `Incidents` | incidents, maintenances, alerts, component status and history |
| `StatusPal` | the adapter of the source as operators: walk of the services, paging, mapping of statuses |
| `Importer` | jobs, `q.import`, replicas, the engine's passes; `EXTENDS StatusPal` |
| `ImportContract` | what the verdict of an import promises; `Importer` implements it |
| `Subscribers` | double opt-in, the operator, Slack, the Telegram bot |
| `Sessions` | registration, login, rotation, logout, cookies |
| `Pages` | pages, domains, API tokens, the gate of private pages |
| `Board` | components, groups, the summary and the uptime |
| `BillingProofs`, `IncidentsProofs`, `SubscribersProofs`, `SessionsProofs`, `PagesProofs`, `BoardProofs`, `ImporterProofs` | the inductive invariants of these components and the theorems |
| `MC...` | definitions of constants and symmetries for TLC |

Definitions marked "Mutant" are not part of any specification. Each is a
plausible wrong version of the definition that follows it; replacing that
definition by the mutant makes TLC find the property of the same name in the
`mutants` list violated, which shows the property can fail.

### Delivery

A message carries the id of its journal row and the workers decide on nothing
else (`Message.Attempt` is written and not read), so a queue is a count of copies
per id, and order is left open. One action per step that touches shared state:
`Dispatch`, `CreateNotification`, `Publish`, `FinishDispatch` for the loop of
`Engine.dispatch`; `Receive`, `Load`, `Build`, `Send`, `MarkSent`,
`IncrementAttempts`, `MarkFailed`, `Republish`, `Settle` for one message in a
worker. Every call that may fail has a failing alternative which costs a fault;
after a failed publication the message may be queued or not. `CancelRequest`,
`CrashApi`, `CrashWorker` and `LoseConnection` come at any point. A process that dies is
started again by the restart policy of its container. A loop whose AMQP channel closes
is different: the broker requeues what it held, the callback finishes what it is at,
the range loop ends, and nothing dials again or ends the process, so that it consumes
again only after `RestartWorker`, which is somebody's doing. Deleting a subscriber removes its
journal rows (`ON DELETE CASCADE`), and the worker acknowledges what it no longer
finds. The four channel workers run the same steps; they differ in that only the
non-mail ones know permanent errors (`Send`). Routing follows the bindings of
`DeclareTopology`; a message no binding takes vanishes although it is confirmed.
`connected` is the set of loops with an open channel.
`published`, `delivered`, `dropped`, `excused`, `skipped`, `listed` and `faults`
are history variables, read by the properties (and by the bound on faults) only.

### Billing

A step is one call to the database or the provider, except that `Checkout` reads
the subscription and inserts its payment in one (nobody can find the new row before
the next two calls). `subs`, `plan` and `pay` are
the tables; `co`, `hk`, `cn` and `wk` are the callers with the copies they hold.
`UpdateSubscription` writes the whole copy, so a late writer undoes what others
wrote, exactly as the SQL does. The provider (external) creates payments, reports
successes, cancellations and refunds, and keeps a notification until it is
answered 2xx. Time is a clock of ticks; `PeriodLen` and `RetryInterval` stand for
`BillingPeriod.Advance` and the retry interval. Money, receipts, prices and the
choice of period are left out: no branch depends on them. The limit of the batch
in `ProcessDue` is left out: it only delays accounts to the next pass.
`activated`, `credit`, `asked`, `applied`, `optedOut` and `reactivated` are history
variables: `applied` are the payments whose activation has written the subscription,
`reactivated` the accounts one of them has written a second time, until they cancel again.

### Incidents

Incidents and maintenances are rows of one function `item`; a report says which
status a row imposes on which component. `tx[t]` is a request with its
transaction, which commits at once with `Commit`: until then its writes are
visible to itself alone. `Locked`, `Held` and `DedupContended` are the waits of
PostgreSQL for rows and index entries another transaction has written. The delicate
case is a transaction that waits for the component row: when it goes on, the
period it wanted to close is closed already, the UPDATE touches nothing, and its
INSERT meets `csh_open_period_key` (`ChangeOrFail`, `missed`). The two SELECTs of
`recomputeComponentStatusesTx` are one step `Derive`; the loop after them is not.
Title, impact, text, `is_visible` and the notify flag are payload, and
`AddMaintenanceUpdate` only appends text. Of the announcements only the one that
depends on two reads of the row is stated (`Announces`).

### Importer, StatusPal, ImportContract

A job is identified with its message. Every store call of `Engine.Run` is a step
of the replica that runs it: look up the mapping, create the row, replay an update,
store the mapping; then the second pass that sets parents. A step may fail, the
deadline of the run may expire (from then on every call fails, the one that saves
the outcome included), and a replica may die, which requeues the message. `map` is
`external_id_map`, `rows` what was created. The API is modelled up to the point where
it marks the job failed because the publish failed, whether or not the message is
out. `StatusPal` computes what the engine is handed; a failed request fails the
whole `Fetch`. `ImportContract` has three variables: what a page lacks, what each
job told its reader, and the subscribers whose insert failed, which a
clean verdict may lack: the engine counts them as skipped. `Importer!Contract` maps
the state to them (an e-mail
subscriber whose address is subscribed already counts as carried over, as `Run` counts
it). `swallowed`, `raced` and `unsaid` are history variables. `unsaid` is kept beside the job, whose
row has no such column: the subscribers a run failed to create and the components whose
parent it failed to set, of both of which the report says nothing. `Feeds` is what the adapters
hand over, with the shape their types give it (`FeedsAreTyped`). An orphan
(`OrphansCostFaults`) is a row that neither the map names nor a run has in hand.

### Subscribers

One step per query; a request keeps in `req` what it has read. A letter is in the
inbox once it is published (its way there is `Delivery`). The rows the importer inserts are outside: they
are unconfirmed and have neither token nor letter (`importer/importer.go:188`), until their owner subscribes. The bot polls with the
offset it keeps in memory, and each poll acknowledges what came before it; a bot
that dies begins again with what Telegram still holds. The table's unique key makes
an insertion fail. `agreed` and `meddled` are history variables.

### Sessions

One step per query, and the arrival of an answer at its browser is a step: answers
may overtake each other. A token row keeps the token it was rotated from, which the
code does not store, for the properties. Failed calls and lost answers cost a fault.

### Pages

A management request reads the page and carries its copy through the plan's gate,
Dokploy, and `UpdateStatusPage`, `SetCustomDomain`, `SetDokployDomainID` and
`SetDomainVerified`, each a step. Requests
come from an operator or with an API token, whose page and scope are checked first.
The gate of a private page decides on one read, so its handlers are single steps.
DNS, Dokploy and the plan are external. `asked`, `checked`, `overlapped`, `refused`,
`earned` and `seen` are history variables. No handler writes `earned`: `Observe`, a conjunct
of every step, records when a credential was last good for a page by the password, the
list and the live links, so a handler that forgets one of its checks is found out.

### Board

A visitor's summary is two queries, a visitor's uptime the clock and then a query;
a PATCH is a copy, an update of the attributes and a change of the status.
`ComputeUptime` works on whole instants and on hundredths of a percent, which is
what `round2` leaves; `log`, the status of each instant, is the reference it is
checked against. A change of status is one transaction here; its races are those
of `Incidents`.

`TypeOK` of `Billing`, `Importer`, `Subscribers`, `Sessions`, `Pages` and `Board` is in no configuration:
each is proved (`TypeCorrect`, section 5), which says more than a run would.

## 3. Runs

| Run | Instance | Checks |
|---|---|---|
| `delivery_safety` | 1 event, an e-mail and a webhook subscriber, 2 loops that serve all queues, 2 retries, 2 faults | `TypeOK`, `NeverLost`, `SentMeansDelivered`, `FailedMeansExhausted`, `UnsubscribedStaysQuiet`, `DuplicatesCostFaults`, `FanOutCompletes` |
| `delivery_liveness` | 1 event, 1 opt-in mail, 1 magic link, one loop per queue, 1 retry, 1 fault | `EventuallySettled`, `SentIsFinal` |
| `billing_lifecycle` | 1 account, 1 checkout, 2 renewals, 1 webhook at a time, 4 ticks, 1 fault | `PremiumIsPaid`, `GraceIsCounted`, `DowngradeIsEarned`, `ChargesAreBacked`, `ActivatesOnce` |
| `billing_overlap` | 1 account, 2 checkouts, 2 webhooks at a time, no recurring charge, 1 tick, no fault | `CancelSticks`, `PaidIsActivated` |
| `billing_lost_activation` | 1 checkout, 1 fault | refutes `PaidIsActivated` |
| `incidents_serial` | 2 incidents, 1 maintenance, a key, manual changes, 1 request at a time | `TypeOK`, `StatusIsDerived`, `AnnouncedOnTransition` |
| `incidents_races` | 2 incidents, a key, manual changes, 2 requests at a time | `HistoryMatches`, `StampsMatch`, `OneOpenPerKey` |
| `importer_jobs` | 2 jobs, the second in either mode, 2 replicas, 3 source pages (a tree, an incident with updates, works and a subscriber), 1 fault | `OrphansCostFaults`, `MappedIsWhole`, `TreeIsRestored`, `ImplementsContract`, `JobSettles` |
| `subscribers_races` | 2 pages, 1 address, 1 Slack channel, 1 chat, 2 requests at a time, 4 inputs, 1 failed call, 1 death of the bot | `ConsentGiven`, `PendingCanConfirm`, `BotObeys` |
| `sessions` | 1 user, 2 browsers, 2 requests at a time, 3 tokens, lifetime and clock of 1, 1 fault | `ForksCostOverlap`, `SessionIsKept`, `LogoutEndsSession` |
| `pages_races` | 2 pages, 1 domain, 1 password, 1 address, 1 API token, 2 requests at a time, 2 records, lifetimes of 1, clock of 2, 5 inputs, 1 fault | `PrivacySticks`, `VerifiedIsChecked`, `AttachmentMatches`, `SeenIsEarned` |
| `board_views` | 2 pages, 1 group, 2 components of four kinds, 3 statuses, 1 PATCH at a time, days of 2 instants, windows of 1 and 2 days, clock of 3, 2 inputs | `ShownOnce`, `HeadIsExplained`, `UptimeIsExact` |

Deadlock is not checked: users may stop, and a bounded supply of ids, ticks and
faults runs out.

### Why the bounds are enough

* Two loops and two faults give every pair of copies of one message: the
  original requeued while its delayed copy is in another loop's hands. Two retries
  make the schedule have a middle and an end. Two subscribers let the first one's
  failure meet the second one's turn. The safety properties of this run are proved
  for any instance (section 5); TLC's part is to show they can fail.
* With `MaxDunning` 2 and two renewals there is a first failure, a grace and a
  last failure, or a success after a failure; four ticks are activation, due date,
  retry and the next period. `billing_overlap` asks about copies held by checkouts
  and webhooks, of which it has two each; one tick makes a period end.
* Two transactions suffice for the indexes and the stale copies: each hazard of
  the list is between one earlier and one later writer. The component is one,
  because the loop over components treats each on its own; deadlocks between two
  loops are what `Rollback` stands for.
* Of the source pages each exercises one pass: a child that comes before its
  parent, an incident whose updates pass through other statuses, works that have
  begun beside a subscriber with and one without an address, on a page that has no
  components to refer to. A second job is the
  repetition of the first, its rival on the other replica or the update of its
  rows; one fault puts a crash, an expired deadline or a failed call at any step.
* Four inputs are two overlapping subscriptions of one address with the two
  confirmations, or three commands and the death of the bot between them. Eight
  rows are more than can be live or referred to.
* Three tokens are a session, its rotation and the rotation of that, or a fork.
* Five inputs are: create, make private, set a domain, verify it, overlap one of
  them; the domain is contended by two pages.
* Days of two instants and a clock of three put a change before, within and on the
  edge of a window of one or two days; each component has a creation time, and two
  inputs and the initial states give each visit something changed meanwhile.

### Fairness

`Delivery!FairSpec`: a running request and a consumer loop go on (Go schedules
goroutines fairly; the HTTP clients of the workers have timeouts and SMTP has one
for the connection, so a mail server that accepts a connection and then never
answers is outside this assumption); the broker hands a message that is
queued again and again to some loop (queues are FIFO, strong fairness); a delay
ends. Faults, clients and users are free, and faults are bounded: the code promises
nothing under faults that never stop. A loop that has lost its channel is under no
fairness, and neither is the restart of its process: nothing in the code or the
restart policy brings it about. `EventuallySettled` therefore has the exception that
no loop of the queue ever consumes again (section 4).
`Billing!FairSpec`: a webhook execution runs to its end, and the provider redelivers
a success until it is answered 2xx (its documented behaviour; strong
fairness, as an execution may be busy). Users, the worker and time are free.
`Importer!FairSpec`: a request that is being served and a replica that has a
message go on, and past the deadline of a run its calls do fail (`context`
guarantees it). No fault has to happen.

## 4. What the code does not do

* **A paid plan may never be turned on** (`billing_lost_activation` shows it).
  `activate` marks the payment first; after a failure further on, the redelivered
  webhook is taken for a repetition.

Reading the code for the models showed more, which has no run of its own. Where a
property is stated for the complementary case, it is named.

* Delivery: a worker may stop consuming for good. When its channel or connection
  closes, the loop of `queue/consumer.go:31` ends, `queue/queue.go:18` dials once, and
  `cmd/worker-email/main.go:103` goes on waiting for a signal, against "guaranteed
  delivery with per-message ack" (`DESIGN.md:792`); `EventuallySettled` without its
  last disjunct is violated by it. The other workers have the same main function; for
  `worker-import` and the publisher of the API the loss is not modelled.
  Pending rows are called recoverable (`notify/engine.go:117`,
  `api/server.go:225`), and no code reads them.
  A loop whose channel has closed goes on with the message it held: its late failure can
  overwrite the `sent` of another loop, which got the requeued copy (`Overwritten` in `NeverLost`).
* Billing: two concurrent deliveries of one success pass the test of
  `billing/service.go:151` together and both activate, although `:138` says a repeated
  delivery does not. The second begins the period anew and takes back a cancellation
  made in between. `ActivatesOnce` is checked where webhooks are handled one at a time,
  and `CancelSticks` leaves out what a second activation undoes (`Kept`).
  A failed or refunded payment is processed again
  although `billing/service.go:150` calls it terminal; a Cancel answered while a checkout,
  a webhook or the worker holds a copy of the row, the worker from the snapshot at the start of its pass on,
  is undone (`:206`, `:225`, `:291`; `CancelSticks` is the other case); a charge
  whose answer was lost is repeated under a new key (`DESIGN.md:296`, `:244`;
  `ChargesAreBacked` counts it as the price of a fault); a webhook that overlaps a
  renewal sets the old due date again, and the period is charged again; an abandoned
  checkout of a premium account leaves it `pending` and hides it from the worker
  (`DESIGN.md:289`, `:128`); an error in one subscription ends the pass for the rest
  of the batch (`:226`).
* Incidents: two transactions on different incidents of one component derive its
  status without each other's row (`store/incidents.go:404`, `:414`; `StatusIsDerived`
  is checked for serial requests); a stale PATCH writes an old status back
  (`store/incidents.go:243`, `:262`); a resolved alert announces a hidden incident
  (`api/integrations.go:117`, `api/incidents.go:210`); two concurrent PATCHes announce
  the start of works twice (`api/maintenances.go:267`); the flag `driven` of
  `domain/derive.go:17`, meant to keep an operator's status, is discarded
  (`store/incidents.go:444`).
* Importer: `Run` is called idempotent (`importer/importer.go:46`, `DESIGN.md:733`),
  but overlapping jobs on one page and a run in mode `update` create rows again
  (`OrphansCostFaults` excludes exactly these), and so does a run after one that died
  between a row and its mapping (`OrphansCostFaults` counts it). A job whose outcome
  could not be saved stays `running` for good (`JobSettles` excludes exactly these).
  Two failures leave no trace in a job that is `completed` without errors: a subscriber that could not be
  created is counted as skipped (`importer/importer.go:195`; `ImplementsContract`
  lets a clean job lack exactly these), and a parent that could not be set is
  dropped (`:117`, `:125`; `TreeIsRestored` leaves out exactly these components).
  A closed incident ends with the status of its last update, whatever the comment says
  of closed ones (`importer/statuspal.go:280`): the updates are replayed last, their
  statuses with them (`importer/importer.go:264`; `FinalStatus`).
* Subscribers: a reissue may change the scope of a subscription confirmed meanwhile
  (`api/subscribe.go:25` says a confirmed one is not touched).
* Sessions: two overlapping refreshes fork a session; a logout that overlaps a
  refresh leaves the successor alive; a late 401 clears the fresh cookie
  (`ForksCostOverlap`, `LogoutEndsSession`, `SessionIsKept` are the other cases).
* Pages: a stale PATCH overwrites the visibility (`api/pages.go:222`); verification
  marks whatever domain is set by then (`api/page_domain.go:37`); the old record at
  Dokploy is deleted before the new domain may be refused with 409
  (`api/pages.go:249`); creating a page does not ask the plan whether it may be
  private (`api/pages.go:117`), patching does.
* Board: deleting a group is soft, so its components keep naming it: they are listed
  nowhere and still count, although `MEMORY.md:1239` says they become ungrouped
  (`HeadIsExplained` excludes exactly these). A component created with another status than
  operational gets no history row (`api/components.go:232`), and what has no row counts as
  operational (`domain/uptime.go:18`): "not down" in `UptimeIsExact` is by the record.

Some properties are weaker than their hazard, by what they leave out or what their
run holds.

* `DowngradeIsEarned` counts refusals over the whole life of an account, so a long history
  of past graces would cover an early shutdown; the run has two renewals and no such history.
* `StampsMatch` is checked for incidents only, as `incidents_races` has no maintenance; its theorem
  (`StampsAgree`) covers both.
* `StatusIsDerived` and `AnnouncedOnTransition` hold for requests served one after the
  other. A component that was created with another status than operational is not in `Incidents`, whose
  components begin operational.
* `PrivacySticks`, `VerifiedIsChecked`, `AttachmentMatches`, `LogoutEndsSession` leave out
  overlapping requests (the third failed calls and refusals too): they say that nothing else
  leads there, and would not notice a code in which the overlap did more harm.

## 5. Proofs

Every theorem is for all values of the constants: any number of accounts, pages,
requests, workers, replicas, ticks and faults.

| Theorem of `DeliveryProofs` | States that always |
|---|---|
| `TypeCorrect`, `Inductive` | `TypeOK`; `IndInv` |
| `NothingIsLost` | `NeverLost` |
| `SentIsTrue` | `SentMeansDelivered` |
| `FailedIsTrue` | `FailedMeansExhausted` |
| `UnsubscribeHolds` | `UnsubscribedStaysQuiet` |
| `FanOutIsComplete` | `FanOutCompletes` |
| `DuplicatesArePaid` | `DuplicatesCostFaults` |
| `SentRemains` | `SentIsFinal`, where one loop serves each queue |

| Theorem of `BillingProofs` | States that always |
|---|---|
| `TypeCorrect` | `TypeOK` |
| `PremiumNeedsMoney` | `PremiumIsPaid` |
| `GraceCounts` | `GraceIsCounted` |
| `DowngradesAreEarned` | `DowngradeIsEarned` |
| `CancellationsStick` | `CancelSticks` |
| `ChargesBacked` | `ChargesAreBacked` |

| Theorem of `IncidentsProofs` | States that always |
|---|---|
| `TypeCorrect` | `TypeOK` |
| `HistoryIsUsable` | `HistoryMatches` |
| `StampsAgree` | `StampsMatch` |
| `DedupHolds` | `OneOpenPerKey` |
| `SerialStatusIsDerived` | `StatusIsDerived`, for one request at a time |
| `SerialAnnouncements` | `AnnouncedOnTransition`, for one request at a time |

| Theorem of `ImporterProofs` | States that always |
|---|---|
| `TypeCorrect` | `TypeOK` |
| `KeepsTheContract` | `Spec => ImplementsContract`, the refinement of `ImportContract` |
| `MappedWhole` | `MappedIsWhole` |
| `TreeRestored` | `TreeIsRestored` |
| `OrphansArePaid` | `OrphansCostFaults` |

| Theorem of | | States that always |
|---|---|---|
| `SubscribersProofs` | `TypeCorrect` | `TypeOK` |
| | `ConsentIsGiven` | `ConsentGiven` |
| | `PendingIsCompletable` | `PendingCanConfirm` |
| | `BotIsObedient` | `BotObeys` |
| `SessionsProofs` | `TypeCorrect` | `TypeOK` |
| | `OneSuccessor` | `ForksCostOverlap` |
| | `SessionsAreKept` | `SessionIsKept` |
| | `LogoutIsEnough` | `LogoutEndsSession` |
| `PagesProofs` | `TypeCorrect` | `TypeOK` |
| | `PrivacyHolds` | `PrivacySticks` |
| | `VerificationHolds` | `VerifiedIsChecked` |
| | `AttachmentHolds` | `AttachmentMatches` |
| | `AccessIsEarned` | `SeenIsEarned` |
| `BoardProofs` | `TypeCorrect` | `TypeOK` |
| | `SummaryIsComplete` | `ShownOnce` |
| | `HeadIsWorst` | `HeadIsExplained` |
| | `RecordIsComplete` | `RecordAnswers`, what `UptimeExact` rests on |
| | `UptimeExact` | `UptimeIsExact` |

### What is assumed

Each module names its assumptions next to its constants, and TLC evaluates them in
every run of the module: `NamesAreDistinct`, `ShapeOfConstants`,
`LoopsAreFinite`, `AttemptsAreCounted` (`Delivery`), `BillingConstants`, `IncidentConstants`,
`SubscriberConstants`, `SessionConstants`, `PageConstants`, `BoardConstants`,
`ImporterConstants`. They say that names are distinct, that bounds are numbers, and
which shape a request's body has. Three say more. `LoopsAreFinite`: there are finitely many
consumer loops, because `DuplicatesCostFaults` counts the copies they hold. `BillingConstants` has finitely many
renewals, because `GraceIsCounted` and `ChargesAreBacked` count them. `FeedsAreTyped`
says what an adapter hands to the engine: records of the four kinds, no external id
twice within a kind.

Three theorems have a hypothesis. `SerialStatusIsDerived` and `SerialAnnouncements` have
`Serial`, that `Txs` has one member: with two requests at once the code does not keep
these properties (section 4). `SentRemains` has `OneLoopPerQueue`, that no two loops
take messages of one channel, which the deployment satisfies (one replica of each worker;
`delivery_liveness` checks the property for that assignment). With two loops two
copies of one message can be in hand at once, and a refusal of the second overwrites
what the first has marked: the UPDATE of `MarkNotificationFailed` does not look.

### The inductive invariants

None of the properties is inductive alone: each says something of the tables, and what
keeps it is what the callers between two of their steps still have in hand.

**Delivery.** `IndInv` has six parts, each preserved by every action given the parts
before it:

* `TypeInv`: the type, and that a loop past `idle` holds a message, a journal row
  at the places that touch the journal;
* `InTransitIsRouted`: whatever is selected, queued, delayed or held is on a
  deliverable channel. With the lemma `RouteCopies` (every deliverable channel is
  bound to every exchange it may pass) a retry and a dead-lettering really add a
  copy; this is where the extra binding of the webhook queue is needed;
* `JournalInv`: a loop about to mark `sent` has delivered, one about to mark
  `failed` has counted past the schedule, and `UnsubscribedStaysQuiet`;
* `FanOutInv`: a selected subscriber is still to do, is being published, is
  published, or failed on its own;
* `RowBeforeMessage`: a row is inserted before its message is published, and
  published once by the engine. Without it the worker's "no row, so acknowledge"
  would lose messages;
* `NeverLost` itself.

Three more are proved on top of it. `Fresh`: what is still to be inserted has no row, and
what is still to be published is nowhere yet. `CopiesArePaid`: a copy may become a
delivery while it is queued, delayed, or in a loop that may still deliver it or hand it
back (`Live`); these copies and the deliveries made are together at most one more than the
faults, because the engine publishes a message once, `Republish` moves a copy, and only a
fault leaves two. `UnsentInHand`: the row a loop is to work on is not `sent`, because nobody
else takes messages of that channel.

**Billing.** `UpdateSubscription` writes whole rows, so `Inv` says one thing, `RowOf`, of
the rows and of every copy a checkout, a webhook, a cancellation or the worker holds:
premium only for an account whose money the provider has, a count of dunning the
status allows and the refused charges cover, a cancel flag only where one was asked for.
What `RowOf` compares with (payments received, refused, requests to cancel) only grows
(`Grows`), so a copy stays right however old it is. `StickInv` follows the cancel
flag into the copies: a copy taken before a cancellation nobody overlapped is no longer in
anybody's hands. An activation takes the account
out of `optedOut`, or, repeated, puts it into `reactivated`. `CreditInv` shows that a charge not yet settled, or due from the row or the
worker's copy of it, still has the opening of its period, or a fault, to its credit.

**Incidents.** A waiting transaction can be woken by any commit, so `Inv` says of each
transaction (`Sound`) what it may still write and which rows it has. `KeyInv` adds the
copies of rows with a dedup key and the entries of the index (`Prepared`, `Carried`,
`Alone`): together they leave one open incident per key. `SerialInv` follows one
transaction from its plan over what it has looked at to what it has applied (`Planned`,
`Applied`, `Compares`), and says that between requests every component is `Derived`.

**Importer.** `Base` is the type with the shape of a run at each of its places. The
fifteen steps of a run are summarised once, by `Moves`: the run stays with its job
(`Onward`), passes an entity only when the page has it or the run has noted an error
(`Honest`), adds rows and leaves those of others alone (`Stores`), maps the row it has created
last (`Maps`), and knows of components what the map says (`Learns`). The four other
invariants are proved from `Moves` and the frames of the remaining steps, without
looking at the actions again:

* `Carried`, what a run with no error so far has carried over, the subscribers of its
  `unsaid` apart. A completed job
  without errors passed every entity, which is the step `Report` of `ImportContract`;
  rows are never taken away, so every other step is one of the contract's or stutters.
* `Whole`: a mapped incident has the status of its last update (`Finals`), because it had it
  when it was about to be mapped (`Ready`) and because a row under replay is not mapped and
  is nobody else's (`Apart`).
* `Tree`: where runs did not overlap and none was in mode `update`, a run is `Alone`, what it knows is what is
  mapped (`Knowing`), and what its second pass has passed is linked (`Linking`) or `unsaid`.
* `Costs`, which rests on the two before: on such a page the rows nobody maps or holds, and
  one more if the deadline of the run has expired while it holds a row, are at most as
  many as the faults. `Pays` says once what each of the fifteen steps costs: a row that a
  step adds without taking it in hand, or lets go of without mapping it, is paid for, then or
  when the deadline expired.

**Subscribers.** `Inv` is the type, the shape of requests and of the bot, the unique
index, and that a token belongs to one key wherever it is: in the row, in a request, in a
letter. `BotInv` explains a batch that is repeated after a crash: below the offset
the table is what the commands asked for (`Settled`); where it is not, a later command about that page
is still to be run (`Pending`).

**Sessions.** `Tracked` (tokens in flight), `Rotations` (a token nobody presented twice at
once has no successor, or is revoked, or its only rotation is under way), `Endings` (the same for logouts),
`Keeping` (the cookie of a browser whose requests do not cross is good or is being replaced).

**Pages.** `Management` has the copies requests hold: on a page nobody overlapped there is one
request (`Alone`), its copy agrees with the row (`CopyOK`), and a record of Dokploy is in the hands of one page only
(`Owners`). `Gate` relates each pass to the time `earned` gives its credential on its page:
a pass expires no later than `PageAccessTTL` after it.

**Board.** `SummaryInv` relates what the first query of a summary read to what the second
will. `WorstIsWorst` shows the choice of the worst status well defined; `ListedOnce` and
`HeadIsRight` are about the merge of the two queries, for any set of components.
`Chronicle` says of the periods of a component that they follow one another, that the
last and no other is open, and that they tell of every instant since its creation what the log
took down. From it `RecordIsComplete` follows: whatever the window, exactly one of the
periods `StatusHistorySince` fetches holds an instant of it, with the status of that
instant, or the component has been operational since its creation.

`UptimeExact` goes on from there. `Asked` says what the request holds between its two
queries. The rest is about sums, which are folds and so the choice of a recursive function.
The library's induction theorems need an operator as a parameter; `SumOfSizes` does
without. That there is a function with the equation of the fold is shown by giving one,
the size of a union; that no other fits (`SumIsUnique`) by taking a smallest
set on which two of them differ, which exists by `WFMin`. So a sum of sizes of disjoint sets is the
size of their union (`Parts`), and that is used twice: the overlaps of the periods
with a part of a day (`OverlapCounts`, one period by `OnePeriodHolds`) add up to the instants
logged with their statuses (`TimeIsCounted`), and the days, which follow one another
without touching and cover the window (`WindowDays`), add up to the window (`DaysAddUp`).

### Only model-checked

* Liveness: `EventuallySettled`, `PaidIsActivated`, `JobSettles`.
* What the folds of `StatusPal` compute over a tree or a chronicle, for the same reason. The
  theorems about `Importer` hold for any feed the adapter can hand over (`FeedsAreTyped`).

## 6. Not modelled

* Certificates and the edge (`acme/`, `edge/`, `cmd/tls-manager`): the code is there,
  but the deployment leaves certificates to Dokploy (`DEPLOY.md`).
* The component tree (`domain/tree.go`): called by tests only.
* Templates, changelog: rows nobody else reads or writes.
* Feeds, the widget, e-mail and chat rendering: formatting.
* Generated models and types, configuration, metrics, the frontend: plumbing. What a
  generated query selects and writes is part of the operator that stands for it.

RabbitMQ, PostgreSQL, the payment provider, StatusPal, Telegram, Slack, Dokploy and
DNS are external and modelled as the code uses them.

## 7. Plan

1. The mapping of `StatusPal` as lemmas: each status of the source has one of ours, and
   what the adapter yields satisfies `FeedsAreTyped`.
2. `StatusIsDerived` for two requests that touch different components, which the code keeps.
3. `CancelSticks` and `SessionIsKept` with the overlaps they exclude made as narrow as
   the code allows.
