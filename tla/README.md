# ushnotice: specifications, model checking and proofs

`ushnotice` consumes domain events of the USHSPA platform from an SQS queue, runs the
handlers registered for each event type, and through them sends notifications (SMS,
WhatsApp, email), creates payments, invoices and loyalty credits in other services, and
keeps an audit trail in PostgreSQL. This directory models that program in TLA+, checks the
models with TLC on small instances and proves the main invariants with TLAPS for every
instance. Paths below are relative to the repository (`src/`).

## 1. The system

### Components, state and operations

| Component | Source | State it keeps | Operations | Talks to |
|---|---|---|---|---|
| SQS consumer | `app/events/consumer/sqs_consumer.py` | running flag, semaphore, one task per message in work | poll, receive a batch, process and delete, stop | SQS, message processor |
| Message processor | `app/events/consumer/message_processor.py` | none (one session per message) | parse, validate, persist the event, route, commit | event repository, router |
| Event router | `app/events/router.py` | none | the loop over handlers with claim, run, complete, rollback and fail | guard, handlers, event repository |
| Idempotency guard | `app/events/idempotency.py` | rows of `event_processings` | acquire, complete, fail | PostgreSQL |
| Handler registry, envelope | `app/events/registry`, `app/events/schemas` | handlers by event type | register, resolve, normalise | |
| Booking handlers | `app/events/handlers/booking`, `payment/payment_link_paid.py`, `payment_success.py`, `payment_refunded.py` | none; the booking in ushbooknpay, the calendar row in ushauth | confirm, update, cancel, no-show, reschedule, refund | service clients, notification service, invoicing |
| Voucher, gift and shop handlers | `app/events/handlers/voucher`, `gifts`, `shop` | marks of recipients in Redis | invoice, record the payment, announce, activate | service clients, notification service, invoicing |
| Template-only handlers | `app/events/handlers/auth`, `sms`, the other files of `payment` | none | resolve the addresses, send | notification service |
| Notification service | `app/notifications/application/notification_service.py` | Redis claim per (template, channel, recipient, scope); rows `notifications`, `notification_status_history`, `notification_attempts` | claim, create, attempt, record, retry, give up, release | Redis, PostgreSQL, providers |
| Providers | `app/providers/**` | none | one outside call, classified as accepted, retryable or permanent | KWT SMS, Twilio, Meta, SMTP |
| WhatsApp webhook | `app/notifications/application/whatsapp_webhook_service.py`, `app/api/v1/webhooks/whatsapp.py` | status of notifications and attempts, rows `inbound_messages` | status updates, inbound messages | PostgreSQL |
| Gateway client | `app/integrations/http_client.py` | base URL of the client | request with redirects and retries | API gateway |
| Service clients | `app/integrations/ush*_client.py` | none | one call each | gateway client |
| Invoicing | `app/invoicing/*.py` | none | create invoices and credit notes, link them to payments | service clients |
| REST API, worker | `app/api/v1/*.py`, `app/workers/notification_worker.py` | cached statistics | list, statistics, resend in the background | repositories, notification service |
| Producer, templates, configuration, logging | `app/events/producer`, `app/templates`, `app/core` | none | | |

A delivery runs through the first five rows under **one database session**, which the
processor commits once at the end and the router rolls back in between. Everything else a
handler does (provider calls, gateway calls, Redis) happens outside that transaction.
Production starts two server processes by default and each one runs a consumer with several
slots, so deliveries interleave both inside and across processes.

### What is hard here

- SQS delivers at least once, and a message whose handling outlasts the visibility timeout is
  delivered again while the first slot still works on it.
- The router's rollback for one failing handler also undoes the other handlers' rows and
  gives up the row lock that orders deliveries of one event.
- Effects outside the database do not roll back: notifications, payments and invoices happen
  before the commit that records them.
- The notification claim in Redis, the rows in PostgreSQL and the provider each know a
  different part of what was sent; Redis, the provider's answer and the process may be lost
  at any point.
- Retries are nested: SQS redelivery around the handler, the notification's attempts inside
  it, the gateway client's attempts inside other handlers.
- Handlers of related events (`booking.confirmed`, `payment_link.paid`,
  `booking.payment_status_success`) run concurrently on one booking and read only committed
  state of each other.

### What makes each component correct

- *Consumer, processor, router, guard*: a message is deleted only after all handlers of its
  event ran and their completion is committed; completed handlers never run again; two
  deliveries never run one handler at once; no database deadlock; every message that can be
  routed eventually leaves the queue.
- *Notification service*: at most one accepted message per key beyond those the code cannot
  know of; a failed send never blocks the next one; committed rows are final and consistent
  with their attempts; every send ends.
- *Gateway client*: bounded requests; the latest failure is reported; an adopted base URL
  leads where the configured one leads if the redirects that were followed are of their host;
  every call ends.
- *Booking, voucher, order and gift handlers, invoicing*: nothing is invoiced, credited or
  announced before it is paid, nor without passing the test of that very effect; each payment
  record, invoice, credit of points and refund request has an event of its own; the records of
  what is paid carry an invoice number unless the tests let them be recorded only; the calendar
  follows the booking; a cancelled booking cannot be paid by its link and keeps no points; a
  refund has its credit note; the recipient of a scheduled gift is not told early; a republished
  event is not announced twice; whoever paid, by the test of the messages, hears of it.
- *Invoice lines and payment records*: lines add up to what is to be paid; the copies of one
  classification agree wherever they read the same places.
- *Webhook*: what is answered as processed is in the tables.

## 2. Modules

| Module | Models | Checked by | Proofs |
|---|---|---|---|
| `EventPipeline` | queue, consumer slots, processor, router, guard, event tables | `EventPipeline.cfg`, `EventPipelineLive.cfg`, `EventPipelineAtMostOnce.cfg` through `MCEventPipeline` | `EventPipelineProofs` |
| `Consumer` | the life of the server processes: start, poll loop, batches, semaphore, shutdown | `Consumer.cfg` | `ConsumerProofs` |
| `EventLedger` | the promise of the pipeline to the publishing services (abstract) | refined by `EventPipeline` | `EventPipelineProofs` |
| `NotificationDispatch` | `NotificationService.send` and its callers' sessions | `NotificationDispatch.cfg`, `NotificationAudit.cfg`, `NotificationTold.cfg` | `NotificationDispatchProofs` |
| `GatewayClient` | `GatewayHttpClient._request` | `GatewayClient.cfg` through `MCGatewayClient` | `GatewayClientProofs` |
| `Deliveries` | what the business handlers share: deliveries of one document's events, calls with their failures, invoicing, messages | as part of `Fulfilment` | |
| `BookingHandlers` | the handlers of booking and refund events, and ushbooknpay's booking (external) | as part of `Fulfilment` | |
| `SalesHandlers` | the handlers of vouchers, orders and gifts, and their sale (external) | as part of `Fulfilment` | |
| `NoticeHandlers` | the handlers that only send, and the channel resolver | as part of `Fulfilment` | |
| `Fulfilment` | the composition of the four, with the properties | `Fulfilment.cfg` through `MCFulfilment` | `FulfilmentProofs`, `SettlementProofs` |
| `Billing` | invoice lines; classification and identifiers of payment records | `Billing.cfg`, `BillingShopTotal.cfg` through `MCBilling` | `BillingProofs` |
| `WhatsAppWebhook` | callbacks of Meta, on the sessions of `get_db` | `WhatsAppWebhook.cfg` | |
| `Counting` | nothing of the code: least numbers and sizes of finite sets, for the proofs | | used by four of them |

Each module ends with its properties. Before the actions stand a few *slips*, definitions of
what an action would be after a plausible mistake (a lost guard, a forgotten rollback, an
off-by-one). They are not part of any specification; `PROJECT.json` pairs every checked
property with a slip that breaks it.

### EventPipeline

A **slot** `w` is one of the tasks of the consumer's semaphore in any process. `queue` is
SQS, `events` and `procs` are the committed tables, `txn[w]` is what the open transaction of
the slot has written to `event_processings`, `rowLock[e]` the PostgreSQL row lock of the
`events` row. `pc[w]` names the code position: `parse` and `insert` are the SELECT and
INSERT of `EventRepository.create`, `route` the entry of the router, `next` the head of its
loop, `claim` the INSERT of the guard, `run` and `finish` the handler before and after its
outside effects, `markfailed` and `delete` the two ends.

Every await that another slot can use is a step of its own: the SELECT and the INSERT of
`create`, the SELECT and the INSERT of `acquire`, the handler, its completion, the commit,
and the deletion. The database is READ COMMITTED: a SELECT sees committed rows and the own
overlay. Two waits are modelled as guards: `UPDATE events` needs the row lock, and an INSERT
into `event_processings` waits while another open transaction holds the key.
`FailHandler` is the whole `except` branch: rollback of everything in the session (also of
handlers already completed in this delivery), row lock released, `guard.fail` without a row
to update. `DiscardErrors`, `MarkFailed` and the raise are the code after the loop.

Abstractions: a message is routable, of an unregistered type, or rejected (malformed JSON or
an invalid envelope); the position inside a batch is not kept; `PROCESSING` of an `events`
row is never committed on its own and is left out; a message without an event id has an
event of its own.

`EventLedger` is what publishers rely on: handlers execute while an event is not done, it
becomes done in one step after all of them executed, and messages are acknowledged only
then. The refinement mapping takes an event as done when all its rows are committed as
completed.

### Consumer

`EventPipeline` has slots that take messages one by one; `Consumer` has what puts them there.
`loop[p]` is the lifespan of process `p` and its poll task; `task[p][m]` the task of the batch
in hand for message `m`, which waits for the semaphore, works in its session, has committed,
or deletes. `EndBatch` is the return of `gather`: the loop does not poll before. `Stop` is
`SQSConsumer.stop` with all that its `cancel` reaches at once: a waiting task ends, one at work
is `cut` and has to close its session (`Unwind`, where a commit may have been on its way), and
the boto calls go on in their threads without anyone (`ReceiveForNobody`, `DeleteForNobody`).
`Stopped` waits for the tasks, as `gather` does; `Close` is the rest of the lifespan.

A delivery is one step here, `Commit` or `FailDelivery`, since `EventPipeline` shows what it
does inside; there, a cancelled delivery is `Crash`, and a message that waits for the
semaphore is a slot that has not yet parsed. The order in which the semaphore wakes its
waiters is left open, the five seconds' pause is left out (no error reaches it, see below),
and a process without a queue URL, which never polls, is not in `Process`.

### NotificationDispatch

A **sender** is a database session that calls `send` once: a handler of a delivery, or the
background task of the resend endpoint. A **key** is the dedup key. `claim` is Redis;
`held[s]` is the local variable `claimed`; `note[s]` is the uncommitted notification with
its status, retry count and attempts; `rows` the committed ones; `result[s]` the
`DeliveryResult`. Ghosts: `sent[k]` counts accepted messages, `doubts[k]` the times the code
could not know or forgot that it had sent (lost answer, no claim because Redis was down,
database error after the acceptance, claim expired), `losses[k]` the times a claim was left
behind (crash, cancellation, failing DEL, SET executed with its answer lost).

Actions follow the code: `Send` (with the disabled email channel), `Claim`, `Suppress`,
`ClaimUnavailable` for the three results of `_claim`; `Create`, `RenderFails`,
`BeginAttempt`; the provider's `Accept`, `AcceptUnheard`, `Refuse`; `RecordSuccess`,
`Retry`, `GiveUp`; `DatabaseError` for the `except` clause of `send`; `Release` and
`ReleaseLost`; and the caller's `Commit`, `Rollback` and `Crash`. `Crash` also stands for
the cancellation of the task: `except Exception` does not see `CancelledError`.

Abstractions: a handler that sends several notifications is several senders (their rows
commit together in the code; no property here relates two keys); back-off sleeps take no
state; the status history is one row per status change and is not kept; after a database
error the session can only be rolled back. The claim does not expire while a session that
uses the key is alive, because its life is 24 hours.

### GatewayClient

One client makes one call after the other. `Target` is the gateway: the URL every URL is
redirected to, or itself when it is served. `url`, `attempt`, `redirects` and `lastExc` are
the locals of `_request`, `base` is the attribute it changes. Each action is one request
with its reply and everything the loop does with it, up to the next request. The ghosts are
`requests`, `served` (executions by the other service) and `reply`. A reply that fails may
follow an execution (`done`): 502, 504, a timeout, or a success without a JSON body, which
`response.json()` turns into an exception. The second retry branch of the code
(`http_client.py:256`) cannot be reached, since line 214 has taken those replies.
Nothing is assumed of the gateway but that it redirects a URL always in the same way. The
history variable `followed` has the URLs whose redirects the client has followed, since
`_request` adopts the host of a redirect to the same path without asking whose it is
(`http_client.py:191-193`). `SameDestination` therefore says when that is harmless: a call from
the adopted base URL ends where one from the configured base URL ends, as long as every
`Adoptable` redirect that was followed is the rule of its host (it `Covers` the path called), and
none `Strays`, that is, leaves the host with another path and is then redirected on. The run has
one path of each of these kinds (`moved`, `stray`), so that the conditions are met and not met.

### Fulfilment: Deliveries, BookingHandlers, SalesHandlers, NoticeHandlers

Bookings, vouchers, orders, gifts and accounts share no state, so a behaviour is about one of
them: `doc` is what no event changes of it, `remote` what ushbooknpay, ushauth, ushanr and
Redis hold (status, payment records and how many carry an invoice number, invoices, points,
calendar row, refund). `Happen` is ushbooknpay (external): it changes the document and
publishes an event, `log`, with the snapshot of that moment. `slot` is a slot of the consumer;
that an event is in one slot at a time, begins again after a failure and ends once is what
`EventPipeline` shows and `Deliveries` assumes.

The payload of a confirmation is told apart as far as the code does. `doc.word` is how the event
words the status of a payment that was made (`success`, `successful`, `failed`, none) and
`doc.proof` what its `payment_data` says (`is_paid`, only a status in words, nothing); an event
carries them as `pay` and `proof`. `paid` and `completed` pass every test that `success` passes.
On them stand the four payment tests, each translated by itself: `IsPaid` for the payment record
(`booking_confirmed.py:506-511`), `LoyaltySucceeded` for the points (`:1090`), `Announced` for the
messages (`:1189`) and `Invoiceable` for the invoice (`triggers.py:106-123`), the last behind
`Redeems`, which knows a voucher by its type, its id or its method (`:1167`, `triggers.py:126-139`,
`booking_payment_status_success.py:95`). `payment_link.paid` and `payment_status_success` put
`success` into the payload before they delegate. `Trigger` is the quiet exit of an invoicing that
is not configured (`triggers.py:98`, `doc.invoicing`). An answer without a number (`:54-56`) leaves
the records as an answer that is lost does, and is counted with it; a payload without a booking id
(`:103`) does not occur, and no lines (`:180`) come only of a voucher's redemption, which has
left the trigger before.

A handler is data: `BookingSteps`, `SaleSteps` and `NoticeSteps` give, for an event, the list of
the calls and messages of its handler in the order of the code, under the conditions of the
code. The steps are the actions: one per call of a service client (`CreateAppointmentCache`,
`CancelLoyaltyPoints`, ...), `Send`, and the shared sequence of the invoicing triggers
(`EnsurePartner`, `CreateInvoice`, `LinkPayments`, `LinkBooking`). An action says what its call
changes, what a success adds to the list, and what a failure does: passed over (`Onward`), the
steps that hang on it dropped, or raised (`Idle`: the event is delivered again).

`Call` gives every call four outcomes: answered; executed twice, because the gateway client
repeats what may have been executed; failed with effect; failed without.
`Send` has the outcomes that `NotificationDispatch` shows for a caller: duplicate, sent, sent
without a claim, not sent or raised, claim left behind by a crash. The rows of a slot are
visible to others after `End` only, which is what `CheckAlreadySent` depends on.

Abstractions: one phone number and one address per audience; texts, languages and prices are left
out (prices are in `Billing`); the amount of points is one unit; the expiry of claims (24 hours)
is left out; a booking that starts with a refund request starts with its counters at zero.
`PendingPayment` takes the event's `payment_status`: the `old_payment_status` and the refund flags
that `booking_cancelled.py:147-156` also looks at say the same of a snapshot of one moment.
`data.is_paid` at the top of a payload, which only the invoice's test reads (`triggers.py:109`),
is not told apart from the one in `payment_data`. An account's events are split over three
stories, since no handler of them reads anything another has written.

### Billing

`Prices` and `Payments` are the inputs; the state is one input and what is computed from it, so
the properties are statements about pure functions over all inputs. Amounts are integers,
thousandths of a dinar, the precision of `_d`. A text in which the code looks for words is the set
of those words; an identifier is the place of the payload where it is found, so that two paths
agree when they take it from the same place. The gateway is a text for each place of the payload,
because the copies look in different ones: `BookingText` in the event, the transaction and three
spellings in `payment_data` (`booking_confirmed.py:793-801`), `ShopText` in the event, the
transaction, one spelling and the method (`shop_order_created.py:249-257`), `VoucherText` in two
spellings of `payment_data` only (`voucher_active.py:550`). Of the provider, the channel and the
method there is one text, the one that a copy finds where it looks. `BookingRecord`,
`VoucherRecord` and `ShopRecord` are the three copies of the same code. `PricesAssumption` says
what a price is: amounts that are not negative and whole numbers of items, at least one. `Total`
and `Deduct` are functions over the positions of the lines, as the loops of `invoice_helper` are.

### WhatsAppWebhook

A request opens a session, handles the statuses and messages of the callback on its own view
of the rows, answers, and closes the session. `Accept` and `CommitRow` are the worker: Meta may
call before the worker has committed the row. Nothing in `get_db`, in the endpoint or in the
service commits, so `CloseSession` leaves `stored` unchanged.

## 3. Runs

| Run | Instance | States | Shows |
|---|---|---|---|
| `pipeline` | 3 slots, 2 copies of one event, 2 handlers, 2 faults | 308 000 (slots symmetric) | `HandlerExclusion`, `AckedIsDone`, `AllOrNothing`, `RerunsNeedFaults`, `NoWaitCycle`, `CompletedNeverReruns`, `ImplementsLedger` hold |
| `pipeline_live` | 2 slots; routable, unregistered and rejected message, two of them of one event; 1 handler, 2 faults | 117 000 | `EventuallyAcked` holds |
| `pipeline_at_most_once` | 1 slot, 1 handler, 1 fault | | `AtMostOncePerHandler` is **violated** |
| `consumer` | 2 processes, 2 messages, batches of 2, a semaphore of 1, 2 shutdowns, 2 faults | 251 000 | `DeletedIsDone`, `NothingAfterClose`, `NoOverlap`, `EventuallyDeleted` hold |
| `dispatch` | 2 senders, 2 keys (one disabled), 2 attempts, 3 sends | 341 000 | `DuplicatesNeedDoubt`, `OrphanClaimsNeedLoss`, `AuditConsistent`, `EverySendEnds` hold |
| `dispatch_audit` | 1 sender, 1 attempt, 2 sends | | `SentIsRecorded` is **violated** |
| `dispatch_told` | 2 senders, 1 attempt, 2 sends | | `ToldIsSent` is **violated** |
| `gateway` | 3 calls, 3 attempts, 3 redirects, 9 paths on 4 hosts | 200 000 | `RequestBound`, `ServedPerAttempt`, `ToldTheLast`, `SameDestination`, `CallEnds` hold |
| `fulfilment` | 18 documents, 2 slots, 3 events, 1 fault | 4 710 000 (slots symmetric) | `NothingBeforePayment`, `EachByItsTest`, `CountsExplained`, `RecordsInvoiced`, `CalendarAgrees`, `LinkClosed`, `PointsBalanced`, `OneConfirmation`, `RefundsSettle`, `NoSpoiler`, `ToldOnce`, `Reached` hold |
| `billing` | bookings, orders, gifts, vouchers with totals around the sum of their lines; payments with every text of a small vocabulary at every place, and every set of identifiers | 66 300 | `BookingTotals`, `ShopTotals`, `GatewaysAgree`, `Traceable` hold |
| `billing_shop_total` | orders whose prices agree with their total | | `ShopMatchesTotal` is **violated** |
| `whatsapp_webhook` | 2 messages sent, 1 received, 2 requests, 3 callbacks | | `AcknowledgedKept` is **violated** |

### Bounds

`MaxFaults` limits handler failures, crashes and lost deletes of a behaviour; `MaxStarts`
and `MaxCalls` limit how many sends and calls are started. Three slots are the fewest with
which a slot can fail, lose its row lock, and find two others contending for it; two copies
of one message and an unlimited visibility timeout already give any number of redeliveries;
two handlers are needed for a rollback that erases another handler's completion. Three sends
under one key on two sessions cover a send, a concurrent one and one after the first has
ended, with one retry each. In the gateway run the redirect budget and the attempts can both
be used up in one call, and three calls show a base URL adopted, kept and used,
rightly and, after a redirect of one path or on a host strayed to, wrongly. The theorems
remove these bounds for the properties they state.

In `consumer`, a batch of two for a semaphore of one has a task in each state, a second
process or a receive that nobody waits for may have a message of it, and two shutdowns and
two faults can end both loops, cut a batch at every point and cut it again after a restart.

In `fulfilment`, `MaxEvents` = 3 is the length of the shortest stories that matter (held, paid,
cancelled; scheduled, due, announced; refund asked, approved, completed); two slots overlap any
two of them, and a third event waits or comes late. One fault is one lost, repeated or failed
call, one message not sent, or one crash; the counting properties carry `faults` as a term. The 18
documents have each payment type, three further ways to word a payment and to carry a voucher, a
refund and a voucher without invoicing, each kind of sale with its switches, and the places where
an address may be given. In `billing`, totals lie on, near and off the sum of the lines, and
discounts are zero, small and larger than everything.

Deadlock checking is off where the system may stop: all messages deleted, or all sends and
calls of the bound used. `pipeline_live` keeps it on: its rejected message is redelivered
for ever, so a behaviour that stops would be an error.

`SYMMETRY` is used for the slots of `pipeline` and `fulfilment`, which have no liveness
property and whose properties do not distinguish slots.

### Fairness

- `EventPipeline!Fairness`: strong fairness of each slot's own steps, because the event loop
  runs every ready task and PostgreSQL hands a contended lock to its waiters in turn; weak
  fairness of the visibility timeout and strong fairness of receiving each message, because
  SQS redelivers what is not deleted and the consumer polls for as long as it runs. Faults are never
  required.
- `Consumer!Fairness`: weak fairness of the tasks and of the loop of each process, for the event
  loop runs what can run and the semaphore wakes its waiters in turn; a process that has ended
  is started again (`restart: unless-stopped`, or the deployment that stopped it); SQS as above.
- `NotificationDispatch!FairSpec`: weak fairness of a sender's own steps. Provider calls end
  by the timeout of their HTTP or SMTP client, and nothing in `send` waits for another sender.
- `GatewayClient!FairSpec`: weak fairness of the steps of a call; requests have a timeout
  and sleeps end.
- The other modules have safety properties only and assume no fairness. `Reached` says that
  a message is out once its event is handled; that it is handled is `EventuallyAcked`.

### Divergences found

1. `events/idempotency.py:4` promises that "an event is processed at most once per handler".
   A handler's effects come before the single commit, so a crash or a failure of any handler
   in between repeats them (`pipeline_at_most_once`). What does hold is `RerunsNeedFaults`:
   each repetition needs such a fault; and `CompletedNeverReruns`.
2. The README's "complete audit trail" (`README.md:26`): after a send whose handler fails
   later, the rollback erases the notification, and the redelivery is suppressed by the
   claim without writing a row (`dispatch_audit`). The recipient has a message that no table
   knows.
3. "exactly one message per recipient" (`notification_service.py:36-38`): a concurrent second
   event is answered `SENT` because of the claim of the first, whose send then fails
   (`dispatch_told`). Nobody sends.
4. "One line per order item, adjusted for discounts so invoice total matches total_amount"
   (`invoice_helper.py:230`): with a quantity above one, the rounding of the unit price and
   its repair both count once per item (`billing_shop_total`: 3.502 for an order of 3.500).
5. The tests of the webhook state that a callback "updates Notification and
   NotificationAttempt" and that an inbound message "is stored" (`test_whatsapp_webhook.py:141`,
   `:347`); they share a session with the handler. In the program nothing commits that
   session (`whatsapp_webhook`).

Read while modelling, and kept out of the properties or limited in them:

- *Repeated POSTs.* "status codes that are safe to retry" (`http_client.py:30`): `_request` also
  repeats a POST, and one that was executed before a 502, a 504 or a timeout is executed again.
  `ServedPerAttempt` says how often at most; `Fulfilment` lets every call be executed twice.
- *Shutdown.* "Signal consumer to stop and await active tasks" (`sqs_consumer.py:79`): `stop`
  cancels the poll task, and the cancellation reaches every delivery of the batch before it is
  awaited. What its handler has sent stays, its transaction is lost, and the redelivery sends it
  again: a deployment is a `Crash` of the deliveries at work. What does hold is that stop waits
  for the cancelled deliveries to close their sessions (`NothingAfterClose`).
- *Statuses out of order.* A WhatsApp status of `failed` is written over `read`, `delivered` over
  `failed`; as no callback is committed (divergence 5), it has no effect as the code is.
- *Base URL.* "If only scheme/host changed, adopt it so later calls skip the redirect"
  (`http_client.py:190`): a host that redirects one path only, or that the call had been sent to
  with another path, is adopted like the gateway's own, and later calls go there.
  `SameDestination` excludes exactly these two redirects.
- *Payment tests.* "Payment records and invoices must ONLY be created when
  payment_status=success" (`booking_confirmed.py:505`): the expression below it also takes a
  `payment_data` with `is_paid` or a status of success, whatever the event's status says, so long
  as it is not pending; a status `failed` or none is recorded. That record is then invoiced only if
  `payment_data.is_paid` is set (`triggers.py:108-115`), earns no points (`:1090`), and is not
  announced (`:1189-1206`). A test file's header says "Notification is sent in all cases"
  (`tests/unit/test_booking_confirmed_payment.py:11`); with its own paid fixture (`:56-72`) the
  payment is recorded and invoiced and nobody is told. `EachByItsTest` states the tests as they
  are, and `Reached` promises a message only for an event that passes the one of the messages.
- *Recorded only.* The status `successful` is paid for the record and unknown to the invoice; a
  status in `payment_data` alone likewise; a booking with a voucher id or the method `voucher` is
  recorded (only the type `gift_voucher` is not, `:636`) and left out of the invoicing as a
  redemption (`:1167`). `RecordsInvoiced` leaves these out by name (`RecordedOnly`).
- *Negative lines.* "Discount (negative line, if discount > 0)" and "service line + negative
  redemption line (net zero)" (`invoice_helper.py:75`, `:79`): the function below takes the discount
  off the lines and returns no line for a voucher. That no line is negative is the theorem
  `Charges`; no run checks it.
- *Overlapping confirmations.* "sent ONCE per booking" (`booking_confirmed.py:1188`) holds for
  events handled one by one (`OneConfirmation`); two handlers that overlap each see no committed
  row and both send. The receipt of `payment.success` uses the template of the confirmation, so
  a confirmation handled after it is silent, and one handled before it makes two messages.
- *Calendar.* The handlers write the status back to ushbooknpay, so an event published before
  that write carries an older snapshot and sets the row back; for confirmed bookings
  `CalendarAgrees` leaves the two event types that write back out. For cancelled ones it leaves out
  a booking that was `Reopened`: `booking.reschedule_requested` writes its status
  (`reschedule_request.py:90`) over that of a booking cancelled meanwhile, which is confirmed anew;
  then the cancellation is handled and writes `cancelled` (`booking_cancelled.py:279`), and the
  second confirmation puts a row for it. That takes four events, one more than the run has; the
  proof attempt found it, and the theorem holds with the exception for any number of events.
  Handled out of order, a confirmation puts back the row of a
  cancelled booking. `booking.updated` passes payment statuses that ushauth refuses
  (`booking_confirmed.py:542-545` lists those it takes): the refusal is raised, so the event is
  delivered again until the queue gives up.
- *Cancelled against paid.* A link paid before the cancellation is handled leaves a paid,
  cancelled booking without a refund request; `payment_link.paid` and
  `booking.reschedule_requested` write a status over that of a cancelled booking. Points are
  taken back from any eligible booking, also one that earned none (`booking_cancelled.py:75`);
  the credit note its docstring mentions is made on approval of the refund.
- *Vouchers.* A scheduled voucher is invoiced and recorded when it is scheduled and again when it
  is active; a republished `voucher.active` or gift is invoiced again (its messages are not
  repeated: `ToldOnce`). The desk payment of a booking is invoiced twice (`CountsExplained` says
  so). The three copies of the payment record differ where the properties of `Billing` leave it
  open: a gateway named by the event or the transaction reaches bookings and orders and not
  vouchers, and one in `payment_data.payment_gateway` reaches bookings only; Deema is "Other" for
  vouchers and orders, a desk is "ushdesk" or "desk", the default provider is MyFatoorah or
  "Other", and vouchers default to a card also for K-NET.
- *Fallbacks.* `booking.confirmed` takes any answer of `send` as sent (`:1299`), so its SMS is
  sent only after an exception; `shop_order_created.py:124` relies on `send` never raising.
- *Backoff.* The poll loop's pause "on error" (`sqs_consumer.py:113`) is never reached by an error
  of SQS: `_receive_messages` answers it with no messages, and the loop asks again at once.
- *Batches.* A delivery that takes long holds up the polling of its whole process.
- *Dead code.* The reminder by SMS and the messages of `payment_pending` and
  `reschedule_request`; `create_payment`; `mark_dlq`; `get_customer_profile` is called and does
  not exist (`booking_updated.py:552`, swallowed).
- `GatewayHttpClient` documents `max_retries` as retries; the loop makes that many attempts.

## 4. Proofs

All theorems hold for every value of the constants under the named assumptions of the
modules.

**`EventPipelineProofs`.** The safety properties are not inductive, because they do not say
why a slot may run a handler or commit. `IInv` adds: positions and messages of slots
(`SlotOK`); a transaction has rows only inside the router, and its only uncompleted row is
that of the handler in execution (`OverlayOK`); a delivery without errors holds the row
lock (`LockOK`); an uncommitted key belongs to one transaction and is not committed
(`IndexOK`); a delivery without errors has completed every handler it has passed
(`ProgressOK`); completed rows stand for executions (`RunsOK`); a slot about to delete has
committed (`DeleteOK`). Each conjunct has a lemma with one step per action. `Exclusion` then
follows from `OverlayOK` and `IndexOK`: two executions of one handler would be two
transactions with one key. `Acknowledgement` and `Atomicity` are conjuncts. `NoRerun`: only
`RunHandler` changes `runs`, and its slot holds an uncommitted key. `Implementation` maps
every action to `Execute`, `Finish`, `Acknowledge` or a stutter; the commit is `Finish`
because `ProgressOK` makes the overlay complete exactly then.

`NoDeadlock` is about any set of slots that would wait for each other. `HolderOK` says that
whoever holds a row lock is in the router, where nobody waits for a row lock; `OrderOK`, that a
transaction has taken keys of `event_processings` in the order of the handler list. So a slot
that is waited for, if it waits at all, waits for a key of a later handler than the one waiting
for it (`WaitsClimb`), and the one furthest along the list waits for nobody. `Reruns` counts:
`Owing` are the deliveries that have failed at an earlier handler and will lose the execution of
`h`, `Kept` is the one execution that is committed or may be. `Budget` says that executions done
and owed stay within the faults and the one kept. Most steps are `Quiet`; running a handler, the
failure of another, the end of a failed delivery and a crash have a lemma each.

**`ConsumerProofs`.** `IInv` adds to the types that whoever deletes has committed (`DoneOK`) and
that tasks exist only within a batch or a shutdown, where they are cut or over (`LoopOK`).
`DeletedAfterCommit` is a conjunct of the first; `CleanClose` and `OneTaskPerMessage` follow from
the second, because a process that polls has no tasks.

**`NotificationDispatchProofs`.** `IInv` adds where a sender can hold the claim
(`SenderOK`), that a claim has one holder and is in Redis (`ClaimOK`), that a claim that is
free, or held by a sender that has not sent, leaves room for one message (`CountOK`), that
known successes were accepted (`SentOK`), and the form of a row at each position
(`NoteOK`): open with only failed attempts, one of them in progress, or final.
`DuplicatesNeedDoubt` needs `CountOK`, `RecordedIsSent` needs `SentOK`, `AuditConsistent`
needs `NoteOK`.

**`GatewayClientProofs`.** `CountOK` relates the requests sent to the attempt and the redirects,
and the executions to the attempts; `RequestBound`, `ServedPerAttempt` and `ToldTheLast` follow.
`Adoption` assumes nothing of the redirects. Its invariant `OnBase` says of a call under way that
it is on the host of the base URL, or at the end of its redirects, or that the client has strayed;
a redirect that is adopted either covers a path, and then `AdoptKeeps` moves the destination of
that path nowhere, or makes the property's condition false for it, and `followed` only grows. It
also needs that following redirects is a function of the URL (`TrailExists`), and that from a URL
that is served nothing moves on. The definition is a recursive function over the number of hops;
what holds of it at every hop is shown by a least counterexample (`LeastNat` of `Counting`), and
that is how the other recursive functions over numbers are treated, too.

**`BillingProofs`.** The state is an input and its result, so the invariants are `RecordInv` and
`LinesInv`: nothing is made yet, or the records and lines are those of the input. The rest is
about the functions. For every text at every place and every set of identifiers: `Agreement`
finds, for each copy, the first of its places that has a text (`FirstTextIs`, `NoTextIs`), shows
that two copies find the same text where the statement says so, and then that one text is
classified alike (`SameShopGateway`, `SameVoucherGateway`), which is where the words matter;
`FirstIs` says which place of a chain is found, and `SamePaymentId` that the two chains of payment
ids, one a prefix of the other, find the same place once the transaction has an id, which gives
`Tracing`. For every list of lines: `TotalSums` makes `Total` a sum by positions, `SumsShift`
compares two sums, `DeductIs` does the same for what is left of the discount. `DeductTotal` says
that of single items the discount takes exactly what it can: what is left is the discount less the
sum so far, never below zero, and that goes on line by line (`OneDeducted`). `TotalSmall` finds a
line that can take the repair whenever the lines are ten or more on the average, and `RepairTotal`
that it then makes the total. `SettledTotal` joins them, and `BookingSums` and `ShopSums` apply it
to what the builders make; `Charges` needs only that each step keeps prices from becoming
negative, for any quantities (`CheaperIs`, `RepairedIs`).

**`FulfilmentProofs`.** `NothingBeforePayment` and `NoSpoiler` speak of a stretch of a document's
life, until it is paid or until the gift's date. They are not inductive, because they do not say
what the slots are still going to do. Both proofs strengthen them in the same way. `Lasting` shows
for every action that a document keeps its fields and that `paid` and `due` never go back, so that
a state before the payment has only such states behind it. The invariant `IInv` says of those
states: the document is untouched (`Untouched`), every event published is one of an unpaid
document (`LogOK`: no `link_paid`, no order with status success, a `confirmed` only with an open
payment), every slot holds only steps that spoil nothing (`SlotsOK`, with the sets `Quiet` per
kind of document), and no message of a confirmation or a gift has gone out (`ToldOK`). The heart
is that the list of steps a handler makes of such an event is a sequence over `Quiet`
(`BookingStepsQuiet`, `SaleStepsQuiet`, `NoticeStepsQuiet`), which is where the four payment tests
of the code enter: of an event of an unpaid booking, whose status is open and whose `payment_data`
says nothing, each of them is false. `SealedInv` does the same for a voucher scheduled for later,
with the sets `Early` and `Patience`: only `voucher_payment_pending` and `voucher_scheduled` have
been published, and their handlers write to the sender only. The theorems assume
`DocumentsAssumption`, that a document is a booking, a sale or an account, and
`PayloadAssumption`, that a payment is worded in one of the ways above; `Hearing` below also
assumes `GivenAssumption`, that an account's addresses are phones and emails at the places where
the resolver looks.

`ByItsTest` needs no strengthening but `Common` below: a slot holds a step that records, invoices,
credits or confirms only for an event that passes the test of that effect (`StepPasses`), every
other step leaves the counts and the messages as they are, and events are never taken back.

The second half of `FulfilmentProofs` is what the other proofs rest on, `Common`, which gives
`Types`: the form of events and slots (`Typed`), events in hand that are published, not
yet done, in one slot each, with steps of their handler (`Apart`), and messages that are counted
(`Counted`). `Ops` and `Saying` name the operations and the template of an event's handler;
`StepsAllowed` shows it of the lists the handlers make, and that what an operation adds stays
within it. `OperationMoves` then says once for all operations what a step of a slot does: it
goes on with one of the lists of `Follows`, stops or raises, and changes only the fields of
its operation (`Touches`).

**`SettlementProofs`** proves the other invariants of `Fulfilment`. To `Common` each of them adds
what its handlers still have to do:

- `Refunds`: `RefundInv` names the three or four points at which a handler of a refund can be,
  and what is known of the credit note at each.
- `Links`: `LinkInv` keeps, for each cancellation of an unpaid booking, its event in the queue as
  long as the link is open, and a slot that has it on the way to close it: a search for the
  link is followed by the closing (`Followed`), or the link has been found.
- `Repeats`: `ToldInv` counts a message against the faults and the claim of its key, or the
  claims of the events that ask for it.
- `Counts`: `OrderInv` says that no slot has any counted operation to do twice, except the two
  invoices of a desk payment. `CountInv` bounds each count by the events that are no longer
  `Awaiting` of the operation: those that are not in the queue, or in a slot whose steps have passed
  it. An operation takes an event out of those ahead or costs a fault; the cardinalities are in
  `Counting`.
- `Points`: without faults, all cancellations are still ahead of taking the points back, or they
  have been taken back; what is earned is at most one by `CountInv`.
- `Records`: unless a call of the invoicing failed, no invoicing is configured (`Unbilled`) or an
  event was recorded only (`Deferred`), the records all carry a number, or an event that invoices
  after it records is ahead of linking. A search for the booking that fails may be passed over:
  the handler's second part invoices by the status it puts in itself; a voucher's record comes
  with the number (`Numbered`).
- `Confirmation`: while events are handled one by one, one slot at most is at work (`OneInv`). A
  handler that confirms has still to look up what was sent (`Ends`), or has found nothing, and
  then nothing was sent, because whatever was sent has a row (`Marked`).
- `Hearing`: a booking's message is owed to the events that pass its test (`Announcing`). `Owed`
  names the messages, or alternatives of messages, that an event calls for. As long as nothing has
  disturbed the deliveries, an event in hand has been answered, or its slot still holds a step
  that will answer it (`Answering`), and a finished event has been answered (`HearInv`). A message
  silenced by its claim was sent under that claim; a confirmation silenced by a row was announced,
  because rows are written with the message (`Marked`). `Firm` is where the fallback enters: a
  WhatsApp message still to be sent answers for a voucher or an order even if the one fault is to
  come, its SMS only after the fault.
- `Calendar`: `CalendarInv` has five parts. `History`: what the events published so far say of the
  booking (a cancelled booking is not held for payment or marked paid at the desk again).
  `WritesFirst`: a payment by link is written to the booking before anything else. `InOrder`: one
  event in hand, the oldest of the queue. `Vacated`: a booking that is over has no row, or an
  event that ends it comes after all events that may put one (`Puts`). `Entered`: a confirmed
  booking has been confirmed by an event since which every snapshot says so, and has the row, or
  that event has still to put it. The heart are `VacatedDoes` and `EnteredDoes`, one operation of
  a slot, where the handlers' writes to the row (`RowMoves`) and to the booking (`BookingMoves`)
  meet. TLC found no state against `CalendarInv` with one slot, four events and one fault (16
  million states) before it was proved.

Proved and not checked again by a run: `RecordedIsSent`, the `TypeOK` of `GatewayClient` and of
`Consumer`, and `PricesNeverNegative`, `KnetMethods` and `LabelsKept` of `Billing`.

Every invariant and every action property of the runs that pass is a theorem, and so is the
refinement of `EventLedger`. Only model-checked: the liveness properties `EventuallyAcked`,
`EventuallyDeleted`, `EverySendEnds` and `CallEnds`, which are out of the prover's reach. So is
induction over data in general: the library's induction theorems take an operator as parameter.
The sums and trails above avoid it by a least counterexample.

## 5. Plan

Modelled, in the order of importance: the pipeline with its ledger and the consumer, the
notification dispatch, the gateway client, the business handlers with their invoicing, the
billing functions, the webhook. Nothing of that plan is open. What could
follow: the 24 hours after which a dedup key expires (`notification_service.py:35`), which
`NotificationDispatch` models and `Fulfilment` does not, so that `ToldOnce` is about gifts
published again within a day; and a composition of `Fulfilment` with `EventPipeline` in place of
the delivery that `Deliveries` assumes.

## 6. Not modelled

- Templates, formatting, masking, time zones, statistics and configuration: pure functions
  and reads. Of the channel resolver the search for an address is in `NoticeHandlers`.
- List and statistics endpoints only read; health endpoints only ask.
- The producer makes one call. The dead-letter queue is the queue's own redrive policy.
- Payloads of providers and of service calls, apart from the payment record and the invoice
  lines: their fields are copied.
- The normalisation of old envelopes: an envelope is accepted or rejected.
