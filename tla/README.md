# TLA+ verification of gt06n-tcp-server

This directory keeps the TLA+ models of the GT06N tracking service, the TLC runs
that check them and the TLAPS proofs about them. Paths such as `src/bot.rs` are
relative to the repository root.

## 1. The system

Four processes share one PostgreSQL database. They are started by systemd; all
but the daily job restart when they exit (`docs/deployment.README.md`).

| process | sources | what it does |
|---|---|---|
| `gt06n-tcp-server` | `main.rs` `server.rs` `protocol.rs` `events.rs` `db.rs` `service_distance.rs` | accepts device connections, frames and decodes GT06N packets, acknowledges, stores heartbeats and locations, accumulates service distance |
| `telegram_bot` | `bot.rs` `midtrans.rs` `telegram_messages.rs` | one loop: polls Telegram updates, then new heartbeats (engine on/off), then stale ride sessions; menus, binding, payments links, theft alerts, analytics |
| `http_api` | `api.rs` `midtrans.rs` | JSON queries, fuel calibration, SIM card updates, the Midtrans payment webhook |
| `subscription_maintenance` | `subscription_maintenance.rs` | a oneshot started every day at 08:00: reminders, fines, `past_due`, withdrawal |

### Components, state, operations, interactions

| component | state | operations | talks to |
|---|---|---|---|
| Calendar and sanction rules | none (pure) | WIB date, overdue days, fine, next action, lifecycle stage, merge of a sanction row | used by the job, the API listing and the payment quote |
| Maintenance job | snapshot of records and the clock of a run; rows `telegram_subscriptions`, `telegram_subscription_sanctions` | fetch, per record: send, set status, upsert sanction | writes the rows the webhook writes; Telegram |
| Payments | `telegram_payment_events`, `telegram_subscriptions`, sanctions; Midtrans' own order | quote, pending order, Snap transaction; webhook: lock order, lock subscription, extend, resolve, commit, tell | bot, Midtrans (redelivery), webhook handlers of one another through row locks |
| Ride sessions | `telegram_engine_sessions`, `telegram_device_notifications`, heartbeat cursor | heartbeat batch of 100, engine on/off with cooldown, stale sessions after 10 min, ride summary | heartbeats of the TCP server; Telegram |
| Bot updates | Telegram offset, `telegram_users`, pending custom ranges, remembered dialog messages | update loop, `/start`, binding, menus, buttons, analytics | Telegram (at-least-once updates); devices, subscriptions and prompts written by others |
| TCP ingestion | per connection a buffer and `device_id`; `devices`, `device_heartbeats`, `device_locations` | read, decode, acknowledge, handle; one transaction per message | device; database |
| Frame decoder | none (the buffer is the connection's) | find a start pair, length, stop bytes, CRC; decode a message; encode an acknowledgement | TCP ingestion |
| Service distance | `device_distance_odometer`, `device_distance_daily` | per location, in its transaction: advisory lock, segment filter, upserts; backfill from history; service answer | TCP ingestion, backfill, API readers |
| HTTP: fuel calibration | `fuel_calibrations`, connection pool | start, restart, complete, get; daily summary | odometer, sessions; the pool (a second connection while holding one) |
| Ride metrics | none (pure) | cleaned route, riding time, reports clipped to days and ranges | bot reports, API summary, calibrations |
| HTTP: queries, SIM update; config; texts | none of their own | single statements / formatting | - |

### What is hard

* **Read, then act later.** The job works through a snapshot while payments commit;
  the webhook reads a subscription and overwrites it two statements later; the
  quote reads paid orders and the answer is charged days after.
* **Effect before record.** Reminders, success messages and ride messages are sent
  before, after, or between the statements that record them; a crash or a `?` in
  between repeats or loses the effect.
* **At-least-once inputs.** Midtrans repeats notifications until it sees 200 and may
  reorder them; Telegram repeats an update until the offset moves.
* **Row locks that lock nothing.** `SELECT ... FOR UPDATE` of a row that is not there.
* **Calendars.** Dates in WIB, instants in UTC, periods that do not start at midnight.
* **Old rows.** Rows written before migration 0017 have no reminder day.
* **All or nothing is per update, not per request.** A Telegram handler makes up to
  six requests and statements; an error in any of them repeats all of it.
* **Bytes have no boundaries.** A frame may be cut anywhere, and noise may look like
  the beginning of one.
* **A pool that is asked twice.** A handler that holds a connection waits for another.
* **The same numbers computed twice.** Bot and API clip rides to days in separate code.
* **Two clocks in one row.** A session begins at the time of its heartbeat and ends at
  the time the next one is handled; a location has the time before its lock.

`PROJECT.json` lists each hazard at its line with the properties that cover it.

### What makes each component correct

* Rules and job: a sanction row never contradicts itself or the quote; nobody inside
  a paid period is punished unless a payment met a run; no reminder repeats unless a
  run died unmarked; a lapsed subscription is not forgotten; the API listing and the
  job agree.
* Payments: one credit per order whatever is repeated or fails; a paid period stands
  and further payments add to it; success is announced only for what was paid;
  money that settled is credited.
* Ride sessions: at most one open session per chat and device, ended by engine-off or
  by staleness, never reopened, and summarised once.
* Bot updates: no update is forgotten before its handler succeeded, and none is stuck
  unless something refuses it; a binding is for life; silence towards a user has a
  reason; a dialog does not pile up messages.
* Ingestion: the frames found do not depend on how bytes are cut into reads and nothing
  a device sent is lost to noise that is not like a frame; acknowledgements answer the
  right frames in order; rows are committed in the order of their ids; the latest
  columns show the newest row.
* Service distance: odometer and days are the segments between neighbouring locations,
  each once; an answer lists the milestones its total has passed.
* Fuel calibration: no stretch of road in two results; riding time fits its window, and
  engine time exceeds it by no more than sessions overlap; every request is answered.
  Reports: days do not ride longer than their month.

## 2. Modules

| module | models | kind |
|---|---|---|
| `SubscriptionRules` | the calendar and sanction rules as operators | pure |
| `SubscriptionMaintenance` | the daily job against payments, time and failures; EXTENDS the rules | state machine |
| `MCSubscriptionMaintenance` | instance for TLC | MC |
| `SubscriptionMaintenanceProofs` | all seven safety properties of the job | proofs |
| `PaymentLedger` | what payments promise, without handlers, locks and messages | abstract spec |
| `MidtransPayments` | subscribe callback, Midtrans, concurrent webhook handlers | state machine |
| `MCMidtransPayments` | instance and symmetry for TLC | MC |
| `EngineSessions` | the bot's loop: prompt buttons, heartbeats, stale sessions | state machine |
| `MCEngineSessions` | instance for TLC | MC |
| `EngineSessionsProofs` | all six safety properties of the rides | proofs |
| `MidtransPaymentsProofs` | types, credits, success messages; paid periods; the refinement of `PaymentLedger` | proofs |
| `BotUpdates` | the bot's update loop and every handler of commands, texts and buttons | state machine |
| `MCBotUpdates` | instance for TLC: two users in one chat | MC |
| `BotUpdatesProofs` | nothing skipped, bindings for life, types, dialogs, silence | proofs |
| `Crc16` | `crc16_x25`, bit by bit (uses `Bitwise`, so it is kept apart) | pure |
| `FrameDecoder` | the wire format: next frame, messages, acknowledgements | pure |
| `DeviceConnection` | the task of one TCP connection; EXTENDS the decoder | state machine |
| `MCDeviceConnection` | instance for TLC: seven streams of frames and noise, CRC from `Crc16` | MC |
| `DeviceConnectionProofs` | frames are greedy, acknowledgements answer in order, quiet noise loses nothing, for any bytes | proofs |
| `ServiceDistance` | `persist_event` over several connections, odometer, backfill, service answer | state machine |
| `MCServiceDistance` | instance and symmetry for TLC | MC |
| `ServiceDistanceProofs` | rows are committed in order; the odometer is the history; answers are complete | proofs |
| `InductionLemmas` | induction over sets of naturals, recursive functions exist, sums of naturals | proofs |
| `RideMetrics` | route, riding time and reports as operators | pure |
| `FuelCalibration` | calibrations against rides, each other and the pool; EXTENDS the metrics | state machine |
| `MCFuelCalibration` | instance for TLC: four kinds of histories | MC |
| `FuelCalibrationProofs` | types, pool and lock; calibrations do not overlap; how far metrics and reports may exceed their windows | proofs |

Definitions marked "Mutant" change one mapped definition the way a plausible bug
would. No specification uses them: they are there to show that every checked
property is one the code could break.

### SubscriptionMaintenance and the code

A run is `StartRun` (the process starts and reads `Utc::now()` once: `runNow`),
`FetchRecords` (the snapshot), then per record in `ORDER BY current_period_end_at, id`
`NextRecord` (what `resolve_subscription_maintenance_action` says of the *snapshot*),
`SendReminder`, `SetPastDue` (overdue and withdrawal only), `UpsertSanction`. Each SQL
statement and each message is one step, because the job opens no transaction. Every
`.await?` may end the run: `SendRefused` (the chat answers 403, deterministic for a
blocked chat), `SendAnswerLost` (delivered, but the job sees an error), `RunDies`
(anywhere). `PayWebhook` is one step here: the job writes single statements and the
webhook's locks make its transaction atomic towards them.

`sub` has one row per user (migration 0015). A sanction row that does not exist is
`NoSanction`, which is what the LEFT JOIN's NULLs and the code's defaults amount to.
`sent`, `repeated`, `unmarked` and `raced` are history variables: no guard reads them.

Time: an instant is a tick, a day `TicksPerDay` ticks, WIB `WibOffset` ticks ahead of
UTC, so a period can end before or after midnight WIB.

### MidtransPayments and the code

`Subscribe` is the callback up to the quote, `InsertPending` the pending row,
`SnapAccepted`/`SnapFails` the Snap call; the remainder stores and sends the link. The
quote decides, from the paid orders of that moment, whether the shipment fee is
included. Midtrans is modelled from what the webhook accepts: an order is open,
settled, underpaid, closed or refunded, and each change is a notification that stays
in `due` until answered with 200. A webhook request is `Receive`, then one of the
branches of `apply_midtrans_webhook` that commits right after locking the order
(`IgnoreClosed`, `RecordStatus`, `IgnoreUnderpaid`), or `LockOrder`,
`ReadSubscription`, `UpsertSubscription`, `Commit`, `SendSticker`, `SendMessage`.
`Fail` ends a request anywhere: rollback, no 200.

Locks follow PostgreSQL at READ COMMITTED: FOR UPDATE of an existing row waits and
takes it, of a missing row takes nothing; INSERT ... ON CONFLICT waits for another
writer of the key and then overwrites. `userLock` stands for the row or, while it is
being inserted, the key.

Left out: amounts (reduced to "covers the order or not" and "includes the shipment
fee or not"), the plan code, the period's start, the signature check (a request that
fails it changes nothing), the sanction row (in the other module). A user has one
device (`telegram_users.bound_imei` is UNIQUE, migration 0008), so "per device" is "per user".

### EngineSessions and the code

One process runs `process_updates`, `process_heartbeat_notifications` and
`process_stale_engine_sessions` in turn; `bot` is where it is and what it holds in
memory, `cursor` is `last_notified_heartbeat_id`, `updates` what lies beyond
`last_telegram_update_id`. `Take` begins a heartbeat; `EngineOn`, `EngineOff` and
`Inactive` are the branches; both kinds of finishing share `SendSummary`/`NoSummary`,
`StoreSummary`, `ResolveSession`, as they share `finish_active_engine_sessions`. A
step ends where a failure would leave something behind; messages that leave no trace
(prompt, status, "session finished", theft alert) belong to the step after them, and
`SendRefused` covers them for a chat that answers 403. `AfterError` says which `?` and
which `if let Err` an error runs into: the handling of one chat, one of the three
parts, or (a restart) everything. A heartbeat is inserted and committed in two steps, because ids are
taken before the commit; a device has one in flight, for its transaction holds the device row.

Left out: message ids and texts, GPS data (a summary may or may not be possible), the
theft menu (no state), more than one chat per device (`bound_imei` is UNIQUE), and a
device bound to nobody (its heartbeats only move the cursor).

### BotUpdates and the code

`Poll` is `getUpdates` from `last + 1`: Telegram forgets what lies below and hands over
all it holds. For each update in order, `Take` computes from the tables what the
handler will do (`Handler`: a sequence of effects, each one request or one statement
whose failure ends the handler), `Step` does the next effect, `Consume` stores the
offset. That the effects can be computed at the start rests on the bot being one
process: nobody else writes `telegram_users`, the dialogs or the pending ranges; the
subscription is read once, at the start; and a prompt that ends between its check and
its answer is resolved by the same conditional UPDATE as before.

`Refuse` is an effect that Telegram or a unique key refuses whenever it is tried;
`Fail` is an accident or a restart before the effect, `AnswerLost` after it. All three
go to `AfterError`: the rest of the batch is dropped and polled again.
`DeleteRefused` is the one failure that only logs (an old dialog message is not
deleted). `attempt` remembers over the attempts at one update what was answered.

A keyboard whose removal may fail, stickers and typing indicators are left out: their
failure is logged and nothing reads them again. `Change` bounds the surroundings: a
device appears, a subscription starts or lapses, a chat blocks the bot, a button's
callback query grows too old, the ride of a prompt ends. Updates arrive while the bot
polls (one that arrives later is seen by the next poll in any case). Telegram's own
limit of 24 hours for keeping updates is not modelled.

### FrameDecoder, Crc16, DeviceConnection and the code

`NextFrame` is one call of `next_frame`: skip to a start pair (keeping a lone last byte
0x78), wait, reject by one byte, or take a frame; `DecodeMessage` is `decode_message`
with the 1-byte, BCD and bit-field arithmetic written out, since the wire format *is*
what the properties are about. A connection is a script of messages and noise,
`Read(n)` any cut of it; `Accept`, `Reject`, `Wait` are the outcomes of the inner loop,
then `Ack` before `Handle`. `Close` may come at any time. `frames` and `events` are
history. Only `device_id` of the connection is passed on to `ServiceDistance`, which
follows one device.

### ServiceDistance and the code

A message is a transaction: `Begin` (its time is taken here), `LockDevice` (the upsert of
the `devices` row, which makes the rest of the transactions of this device wait),
`InsertRow` (the id is drawn, also by one that then fails), `Measure`
(`process_location_distance`), `Commit`. `Fail` rolls back anywhere; `Stop` is a stop or
a crash of the server. What a transaction will write is kept in `conn` until its
commit (read committed). `BackfillReads` and `BackfillCommits` are the two halves of the
backfill; it runs while the server is down, because `docs/deployment.README.md` says to
stop it first, and nothing in the program enforces that. `ReadService` reads the
odometer and the daily rows in two statements. `since` records which locations the
odometer has counted (a device may have locations from before it existed).

Positions are points on a line, one metre apart; the haversine formula is their
distance. A position of NULL stands for coordinates out of range
(`valid_coordinates`). Left out: the titles of recommendations, which are known by their
thousands of kilometres.

### RideMetrics, FuelCalibration and the code

`RideMetrics` has the route filter (a point far from both neighbours is a spike), riding
time (both ends moving, gap not too long) and the four places that clip sessions to a
range: the bot's reports, the API's daily summary, the calibration's window. In
`FuelCalibration` a request is `Arrive` (its time is taken), `Acquire` (a connection of
the pool), `TakeLock` (advisory lock of the device), `Read` (checks and odometer), for a
completion `ReadRiding` and `ReadTrips` on a *second* connection, `Write` (the last
statement and the commit), `Load` (the answer). `TimesOut` is the pool's
`acquire_timeout`; `Fail` an error, or a client that goes away.

Around the requests the device rides. `Move` is a committed location: its transaction
takes the same advisory lock, but its `server_received_at` was read before, so `points`,
which is in the order of `(server_received_at, id)`, gets it inserted at any time up to
now. `OpenSession` stores the time of the heartbeat that began the ride, any time up to
now, because the bot handles a heartbeat after it was received (`bot.rs:669`).
`CloseSession` stores the time of handling (`bot.rs:817`) or, on the retry and the lapsed
paths (`bot.rs:758`, `774`), that of a heartbeat: any time up to now as well. What
`EngineSessions` proves is kept, that one session at most is open; nothing is assumed of
their times. So sessions may overlap, as they do when the off and the on heartbeat come
in one batch, and `SharedWithin` is what of a window each shares with the one before it.

Left out: fuel type, litres and price (validated, stored and multiplied). Months have `MonthLength` days.

## 3. Runs

| run | shows | bounds |
|---|---|---|
| `maintenance` | 7 safety properties of the job | 2 users, one with a pre-0017 row, the other's chat blocked; 2 ticks a day, window of 2 days, 1 fined day, period 2.5 days, 5 days, one payment each, one failure |
| `maintenance_liveness` | a lapsed subscription becomes `past_due` or is renewed | 2 users, 1 tick a day, 4 days, no blocked chat |
| `maintenance_past_due` | violation: a payment during a run leaves a paid user `past_due` | as `maintenance` |
| `payments` | 4 invariants and the refinement of `PaymentLedger` | 1 registered user, 2 orders, 2 concurrent handlers, 3 instants, 1 failed request |
| `payments_liveness` | a settled order is credited or refunded | 1 order, 2 handlers, 1 failure |
| `payments_first` | violation: two first payments overwrite each other | unregistered user |
| `sessions` | 5 invariants and `FinishedIsFinal` of the bot's loop | 2 devices, 2 heartbeats, batches of 1, one subscription change, one button, one failure, 3 instants, cooldown of 1 |
| `sessions_liveness` | every ride ends | 1 device, batches of 2, one failure, one button, one subscription change, the user may block the bot |
| `connection` | 4 invariants of framing and acknowledging; decoding always comes back to the socket | 7 streams of up to 5 messages and noise, every cut into reads, closed anywhere |
| `distance` | odometer, milestones, ids and snapshot columns | 2 connections of one device, 3 messages, 4 kinds of fix, 1 stop, 4 instants on 3 days, a history of 0 or 2 locations |
| `calibration` | calibrations, metrics, reports, every request answered | 2 handlers, pool of 2; four budgets: `Rides` (3 locations, 2 sessions, 4 instants, all reports), `Windows` (2 locations, 2 requests, 3 instants), `Overlaps` (2 sessions, 2 requests, 3 instants), `Races` (3 requests, 1 failure, 2 locations) |
| `updates` | 3 invariants, 2 action properties, every update is handled unless refused | 2 users in one chat, 10 kinds of update, 3 updates, 1 failure, 1 change |

Why the bounds suffice. The job's steps touch one user at a time, so two users already
give every pair "record in hand / record waiting"; one full life of a period (before
the window, in it, expiry day, fined day, beyond) fits in the horizon, and so does
a second period after a payment. A period of 2.5 days ends at either side of midnight
WIB. One failure at any step is what separates an effect from its record; later runs
then see the result. The webhook's hazards are between two handlers on one order, or
on two orders of one user; a third only waits for the same locks. The bot's loop handles
one heartbeat at a time, so two heartbeats of one device give every pair of neighbours
(on-on within and beyond the cooldown, on-off, off-on), and of two devices every order
of commits. Two updates show what one leaves for the next, a third that the queue goes
on behind them; a failure and a change between attempts are what makes a repeated
handler differ from the first. The streams have each way in which the decoder gives up
(stop bytes, checksum, length below 5, unknown number, payload too short) next to whole
frames, false start pairs before and inside, and a start byte at the end; the cuts are
exhaustive. Three messages give two segments with the later transaction waiting for the
earlier, and a rebuild between them. Three locations give a riding gap on either side of
midnight; two sessions can overlap, and in `Overlaps` engine time does exceed its window,
up to the bound of `MetricsAddUp` itself. Two handlers exhaust a pool of two with one
connection each, the case in which all wait for each other.

`CHECK_DEADLOCK FALSE` is set where everything may come to rest: payments with nobody
paying, a closed connection, a stopped server, requests and updates used up; and for
the bot, whose loop never stops. Every other bound is a constant named `Max...`,
`Horizon`, `Orders`, `Handlers`, `Budgets`; the proofs hold for every value of them.

Fairness. `FairSpec` of the job: the clock ticks, the timer starts a run when none is
in progress, a running process goes on. Failures and payments are not fair. The
clock stops at `Horizon` but the timer does not, so "eventually" is not an artefact
of a run that is cut short. The liveness run has no blocked chat; section 4 says what
one does. Users whose payment met a run (`raced`) are exempt: a stale
withdrawal flag can make every later run pass them over. `FairSpec` of payments:
Midtrans delivers each unanswered notification again, and a request in progress goes
on; nobody is obliged to subscribe or pay, and failures are not fair.

`FairSpec` of the bot's sessions: systemd restarts it and every request returns, so its
loop goes on; the clock reaches `Horizon`, which is a cooldown beyond the last heartbeat. A
chat that refuses messages keeps its own ride open for ever, and the rides of the
devices after it; `RideEnds` excepts rides once somebody has blocked the bot. A
subscription that lapses or begins in the middle of a ride is no exception. `Spec` of
`BotUpdates` has the same fairness of the loop; `UpdatesAreHandled` says that every update
is handled, or the queue's head is refused again and again. `Spec` of a connection: the
task decodes, acknowledges and handles what it has (the tokio task is runnable); reading
owes nothing. `Spec` of calibrations: each handler goes on, which includes the pool's
time-out; `EveryRequestAnswers` covers those that only load. Without
the time-out the run finds all handlers waiting for each other.

## 4. Findings

Two violation runs; `PROJECT.json` quotes the line each one disagrees with.

1. `maintenance_past_due`: the job's writes do not check that the period they act on
   is still in force.
2. `payments_first`: no row to lock, so of two concurrent first payments one is lost.

Other places where the code and its documentation part, which the models contain but
no run singles out:

* `send_telegram_message(...)?` ends a maintenance run at the first chat that refuses,
  each day anew; the records behind it wait (`docs/bot.README.md:160`).
* The success message follows the sticker with `?` after the commit; the redelivery is
  ignored, so a failed sticker loses the message for good (`docs/bot.README.md:96`).
* The shipment fee is decided when a link is made, not when it is paid: every link made
  before the first payment charges it (`README.md:58`).
* Whether a heartbeat continues a ride is decided from the notification row, which is
  also written for users without a subscription: paying in the middle of a ride opens
  no session (`docs/bot.README.md:118-120`).
* An update that is refused for ever (a chat that blocked the bot, an answer to an old
  button, a keyboard already taken off) holds up the updates of all chats until Telegram
  drops it: `UpdatesAreHandled` has this as its exception, and `HeldUp` names it.
* A session ends when its off heartbeat is handled (`bot.rs:817`), the next one begins when
  its on heartbeat was received (`bot.rs:669`). If both wait in one batch, or in the backlog
  of a restart, the sessions overlap, and `engine_on_seconds` of a calibration
  (`api.rs:1168`) adds both up: it can exceed the window it is measured over. No document
  says it may not; `MetricsAddUp` says by how much.

## 5. Proofs

Checked by TLAPS for every value of the constants that meets the named assumptions
(`RulesAssumption`, `MaintenanceAssumption`, `PaymentsAssumption`, `SessionsAssumption`,
`UpdateAssumption`, `ConnectionAssumption`, `SaidAssumption`, `DistanceAssumption`, `MetricsAssumption`,
`CalibrationAssumption`;
TLC evaluates them in the runs). They say what a constant is: spans are positive
whole numbers, bounds are numbers, NULL is none of the values it stands in for, devices
that are bound exist. `DistanceAssumption` lets a history end before `Horizon`, because
its locations were reported by then; `CalibrationAssumption` has finitely many requests,
because connections are counted. `ConnectionAssumption` says that scripts are sequences of
bytes and that `Crc` of an acknowledgement's body is a `u16`; nothing else is assumed of
the checksum, which is why `Crc16` is not needed for the proofs. `SaidAssumption` says that
what the device means comes in a frame, as `build_frame` of the tests makes one; only
`SpecQuietNoiseLosesNothing` rests on it.

Every theorem about a state machine has the same plan: an inductive invariant that says
what each control state implies about what is held in memory and what is locked, one
lemma per action, and the property read off at the end.

**The job** (`SubscriptionMaintenanceProofs`): `TypeOK`, `SanctionConsistent`,
`FineWithinQuote`, `OnlyStaleRecordsPunish`, `ApiAgreesWithJob` as invariants and
`NoLeniencyWithoutPayment` as an action property. The inductive invariant `IInv` has
three parts. `TypeInv` types the variables together with what each `pc` implies about
the record in hand. `RowsInv` says each sanction row is consistent in itself *and*
not ahead of its time (`RowDated`): the overdue day on record is not more than the
days overdue at the clock of the run (or now, when none runs). The second half is
needed because `FineWithinQuote` compares the row with the current date while the job
writes with the date its run started on. `RacedInv` says that for a user not in
`raced`, whatever record the job holds has the period still in force, so its writes
are the writes a fresh read would have caused.

`RepeatsOnlyIfUnmarked` has an invariant of its own, `RepeatInv`: a reminder delivered
and not lost to a crash (`Settled`) is not what the rules say of the record in hand,
nor of the rest of the snapshot, nor of the rows if they were read again; between
delivery and mark (`AtMark`) it is the record in hand. That a payment in the middle
does not bring it back rests on periods only growing; that the next day does not, on
stages once left not being entered again (`StaysSilent`, `MarkSilences`).

**Payments** (`MidtransPaymentsProofs`): `TypeOK`, `CreditedOnce`, `ToldOnlyIfPaid`, from
`CreditInv`: a handler beyond `LockOrder` holds its order's lock and the order is still
pending; a handler beyond `Commit` sits on a paid order nobody else announces.

**The ledger** (second half of `MidtransPaymentsProofs`): assuming `Registered = Users`, `PaidPeriodStands`,
and that the payment path implements `PaymentLedger`. `RegisteredInv` adds to the
above that a handler about to write a period end holds the subscription row and the
end it computed is still right. The assumption is not a convenience: without it the
theorem is false (`payments_first`).

**Rides** (`EngineSessionsProofs`): `TypeOK`, `OneOpenSession`, `SummaryRepeatsOnlyUnsaved`,
`ToldOffMeansOver`, `SkippedOnlyIfLate`, and `FinishedIsFinal` for every step. The bot is
one loop, so what it holds can be tied to the tables: `LoopShape` says that while the
sessions of a device are being finished, `bot.todo` is exactly the open ones, and that
`create` is reached only with none left (hence `OneOpen`). `InOrder` says that a batch in
hand leaves no gap below it except heartbeats committed late. `ToldOff` says that one
statement at most lies between telling a chat "off" and ending its ride, and that what
an error leaves open is in `torn`. `StoredOnce` says that a summary sent is stored, is
about to be, or was lost to a failure.

**Bot updates** (`BotUpdatesProofs`): `NothingSkipped` from `QueueInv` and `BatchInv`: what
lies above the stored offset is with Telegram, what lies below was handled, and a
batch is exactly the first of these, so the update in hand is the one behind the
offset (`InHandIsNext`); every way in which a batch ends early leaves offset and
queue alone. `BindingIsForLife` from `RowsInv` and `TodoInv`: of all effects only `bind`
writes an IMEI over another, of all handlers only the answer to "send your IMEI" has
it, as its first effect and for a user who is not bound (`HandlerBinds`, one lemma per
handler); an unfinished handler is dropped, not resumed, so `bind` is never reached
with an older look at the user.

`TypeOK`, `OneDialogPerSlot` and `SilenceExplained` follow from `Whole`, which adds three
invariants about the rest of a handler's effects. A handler that sends a dialog message
deletes the remembered one first and remembers the new one next (`Plan`, `Cleared`), so
`DialogInv` allows a dialog as many messages on the screen as there were faults, plus
the one remembered. `TextInv`: a handler of a text neither asks for another nor binds a
device that is not there. `SilenceInv`: as long as an update waits for its answer, what
is left of its handler has an answer in it (`Replying`). Each is proved of every handler
(`HandlerGood`) and then kept by every effect.

**Service distance** (`ServiceDistanceProofs`): `RowsCommitInOrder` from `LockInv` (whoever is
past the upsert of the `devices` row holds it, so at most one transaction has an id in
hand) and `RowInv` (that id is above every committed one); `IdsInv` keeps the sequence
above the table although ids are lost to rollbacks.

`TypeOK`, `OdometerIsHistory` and `ServiceAnswerComplete` from `HistoryInv`: what a
transaction measured is what the committed odometer and days still give (`HandOk`: the
row lock and the lock of the backfill make the read-then-write safe), `Accounts` (total
and days are the metres between neighbouring locations, and the total is the sum of
the days), a reader's total is not above today's (`ReaderInv`). That `Accounts` survives
is `ProcessedAccounts` for one location and `RebuiltAccounts` for the backfill, and that
totals never fall, through a rebuild either, is `RebuiltIsMore`. The metres of a
history are a recursive function, so this is induction over data after all. The library's
induction theorems take an operator as parameter, which the provers cannot supply;
`SetInduction` says the same with a set, and `Recursion` that a function by steps exists
(both in `InductionLemmas`; `ConcatIsBytes` of the connection uses them too).

**Calibrations** (`FuelCalibrationProofs`): `TypeOK` (with it that no more connections are
lent than the pool has) and `StretchesAreDisjoint`. `CallInv` says that a request holds
the advisory lock from taking it to its commit, and that while it does, past its checks,
they still hold: the distance it read is the odometer, no calibration is active if it
starts one, and its own is active if it completes one. Locations take the same lock, so
the odometer stands still meanwhile (`MoveKeeps`). A finished stretch therefore ends
where the odometer was when the next could begin (`CompleteKeeps`). What
`fetch_fuel_window_metrics` computes is left open here: this invariant holds for whatever
values it returns.

`MetricsAddUp` is about these values and has two halves. For the metrics of a calibration,
`RideInv` says that locations are in the order of their times and that only the last
session is open; of the times of sessions it says nothing. `FitInv` says of what a request
has read between its queries what the property says of the rows. The riding time of a
window is at most its length (`RidingFits`) because the gaps between its locations are
disjoint, whichever locations come in late. Engine time is not, because sessions may
overlap: taken one by one, each part of a session fits between where the one before it
came to and where it comes to itself, but for what the two share (`NextSession`), so the
parts up to a session are no more than what of the window lies before its end, plus what
was shared so far (`EnginesFit`). What was measured once still fits when a session opens
or ends, because what they share only grows (`SharedGrows`, `SessionsFit`).

The reports are a consequence of the state (`ReportsRead`): a report rides no longer than the
parts of its sessions last (`ReportFits`). The inequality of the month rests on
`RidingIsCut`: the riding time from a to b and from b to c is at most that from a to c, by
induction over the locations (whoever is picked for the second part was picked for the
whole, with the same predecessor). A session is cut at midnight like its locations
(`SessionIsCut`), and the API selects for a day every session that has a part in it
(`PartsOverlap`), so the days up to d never add up to more than the month up to d
(`DaysWithinMonth`), overlapping sessions or not. The sums are the
fold of the community modules, whose recursion the provers see as a CHOOSE:
`InductionLemmas` shows that it exists, that the order does not matter (`SumsAnyOrder`) and
how it steps (`SumApart`, `UptoSteps`), once for all.

**The connection** (`DeviceConnectionProofs`): `TypeOK`, `FramesAreGreedy`,
`AcksAnswerInOrder` and `QuietNoiseLosesNothing`, for any bytes a device sends and any way they are cut into reads.
`WireInv` says that the buffer is the piece of the wire between what is consumed and what
was read; with it, what `NextFrame` sees at a place of its buffer is what the wire has at a
place of its own (`FoundIs`: nothing, an error at a start pair that begins no frame, or a
frame that is one on the wire too; `WholeIs` is the equivalence). The skipped bytes begin no
frame (`SkippedHoldNothing`), so each turn extends the consumed stretch either over places
where no frame begins (`PassedOver`) or by a frame at its first such place (`TookFrame`);
`FramesInv`, which says the frames taken end within what is consumed, makes the new one lie
inside none of them. For the answers, `AckReadBack` shows that the decoder reads what
`encode_ack` wrote as an empty frame with the same number and serial, for any `u16`
checksum; `AnswersInv` says what is written is ten bytes for each answer, and `TurnInv` how
the three counts differ inside a turn: one frame ahead of its answer (`ack`), one answer
ahead of its message (`handle`), otherwise equal. A connection closed in between keeps only
the inequalities, which are the property.

`QuietNoiseLosesNothing` says that without a start byte in the noise every meant message
arrives, in order. `ItemsHaveEnds` says where each item of a script lies on the wire,
`MeantIs` that a meant one is a frame there, and `PairIsMeant`, the heart of it, that in
quiet noise a start pair at which the decoder stops begins a meant item: the byte 120 can
only be inside one, and none is cut by what is consumed. The inductive invariant
`ArriveInv` has, under `Quiet`: no meant item lies across what is consumed (`ItemsApart`);
when the task is back at the socket none of those left is complete (`NothingWaits`); the
frames taken are the done items', in order (`FramesTold`); the messages handed on are what
the frames decode to, but for the one in hand (`EventsTold`). So nothing is ever rejected
(`ArriveReject`). TLC checked this invariant on the instance of `connection` first. The
theorem has one hypothesis on the constants, `Understood`: the frame of a meant item decodes
to what the item says. It is a hypothesis and no assumption of the module because it is
about the decoding itself, which TLC checks item by item: there a wrong `decode_message`
must break the property, not an assumption.

Model-checked only: all liveness (TLAPS does not do fairness with ENABLED), and that the
frames of the instance decode to what the tests of `src/protocol.rs` expect (`Understood`,
by `QuietNoiseLosesNothing` in `connection`).

## 6. Plan

Every safety and action property of the passing runs has its theorem. What is left: a
property of the distances in the reports, which `RideMetrics` computes and no run judges
(two locations at the very instant of a midnight are in both days, and so is the way
between them); larger instances of `updates` (two chats) and `distance` (two stops).

## 7. Not modelled

Configuration (environment, read once), message texts and JSON formatting, the process
entry points, the read-only queries and the SIM-card update of the API (single
statements without state of their own), input validation of fuel prices, and the
migrations as programs: the keys and constraints they create are in the models that
use the tables.
