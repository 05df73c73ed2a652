# green-ring in TLA+

green-ring ships **OpenWA** (`src/repo`), a NestJS gateway that runs WhatsApp
sessions for HTTP clients, and a small Python **bridge** (`src/bridge`) that
receives the gateway's webhooks. This directory holds TLA+ models of the parts
of the gateway whose correctness depends on the order of events, their TLC
configurations and machine-checked proofs.

To run: `tlc -workers 2 -config X.cfg M` for the rows of *What the runs check*,
`tlapm M_proofs.tla` for the proofs.
`PROJECT.json` lists components, runs, mutants, hazards, theorems, and for every
definition the lines it translates.

Contents: [inventory](#inventory) · [the models](#the-models) ·
[what the runs check](#what-the-runs-check) · [findings](#findings) ·
[what is proved](#what-is-proved) · [plan](#plan) · [not modelled](#not-modelled)

## Inventory

All gateway paths are below `src/repo/src`. The gateway is single-threaded per
process: code between two `await`s is atomic, everything across an `await` may
interleave with every other request, timer and engine event of the process.
Several processes may share one database (SQLite or PostgreSQL) and one Redis.

| Component | State it keeps | Operations | Interacts with | Hard behaviour | What makes it correct |
|---|---|---|---|---|---|
| Concurrency limiter `common/utils/concurrency-limiter.ts` | `active`, `waiters`, `closed` | `run`, `close` | wraps webhook dispatch, media downloads | slot handed over before the parked caller resumes | never over the limit, no lost wake-up, FIFO, drains |
| Session ownership `modules/session/session-ownership.service.ts` | `sessions.nodeId`, `leaseExpiresAt`; `owned` in memory | `claim`, `release`, `releaseAll`, `renew`, `lapsedHeldByOthers` | session service, lifecycle, sweep | several processes, lapsing leases, failed renewals | one engine per session, lost claims close engines, dead holders are replaced |
| Session service, engine controls and lifecycle `modules/session` | engine registry, `stoppingSessions`, `reconnectStates`, status column | `start`, `stop`, `logout`, `delete`, reconnect, shutdown, boot | ownership, engines, webhooks | overlapping start / stop / reconnect, slow teardowns | no engine without a claim, no engine survives a stop |
| Takeover sweep `modules/takeover` | none | one sweep per interval | ownership, `start`, bulk reaper | acts on rows read earlier | adopts orphans, and only those |
| Webhook delivery `modules/webhook`, `queue/processors/webhook.processor.ts` | outbox rows, dead letters, BullMQ jobs | `dispatch`, `redeliver`, `sweep`, `process`, `onWorkerFailed` | limiter, hooks, Redis, receivers | crashes anywhere, two reconcilers, stalled jobs | every recorded event is delivered, cancelled or reported |
| Bulk sending `modules/message/bulk-message.service.ts` | batch rows; `processingBatches`, `inFlightBatches` | `createBatch`, `cancelBatch`, `processBatch`, boot reaper, `reapProcessingBatches` | engine, ownership, sweep | cancel from another process, reapers, crash in a batch | cancel stops, report is exact, terminal status is final, no batch stuck |
| Send pacing `modules/message/send-pacing.service.ts` | breaker map, group tally; message counts | `assertSendAllowed`, `recordSendFailure/Success` | message rows, every send | checks separated from the send they guard | caps and breaker hold under concurrency |
| Single send, pending reaper `message-send.service.ts`, `pending-message-reaper.service.ts` | message rows | send, `reapRow` | engine, pacing, hooks | reaper against an answer in flight | a sent message is not reported failed |
| Ingress, redrive `modules/integration`, `queue/processors/ingress.processor.ts` | ingress events, dead letters, keyed lock | `handle`, `enqueue`, `reconcileRow`, `redriveBatch`, `process` | providers, plugins, Redis | persist-before-ack, replay, redrive beside replay | accepted events reach the plugin or a dead letter; one dispatch per conversation at a time |
| API keys and usage tracker `modules/auth` | key rows, pending counters | validate, `record`, `flushOnShutdown` | every request | counters written from stale rows | advisory |
| Plugins and sandbox `core/plugins`, hooks `core/hooks` | plugin registry, worker threads | enable, disable, dispatch | ingress, hooks | disabling with calls in flight | calls settle |
| Projectors, watchdog, proxy `modules/session` | message rows, timers | engine events, routing | lifecycle | event order | rows follow the engine's last word |
| Engine adapters `engine` | third-party clients | connect, send, destroy | lifecycle | wedged teardowns | bounded by the fences |
| Bridge `src/bridge/app` | its own message store | webhook in, media fetch | gateway | detached tasks lost in a crash | stored messages get their media |
| The rest | – | – | – | CRUD, pass-through, wiring | see *Not modelled* |

The hazards these behaviours pose are listed one by one, at their lines, in
`PROJECT.json` under `hazards`, with the properties that cover them.

## The models

| Module | Models | Used by |
|---|---|---|
| `AdmissionGate` | what a limiter promises: at most N inside, nobody inside who came after the gate shut | `ConcurrencyLimiter` (refinement) |
| `ConcurrencyLimiter` | `run()` and `close()` | `ConcurrencyLimiter_proofs` |
| `SessionLease` | what the claim of one session promises: who runs it holds its lease or was overtaken | `SessionOwnership_proofs` (refinement) |
| `SessionOwnership` | claims, leases, heartbeat, start / stop / logout, sweep, crash, shutdown, boot | `MCSessionOwnership`, `SessionOwnership_proofs` |
| `WebhookDelivery` | outbox, live dispatch, reconciler, BullMQ jobs, dead letters | `MCWebhookDelivery`, `WebhookDelivery_proofs` |
| `BulkBatch` | batch rows and runners, cancels, reapers, and the session as batches see it | `MCBulkBatch`, `BulkBatch_proofs` |
| `SessionLifecycle` | the engines of one session in one process: start, reconnect, stop, logout, kill, delete, what engines report | `MCSessionLifecycle`, `SessionLifecycle_proofs`, `SessionAtRest_proofs` |
| `ReconnectPolicy` | when a reconnect is due, and when there is none: pure functions | `MCSessionLifecycle`, `SessionAtRest_proofs` |
| `IngressDelivery` | inbound events: the row before the answer, enqueue or inline dispatch, reconciler, worker, dead letters, redrive | `MCIngressDelivery`, `IngressDelivery_proofs` |
| `OutboundMessage` | single sends under the daily cap, the echo, history and receipts, the reaper of stuck rows | run directly, `OutboundMessage_proofs` |

`SessionOwnership` and `SessionLifecycle` divide one part of the code between
them: the first knows which process may run a session and no engine identities, the
second has one process and everything its engines do. `WebhookDelivery` and
`IngressDelivery` are alike in shape (row, job, dead letter) and differ in the order
in which they write, which is where they go wrong. The `MC` modules add
symmetry sets and constraints; `MCSessionLifecycle` also evaluates
`ReconnectPolicy` on whole streaks. Operators commented *Mutant:* are
wrong variants of an action; no specification uses them. They show that the
properties below notice a plausible bug.

### Conventions

* **Awaits.** Code between two awaits is one action. A query is one atomic step
  on the rows; its continuation is a later action, so that other requests,
  other processes and crashes come between.
* **Time** is abstract. A lease may lapse, a row may become stale and a timer
  may fire at any moment the code allows.
* **Data** that no property distinguishes (message bodies, URLs, error texts) is
  absent. Counters that the code leaves unbounded are bounded by constants named
  `Max...`; actions count against them in their guards.

### ConcurrencyLimiter

`active`, `waiters`, `closed` are the fields of the class, `pc[t]` is where call
`t` of `run()` is. `woken` is the gap the code's comment warns about: the
finishing task has handed its slot over and the parked caller's continuation has
not run. `AdmissionGate` knows only who is inside and who waits;
`ImplementsGate` maps a woken call to *inside*.

### SessionOwnership

Rows: `holder` is `nodeId`, `lapsed` is `leaseExpiresAt < now`, `status` the
status column reduced to what the sweep and auto-start tell apart. Per process:
`owned`, `alive` (engine registered or reconnect pending), `mark`
(`stoppingSessions`), `start` and `stop` (the calls in flight), `releasing`,
`losing`, `renewal` (the `renew()` tick in flight with its copied id lists) and
`todo`. `expired`, `stopped` and `spent` are history for properties and bounds.

| Code | Actions |
|---|---|
| `start()` with `claim()`, `lifecycle.start()`, its transient retry and its release on failure | `StartRequested`, `StartFromList`, `ClaimReturned`, `StartAccepted`, `StartRefused`, `StartOpened`, `StartFails`, `StartRetried`, `StartGivesUp`, `Released` |
| `stop()`, `logout()`, `forceKill()` | `StopRequested`, `StopFenced`, `LogoutRequested`, `LogoutRefused`, `StopTornDown`, `StopReturns`, `LogoutReturns`, `Released` |
| engine callbacks | `EngineAsksQr`, `EngineReady`, `EngineDrops`, `EngineFails` |
| `renew()` and `stopOrphanEngines()` | `RenewBegins`, `RenewUpdates`, `RenewSelects`, `RenewFails`, `RenewDecides`, `LossTornDown` |
| the sweep | `SweepScans`, `StartFromList` |
| life of a process | `Crash`, `ShutdownBegins`, `ShutdownEngines`, `ShutdownClears`, `ShutdownReleases`, `Exit`, `Boot` |
| time | `Lapse` |

`Timely = TRUE` is the default deployment: one synchronous SQLite connection,
whose replies are processed before any other query of the process, and a
`start()` that gets from its claim to its engine within the lease (60 s).
`Timely = FALSE` is a pool of PostgreSQL connections, whose replies may be
overtaken, or a paused process. The theorems hold for both values; the invariants
`EngineHasClaim` and `AliveIsWatched` hold for the first and are violated for
the second, see *Findings*.

Assumed: one `start()` and one `stop()` or `logout()` of a session at a time in
a process; the writes of the status column are atomic with the step that issues
them.

`status` keeps apart what the sweep tells apart. ACTIVE stands for INITIALIZING,
AUTHENTICATING, READY and ACTION_REQUIRED of a linked session, DISCONNECTED for itself;
QR (QR_READY, a pairing that `TAKEOVER_STATUSES` leaves to the operator) and PARKED
(FAILED, or no phone linked) are not `Adoptable`. `LogoutRefused` is the logout of a session without an
engine: a 400 for the caller, but the claim is released all the same. At a shutdown the
engines are torn down in parallel (`ShutdownEngines`) and the registry is cleared in a
later step (`ShutdownClears`); an engine that a start registers between the two leaves
the registry without having been destroyed.

`OrphanIsAdopted` asks for a survivor that holds the claim with a `start()` of its own in
flight; a release does not meet it. Its promise is void when the dead process comes back,
when nobody survives, when the row becomes one the sweep leaves alone, and while a survivor
releases the session: a release that is late can clear the claim of the lapsed holder, and
a row without a holder is not the sweep's.

Left out: `delete()`, the data import's `suspendLossDetection()`, clock
skew between processes, engine processes that survive a forced teardown, two
overlapping `renew()` ticks, and requests that arrive during a shutdown.

### WebhookDelivery

A delivery is one event for one webhook: the key of an outbox row. The code of
`deliverOne()` (here `Attempt(a)`) is run by two kinds of actor: the live
dispatch, admitted by the limiter, and the reconciler of a process, which
replays rows that stayed pending longer than the grace period (`aged`). In
queued mode the delivery becomes a BullMQ job (external: at-least-once, a job
whose worker died is stalled and restarted once, the second stall fails it). In
direct mode the POST is made in place and retried, of which only the last
attempt is a step.

| Code | Actions |
|---|---|
| `dispatchWithLimit()`, `outbox.open()`, `close()` | `Dispatch`, `LimiterAdmits`, `LimiterRefuses`, `RefusedEnds`, `LiveCloses` |
| `deliverOne()`: hook, enqueue with fallback, POST | `PreflightPasses/Cancels/Fails`, `JobAdded`, `AddReplies`, `AddFails`, `Posted`, `PostFails` |
| `recordWebhookDeliveryFailure()`: count, then insert | `RecordChecks`, `RecordInserts`, `JobChecks`, `JobInserts` |
| `WebhookReconcilerService.sweep()` | `SweepScans`, `SweepRetires`, `SweepReplays`, `SweepSettles` |
| `WebhookProcessor.process()`, `onWorkerFailed()` | `JobStarts`, `JobDelivers`, `JobFails`, `JobStallFails` |
| outside | `Crash` (with the restart), `Ages`, `Deactivated`, `Prune` |

A crash takes everything the process had in memory; rows and jobs stay. Faults
of the bookkeeping writes are left out: each is caught and logged by design.
Duplicates at the receiver are accepted by the code and not a property here. A
job whose worker dies in the middle of the stall handler (a third crash) is
lost; `Accounted` names that exception.

### BulkBatch

One session and its batches. `row` is `message_batches`, `run[b]` the
`processBatch` of batch `b` in the process that accepted it, `flag` and
`inFlight` the maps `processingBatches` and the counter `inFlightBatches`,
`cancel` the `cancelBatch()` call of a process, `reap` its reaper. A runner
looks its engine up once; `wired` says whether that object is still running (a
reconnect in the middle of a batch makes every further send fail,
`bulk-message.service.ts:370`).
`save()` writes the entity as it was read. `Cadence` is the 10 of `i % 10`.

The session is reduced to its claim (`owner`, `expired`) and engines, with
`StartSession`, `StopSession`, `TakeOver`, `AdoptionFails`, `LoseEngine`, `Lapse`,
`Renew`; `AutoStart` switches the sweep, `OperatorStarts` the operator's calls. An
adoption is two steps. `TakeOver` claims the session and begins its `start()`; then
either the reap follows, or `AdoptionFails`: the start throws, the claim is given up
and nothing is reaped. The model does not know whether a row is eligible for the sweep,
so nothing is promised that needs the sweep to act. `strayed` records that a session went
on without a reap: an adoption failed, or a `start()` other than the sweep's took the
session from another holder. Left out:
database faults while a batch runs, media stripping, hooks, and the check that a
batch id is new.

### SessionLifecycle

`mem` is what the process keeps in memory about one session: the engine
registry, the stop mark, the reconnect state, the status write in flight
(`pendingInitialStatuses`), the watchdog's misses, the once-only stuck-auth
recovery, teardowns nobody waits for, the state of each engine, and the status
column, which only this process writes. Functions on `mem` are the synchronous
code, so that handlers that call each other compose. `removing` is
`pendingTeardowns`, `wiping` the one removal of credentials the code does not
track, `profile` the credentials on disk, shared by all engines of the session.

| Code | Actions |
|---|---|
| `start()` and `executeReconnect()` around `initializeEngine()` | `StartCalled`, `FenceOpens`, `FenceRefuses`, `HookDone`, `WriteSettles`, `WriteFails`, `InitResolves`, `InitRejects`, `InitTimesOut`, `LateKillEnds`, `ReapEnds`, `TimerFires`, `OldEngineGone`, `DestroyTimesOut` |
| the guard after initialisation | `RowRead`, `RetireEnds`, `RetireTimesOut`, `Repurged` |
| `stop()`, `logout()`, `forceKill()`, `delete()` | `Called`, `EngineCalled`, `NotFound`, `StopCaptures`, `WaitEnds`, `StopCloses`, `StopEscalates`, `LogoutReturns`, `LogoutOverruns`, `KillEnds`, `DeleteEnters`, `DeleteFenceOpens`, `DeleteRefused`, `RowDeleted`, `DeleteFails`, `Purged` |
| what ends by itself | `KillLands`, `LeakEnds`, `RemovalSettles`, `WipeLands` |
| engine callbacks, watchdog | `EngineReady`, `EngineDrops`, `EngineUnlinked`, `StuckAuth`, `EngineFails`, `EngineWedges`, `ProbeFails`, `ProbePasses`, `DropHandled`, `DropUnread` |

Assumed: status writes other than `INITIALIZING` are atomic with the step that
issues them; a SIGKILL ends the engine's process; adapters are single-use, as
theirs say. The watchdog probes READY engines only. The stability reset of the
reconnect policy happens or not, freely: its times are in `ReconnectPolicy`. One
`executeReconnect()` at a time has an identity. Two launches at once (a `start()`
while `executeReconnect()` waits at a fence, `overlapped`) are modelled as they
begin and not followed further, see *Bounds*.

### ReconnectPolicy

`decideReconnect()` as pure operators, with the exponential kept apart from the
decision, so that what holds of any delay can be proved. A delay that is no number any
more is one past the constant `MaxNumber` (`Number.MAX_VALUE`); `clampReconnectDelay()`
falls back to the base delay there, and to the cap only below it. The base delay is in
the range `resolveReconnectConfig()` clamps it to.

`MCSessionLifecycle` evaluates the operators for concrete values before it starts (with
2^30 for `MaxNumber`, since TLC's integers are 32 bits wide). A session that fails at
every attempt waits 5, 10, ... 160, 320, 5, ... s: with the default base of 5 s a limit of
seven attempts or more is never reached, because the seventh delay (320 s) is longer than
the stability window (300 s) and gives the whole budget back. For the same reason the
delay never parks at the cap (`NeverParks`). `FallsBack` shows the fallback.

### IngressDelivery

`row` and `tries` are `dispatchState` and `dispatchAttempts` of an event's row, `young`
and `fresh` the rows created, and those last tried, inside the grace window; `letters`
the dead letters of an event in the order they were saved;
`jobs` what BullMQ holds: the job named after the delivery, and one for each
redriven letter. The same `enqueue()` (`AddSucceeds`, `AddFails`, `InlineDelivers`,
`InlineFails`) is run by three actors: the request, the sweep and the redrive. `add()`
of an id BullMQ still retains adds nothing, which is why finished jobs are kept.

A sweep reads the `BatchSize` oldest pending rows past the grace window and no others
(`InBatch`). `elders[e]` are the pending rows that were there when the row of `e` was
written, so the order of creation. A row inside the retry window, or of an instance that
is disabled or deleted, is read, passed over and keeps its place. Such rows of other
instances (`Foreign`) are modelled only as far as they hold places: `Strands` puts one
there, `Leaves` takes it away (retention, or its instance is enabled and it is replayed).
`Crowded(e)` says that such rows fill the batch before `e`. A redrive reads at most
`RedriveBatchSize` letters; which ones is left open.

| Code | Actions |
|---|---|
| `IngressService.handle()` | `Receive`, `LiveCloses`, `LiveCounts`, `LiveTouches`, `LiveLetters`, `LiveWriteFails` |
| `IngressReconcilerService` | `SweepReads`, `SweepVisits`, `SweepSkips`, `SweepCloses`, `SweepRetires`, `SweepCounts`, `SweepLooks`, `SweepLetters`, `SweepMarks`, `SweepWriteFails` |
| `RedriveService` | `RedriveReads`, `RedriveVisits`, `RedriveCloses`, `RedriveRetires`, `RedriveKeeps`, `RedriveWriteFails` |
| `IngressProcessor`, BullMQ | `JobStarts`, `JobDelivers`, `JobFails`, `JobLetters`, `JobEnds`, `JobWriteFails`, `JobExpires`, and `Crash`, which stalls the active jobs |
| surroundings | `Boot`, `Matures`, `Ages`, `Disable`, `Enable`, `Strands`, `Leaves` |

Assumed: one process (`ordering-lock.ts` says so) and one plugin instance; a
request is over before the grace of 60 s has passed (an inline dispatch is limited
to 5 s). Left out: challenge, signature, size and preflight checks, the
conversation lanes, retention of the rows of `Event`, rows without a payload (they hold
a place in the batch like those of `Foreign`), and the rows of other instances that can
be sent.

### OutboundMessage

A message has at most two rows, its own (`own`, saved PENDING before the engine is
asked) and the echo's (`echo`); the unique index lets only one carry the WhatsApp
id (`tagged`). All senders (text, media, extended, forward, reply) take the same
four steps.

| Code | Actions |
|---|---|
| a send | `Counts`, `Refuses`, `SavesPending`, `Resolves`, `Rejects`, `SavesFailed`, `SavesSent`, `SavesSentNoId`, `Merges`, `Drops` |
| events of the engine | `Accepts`, `EchoArrives`, `EchoInserts`, `Replays`, `AckArrives`, `AckRetries` |
| reaper and process | `SweepFinds`, `SweepThrows`, `Reaps`, `Crash`, `Boot` |

Which PENDING rows are past the grace is left open, so the reaper may come at any
moment. Left out: the breaker, the cold-contact budget and the group tally; edits,
revokes and reactions; inbound messages; bulk's own insert path.

## What the runs check

All runs take less than five minutes with two workers and end without an error.

| Run (cfg) | Instance | Checks | What it shows |
|---|---|---|---|
| `limiter` (`ConcurrencyLimiter`) | 6 calls, 2 slots, 2 places to wait, `close()` at any time | `ServedInOrder` `ParkedIsSettled` `ImplementsGate` | the hand-over neither leaks nor doubles a slot; 6 calls fill slots and queue and leave two to be refused or raced |
| `ownership` (`MCSessionOwnership`) | 2 processes, 1 session, 2 requests, 1 lapse under an engine | `AliveIsWatched` `EngineHasClaim` `StoppedIsNoOrphan` `LiveLeaseIsExclusive` | with ordered replies an engine is always covered by its claim and by the heartbeat, however starts, stops, ticks and sweeps overlap |
| `ownership_outages` (`OwnershipOutages`) | 2 outages, 1 request, no lapse under an engine | `TwoEnginesOnlyAfterLapse` | crash, shutdown and restart never lead to two engines of a session |
| `ownership_overlap` (`OwnershipOverlap`) | 1 request, 1 lapse, `HeartbeatSpec` | `OverlapEnds` `ClaimIsNotPinned` | two engines on one session do not stay; a claim without an engine lapses |
| `ownership_adoption` (`OwnershipAdoption`) | 1 outage, 1 request, `SweepSpec` | `OrphanIsAdopted` | a linked session that ran on a dead process is started by a survivor; a session asked to pair again is promised nothing |
| `webhook` (`MCWebhookDelivery`) | 1 queued delivery, 1 process, 3 attempts, 2 crashes, 2 jobs, fairness | `DispatchedIsAccounted` `FailedIsAccounted` `ReplaysWithinBudget` `EventuallyAnswered` | a closed row is always somebody's, the budget holds, every recorded event is delivered, cancelled or reported and its row settled |
| `bulk_cancel` (`BulkCancel`) | 2 processes, 1 batch of 3, cadence 2, 1 lapse, operators start and stop | `CancelStops` `ReportIsExact` `TerminalIsFinal` | cancels from both processes at every point of a run |
| `bulk_limit` (`BulkLimit`) | 2 processes, 2 batches, cap 1, 1 crash, `stopOnError` for one | `RunsAreCounted` | every exit of a run gives its place back, and a reboot begins from nothing |
| `bulk_settles` (`BulkSettles`) | 2 processes, 1 batch of 1, 1 crash, sweep and operators on, fairness | `ProcessingSettles` `ReapsNoLivePeer` | a batch left by a dead process is closed unless the session went on without a reap; no reaper fails what a live peer is sending |
| `lifecycle` (`MCSessionLifecycle`) | 3 calls, 2 faults, reconnect budget 1, 5 identities, fairness | `NoOrphan` `StoppedStaysDown` `StopIsTheLastWriter` `DeletedLeavesNothing` `NoSilentDeath` `NoIdleReconnectState` `RemovalSparesSuccessor` `NameIsFreedClean` `WedgeIsNoticed` | no engine is out of reach, a stop and a delete hold whatever launch they meet, no dead engine stays registered, no removal of credentials hits a successor |
| `ingress` (`MCIngressDelivery`) | 1 event, 1 foreign row, a batch of 1, 2 faults, 2 replays, 1 redrive, fairness | `Accounted` `FailedHasLetter` `RedrivenIsNotStale` `EventuallyAnswered` | an event that was acknowledged is always somebody's, and is handled or left in a dead letter, unless rows no sweep may send fill the batch before it |
| `sending` (`OutboundMessage`) | 2 sends, allowance 1, 2 faults, 2 receipts, fairness | `AcceptedIsRecorded` `ShownOnce` `AnsweredIsNotReaped` `CapHolds` `DeliveryAdvances` `PendingSettles` | what WhatsApp accepted is recorded, shown once with its payload, its delivery state only advances, no row stays PENDING |

The `TypeOK` of every module, and the limiter's `SlotAccounting`, `WaitersAreParked`,
`NoIdleSlotWhileParked` and `DrainedMeansIdle`, are proved and have no run; they were
checked with TLC on the instances above, as was every inductive invariant named
under *What is proved*, before its proof.

**Bounds.** Two processes are enough because every rule is between a holder and
one other process (the claim's predicate and the guarded updates compare two
identities). One session is enough in `SessionOwnership` because no action
reads two sessions except to apply the same rule to each. A `Max...` bound is
chosen so that the event can happen before, during and after every operation it
races: two requests give every overlap of a start with a stop or a second
start; as many crashes as needed for a crash, a restart and a crash in recovery.
`MaxCrashes < MaxAttempts` in the runs that check `FailedIsAccounted` is a
hypothesis, not a convenience: see *Findings*. Lapses under a running engine and
outages are explored in different runs; together they take too long for a routine run.
Where a liveness run is smaller than its safety runs, the reason is TLC's cost of
fairness.

`lifecycle` has three calls and two faults because that is what the interesting
cases need: a start, a stop or delete and a second start, with a slow removal
and a lost deadline among them; a reconnect budget of one lets a session fail,
recover and fail for good. Its constraint `Followed` cuts off two things, named in
`MCSessionLifecycle`: behaviours with two launches at once, most properties of which do
not hold then (see *Findings*), and what follows the last of the five events.
The safety properties were also checked without the second cut (1.4 million states, by hand). `Roomy` ends
an `ingress` behaviour with its last dead letter; there a batch of one row and one foreign
row are the smallest instance in which the batch is full of rows nobody may send, and an
instance with two events of the same instance and no foreign row, in which one event's
row holds the place of the other, was also checked by hand. In `sending` one of the two
messages hears nothing from WhatsApp: it is there for the cap and the reaper's
sweep over several rows.

**Deadlock** checking is off wherever operators' calls, crashes and events are
bounded, since the system then really comes to rest. `limiter` keeps it: `close()`
can always be called.

**Fairness.** Weak fairness on steps a process takes by itself: a promise
settles (queries and POSTs have timeouts, `teardownEngineSafely` gives every
teardown 10 s), an interval timer fires, BullMQ keeps its workers busy, a row gets
older, a lease that nobody renews runs out. Each property gets only the fairness it
needs. `HeartbeatSpec` is about the heartbeat: its two queries are the only steps
with strong fairness, because a query that is repeated at every tick does not fail
for ever. `SweepSpec` is about adoption: leases run out, sweeps run, and a `start()`
makes progress. In `BulkBatch` runners, reapers and calls under way go on and a crashed
process is started again (the service manager restarts it); nothing makes the sweep
adopt a session, whose row may not be eligible. In `SessionLifecycle`: promises settle, timers fire, the watchdog
probes and a disconnect that was heard is handled. In `IngressDelivery`: rows
mature and age, the sweep, the redrive, the jobs and the request's own steps go on. In
`OutboundMessage`: only the reaper's sweep and the restart; a send may hang for ever.
Nothing forces an operator's call, an engine event, a crash or
a successful send.

## Findings

No run ends in a violation. The modules state some properties, most of them in the
words of a comment of the code, that the code does not keep in general. No run is
kept for them; each is reproduced by checking the property on the instance named
here.

| Property | Instance | What happens |
|---|---|---|
| `SweepRespectsStop` | `MCSessionOwnership`: 2 processes, 1 session, `Timely = TRUE`, 1 outage, 3 requests, no lapse | the sweep starts a session an operator stopped after the sweep had listed it (`session-ownership.service.ts:142-145` says such a row "never shows up as orphaned here") |
| `EngineHasClaim` | `MCSessionOwnership` with `Timely = FALSE` | a release still on its way clears the claim of a start that overtook it |
| `AliveIsWatched` | `MCSessionOwnership` with `Timely = FALSE` | a start beside a stop runs an engine the heartbeat does not look after |
| `ReleasedIsClosed` | `OwnershipOutages` | a start in flight at shutdown registers an engine after all claims were released |
| `OneJob` | `MCWebhookDelivery`: 1 delivery, 1 process, queue on, 1 attempt, 1 crash, 2 jobs | after a crash between `add()` and the outbox update the replay's fresh job id adds a second job (`webhook-delivery.service.ts:470-471`: "a crash between add() and the bookkeeping below cannot re-enqueue the same delivery") |
| `OneLetter` | `MCWebhookDelivery`: 1 delivery, 2 processes, queue off, 3 attempts, 2 crashes | two failing attempts both count zero letters and both write one |
| `FailedIsAccounted` | the same with `MaxCrashes = 3` | crashes spend the replay budget; the row is closed as failed and no dead letter exists |
| `ReplaysWithinBudget` | `MCWebhookDelivery`: 1 delivery, 2 processes, queue off, 2 attempts, no crash | two reconcilers read the same row, both replay it and each writes the count it read plus one, so that a row is replayed more often than the budget that is to prevent "an infinite replay loop" (`webhook-reconciler.service.ts:18-22`; `:52-56` accepts that rows are not claimed) |
| `ReapsNoLiveBatch` | `BulkSettles` | the process that adopts a session fails a batch that it accepted itself between its `start()` and the read of its reap (`session-takeover.service.ts:127` means only "The dead node's in-flight batches") |
| `TerminalIsFinal` | `BulkLimit` | the boot reaper saves FAILED over a cancel already answered |
| `EveryReportIsExact` | `BulkCancel` | a late cancel leaves sent messages counted as cancelled |
| `EveryBatchSettles` | `BulkSettles`, also with `OperatorStarts = FALSE` | the adoption of a dead process's session fails and gives the claim up without a reap; the dead process, back meanwhile, met the adopter's live claim and skipped the batch at its boot; nobody looks at it again (`bulk-message.service.ts:126-128`: "it would otherwise be stuck in PROCESSING forever"). So does a session an operator moved |
| `StartReapsItsOwn` | `MCSessionLifecycle` without its constraint | a `start()` that fails takes down the engine of a reconnect that began meanwhile (`session-engine-controls.ts:209`: "the engine in the map here is the one this start just created") |
| `NoSilentDeath` without its `~crossed` | `MCSessionLifecycle`: 2 calls, 3 faults, 1 request, no constraint | an engine drops and its reconnect is tearing it down when a `delete()` cancels the reconnect state, fails and takes its mark back; the reconnect goes on and registers an engine for which no reconnect state exists; when that one drops, nothing follows and the dead engine stays registered (the comment in `scheduleReconnect()`: "silently stuck DISCONNECTED") |
| `DeletedIsTornDown` | `MCSessionLifecycle` | a launch whose guard read the row before `delete()` removed it runs an engine for a session that no longer exists |
| `RetiredIsDelivered` | `MCIngressDelivery` | the sweep's `add()` returns a failed job BullMQ still retains; the row and the job's dead letter are closed and nothing will deliver the event |
| `NeverStarved` | `MCIngressDelivery` | the oldest rows belong to an instance that is disabled or deleted; they fill every batch and use up no budget, so younger rows of a live instance are not replayed until retention drops the old ones (`ingress-reconciler.service.ts:113-114`: "it keeps its batch slot (bounded by maxAttempts, so the leak is capped)") |
| `ReplaysOnlyPending` | `MCIngressDelivery` | the sweep replays a row that was closed after its scan (`ingress-reconciler.service.ts:58`: "never re-queued") |
| `AnsweredIsNeverFailed` | `OutboundMessage` | the SENT write of a delivered message is rejected and swallowed; the reaper then marks the row FAILED (`message-send.service.ts:645` is about that very outcome) |
| `NeverTakenBack` | `OutboundMessage` | the merge writes SENT over a DELIVERED or READ that the echo's row already had (`message-projector.service.ts:468`: "delivery state only ADVANCES") |

Observed while the models were written, with no property of their own:

* **Lifecycle.** A stop or delete that marks the session while a launch is in its
  hook, at a fence or tearing down the old engine leaves the status INITIALIZING
  without an engine, or a reconnect state that `isEngineActive()` takes for one
  (`crossed` in the properties). A `delete()` refused at its first fence leaves the
  stop mark set (`refused`). The removal of credentials by the stuck-auth recovery
  is not announced to the fences (`wiping` beside `removing`). A disconnect is
  dropped when the read of the row fails (`unheard`). A destroy that times out in
  the guard after initialisation is not escalated (`leaked`).
* **Reconnect policy.** With the default base delay no limit of seven or more, and
  with the longest one no limit but zero, is ever reached. Nor does the delay ever park
  at the cap, as `reconnect-policy.ts:111-112` and
  `session-engine-lifecycle.service.ts:61-62` say: once it exceeds the stability window
  (300 s) it starts over from the base. The example of
  `docs/12-troubleshooting-faq.md:570-577` (base 5000, limit 10) never gives up.
* **Ingress.** `sanitizeIngressJobId` gives a job id its instance only when the
  delivery id has a shape BullMQ refuses, so two instances whose providers use the
  same ordinary id share one job. A job that stalls too often leaves no dead letter,
  as no `failed` handler exists; nor does one whose hook or save is rejected on the
  last attempt (`unlettered`).
* **Sending.** A merge that fails is followed by the deletion of the row that had
  the payload; a delete that fails leaves both rows; a message whose answer was
  lost is FAILED although WhatsApp has it. All three are outside `ShownOnce` by its
  hypothesis `disturbed` or by the lost answer.

## What is proved

The proofs hold for every value of the constants that satisfies the modules'
named assumptions, so for any number of processes, sessions, calls and
deliveries and for every bound.

**ConcurrencyLimiter_proofs** (assumes `Max` and `MaxQueued` as the constructor
normalises them, `Task` finite). The invariant is the conjunction `Safety` of
`SlotAccounting`, `WaitersAreParked` and `NoIdleSlotWhileParked` with `TypeOK`.
None is inductive alone: that a finishing task may pass its slot on without
touching `active` needs the head of `waiters` to be a parked call (so that the set
of holders loses one and gains one), and that a freed slot leaves nobody behind
needs `active = Slots` while someone waits. From it follow `DrainedMeansIdle`,
the action property `ServedInOrder`, and `ImplementsGate`: the initial states
are the gate's, and every step is a step of `AdmissionGate` or a stutter.

**SessionOwnership_proofs** (assumes `NoNode \notin Node` and bounds in `Nat`).
`OwnershipTypeOK`; `OwnershipLiveLease`, `Spec => LiveLeaseIsExclusive`: no step
of any process takes or clears a lease that has not lapsed, except its holder's;
`OwnershipStopped`, `Spec => []StoppedIsNoOrphan`. The second and third go action by
action: a session enters `stopped` only in a release that leaves its row free, and every
action that makes a row non-free is a claim, which takes it out again.
`OwnershipWatched`, `OwnershipClaimed` and `OwnershipTwoEngines` prove `AliveIsWatched`,
`EngineHasClaim` and `TwoEnginesOnlyAfterLapse` under the hypothesis `Timely`, which is
what their runs set (a reply reaches its process before that process acts on the session
again, and a `start()` gets from its claim to its engine within the lease); without it
the first two fail, see *Findings*. Their invariant `Covered` says, for every process
that has not released everything to exit, what stands between its claim and its
engine: a starting session's claim is live, a lapse under an engine is noted, nothing
runs or starts while a release is on its way, and the heartbeat decides nothing about
a session that started after its query. Each is needed by another: the engine keeps
its claim because no release is under way, and that is so because a release begins only
where neither an engine nor a claimed start is.
`OwnershipImplementsLease` then maps every session to the abstract `SessionLease`: the
row is the lease, the processes with an engine (but for those about to exit) are its
users, `expired` names the overtaken ones. An engine is opened only on a live lease of
one's own, a lease is given up by its holder only with nothing open, a lapsed one is
anybody's; every other step of every process, and every step about another session,
closes the session or is a stutter. `LeaseExcludes` shows, from the abstract steps
alone, what such a lease is good for: of two users one was overtaken. It too needs
`Timely`. TLC finds no violation of the step mapping on the instances of `MCSessionOwnership`
and `OwnershipOutages`; it has no run of its own.

**WebhookDelivery_proofs** (assumes deliveries and processes are disjoint, bounds
in `Nat`). `WebhookTypeOK`, and `WebhookDispatched`, `Spec =>
[]DispatchedIsAccounted`. The strengthening says what each outcome an actor may
carry towards `outbox.close()` already guarantees (`delivered`: the receiver has
it; `enqueued`: a job exists; `cancelled`: the hook cancelled it), and that no
job leaves BullMQ without a receipt, a dead letter or the named loss. It is
needed because the row is closed some steps after the fact that justifies it,
with crashes and other actors in between. `WebhookBudget` proves `ReplaysWithinBudget`
for one reconciler (`Counted`: what the sweep has read of a row is what the row says,
and the row counts its replays); two can exceed it, see *Findings*. `WebhookFailed` proves
`FailedIsAccounted` where `MaxCrashes < MaxAttempts`, for any number of processes: as
long as nobody has the delivery, every attempt counted on its row is paid for by a
crash that happened or by a process that is at it (`Paid`), so a budget larger than
the number of crashes is not spent without a dead letter.

**OutboundMessage_proofs** (assumes the messages finite, bounds in `Nat`). The
invariant `IInv` relates the rows of a message to how far its request is: which
states its own row can be in at each stage, that nothing is heard of a message that
was not accepted, that an own row is gone only when the echo's is there, and that
only a receipt fails a row with a WhatsApp id. From it: `OutboundRecorded`,
`OutboundShownOnce`, `OutboundNotReaped` and the action property `OutboundAdvances`.
`OutboundCap` has an invariant of its own, `CapInv`: the sends past the count and not
yet in the database are no more than the window was wide, and the messages with a row or
past the count exceed the allowance by less than that.

**IngressDelivery_proofs** (assumes the actors distinct, the foreign rows none of the
events, positive attempts, budget and batch sizes, other bounds in `Nat`). `IInv` is
`Shape` (types, numbering of the letters, who is at work on which event), `Answer`
and `Letters`. The heart is `Held(e, i)`: somebody has event `e` for a reason younger
than its letter `i`. `Accounted` alone is not inductive, since a redrive closes a letter
that may be the only thing left of an event; it holds because the letter is closed only
after a job was owed or a younger letter opened, and that is what `Taken` and `Passed`
carry from the enqueue to the write that follows it. Results: `IngressAccounted`,
`IngressFailedHasLetter`, `IngressRedriven`.

**BulkBatch_proofs** (assumes at least one message, a positive cadence and bounds in `Nat`). `Shape` gives `BulkTypeOK`
and `BulkRunsAreCounted` for every setting: a process's count is the number of batches
it runs, at every exit. `Obeyed` gives `BulkHomeCancelStops`: after a cancel answered
by the runner's own process, at most the message under way is sent, whatever reapers and
crashes do. `BulkCancelStops`, `BulkReportIsExact` and `BulkTerminalIsFinal` need that
nobody reaps (`NoReaper`: no crash, no sweep), as in `bulk_cancel`; with a reaper the
last two fail, see *Findings*. Their invariant `Reported` says what the row says of the
runner between two checkpoints. `BulkReapsNoLivePeer`, `Spec => ReapsNoLivePeer`, holds with sweeps, crashes,
stops and starts at any time; its own hypotheses are that no lease lapsed under its
engine and the session has not `strayed`. The invariant is `Reaped`: the claim and the
engine go together while nothing lapsed (`Quiet`), and what a reaper has in hand belongs
to a runner that is dead, without an engine, or its own (`Attended`). Without these hypotheses
and the exception of the reaper's own batches it fails.

**SessionLifecycle_proofs** (assumes `NoEngine \notin Engine`, `Start \notin Attempt`,
bounds in `Nat`). First one lemma for each handler says what it does, field by field,
so that no later proof opens a handler again. Then the invariant grows in layers:

* `Typed` adds to `TypeOK` which engine, victim and kind a launch or a call carries at
  which point. `LifecycleTypeOK`.
* `Reached`: engines whose removal has ended are gone, there is one launch at a time,
  a launch that works on an engine works on the registered one or on one that is being
  closed, and `NoOrphan`. `LifecycleNoOrphan`.
* `Downed`: while the stop mark is set, a call has not yet captured what it found, or
  nothing is armed and whatever is registered has been captured by a call or will be
  found by its launch. It is needed because the property speaks of the moment when
  everything has been answered, long after the mark. `LifecycleStopped`.
* `Fenced`: only the registered engine can be used; a call that has captured an
  engine finds no other; every launch at a fence waits for every pending removal, and
  none is pending once it passed. `LifecycleSparesSuccessor`.
* `Freed`: a delete past its teardown has left neither engine nor reconnect
  state, and waits for all removals. `LifecycleNameIsFreed`.

The layers say nothing where two launches overlapped or a call crossed a launch
without an engine (`overlapped`, `crossed`), as the properties do not.

**SessionAtRest_proofs** (the same assumptions) continues with the properties of a
session at rest. They speak of a state in which nothing is under way any more, long
after the drop, the stop or the delete that decides it; the layers therefore carry,
through every stage of every launch and call, who still owes what:

* `Tended` extends `Freed`. A launch whose INITIALIZING write is pending finds its engine
  registered and untouched; a launch without an engine runs with no stop marked; a
  registered engine that nobody stops has reconnect state, and is alive, about to be
  heard of, waiting for its timer, or about to be opened or replaced by a launch;
  reconnect state that no timer and no launch continues is a call's to cancel.
  `LifecycleNoIdleState`, `LifecycleNoSilentDeath`.
* `Closing` adds, for a session marked stopped: an INITIALIZING write still pending is
  awaited; an engine runs only until the call has captured it; a mark without a row
  belongs to a call that will take it back; with no call under way the status says
  stopped. `LifecycleStopWritesLast`.
* `Cleared` extends `Reached`. A purge comes after the transaction that removes the row;
  credentials without a row are still to be purged, by the delete or by the launch that
  wrote them; an engine without a row, or beside a delete that has looked for one, is
  registered by a launch that is still to look at the row. `LifecycleDeleted`.

Each part is guarded by the history flags that its property excludes (`overlapped`,
`crossed`, `refused`, `escaped`), and by no others: `Cleared` holds across `crossed` calls,
and the first half of `Tended` across refused writes.

`RescheduleDecides` ties the two models of the reconnect together: what
`scheduleReconnect()` does in `SessionLifecycle` is what `decideReconnect()` decides in
`ReconnectPolicy`.

The theorems about **ReconnectPolicy** are in the same module. `DelayIsSafe`: however
many attempts came before, the delay is at least the session's base delay and at most
one hour, the fallback of a delay that is no number included. `BackoffStaysShort`: if
the next decision comes no earlier than the delay that was given, the exponential stays within
twice the stability window, so that the clamp and its fallback are never reached. Where a power
of two matters the theorem assumes, of all exponents, that it is a positive number and
doubles; these are induction over the exponent, which the prover cannot do. The second
also assumes `MaxNumber` not below the cap and a jitter under one second.
`BudgetIsKept`, `BudgetIsSpent`: a decision taken inside the budget stays inside it, and
an attempt inside the stability window counts. `LongDelayRestoresBudget`: once the
delay is as long as the window, the attempt it announces finds the whole budget
again, for any limit above zero; this is the general form of what
`MCSessionLifecycle` computes for concrete limits. That the delays do grow that long
stays with TLC.

Every safety property that a run checks is proved, in the cases above under the named
hypothesis that its run sets. Model-checked only are the liveness properties
(`ParkedIsSettled`, `OverlapEnds`, `ClaimIsNotPinned`, `OrphanIsAdopted`,
`EventuallyAnswered`, `ProcessingSettles`, `WedgeIsNoticed`, `PendingSettles`): fairness
and `ENABLED` are outside the prover. The runs' instances have few processes and
deliveries; the theorems cover any number.

## Plan

Done: `ConcurrencyLimiter`, `SessionOwnership`, `WebhookDelivery`, `BulkBatch`,
`SessionLifecycle` with `ReconnectPolicy`, `IngressDelivery`, `OutboundMessage`.

1. A delivery ledger as the common abstract specification of `WebhookDelivery` and
   `IngressDelivery`.
2. The conversation lanes of the ingress worker (`KeyedLock`), the breaker and the
   cold-contact budget of the send pacing.

Modules meant for proofs hold no recursive operators. Induction over data is out of
the prover's reach, so a fold or a recursive function would stay with TLC.

## Not modelled

* **Pass-through and CRUD**: chat, contact, group, label, channel, catalog, profile,
  call, status, template, media, search, statistics, settings, audit and webhook
  administration. They forward a request to the engine or a row.
* **Third-party code**: the WhatsApp engines behind `engine/adapters`, BullMQ,
  TypeORM, plugin code. Where a model depends on them it states what it assumes.
* **Operator tooling, bootstrap, UI**: configuration, data export and import,
  migrations, docker, metrics, health, dashboard, SDKs, scripts, charts.
* **Parts of modelled components** named in *The models*: the conversation lanes of
  the ingress worker, the breaker and cold-contact budget of the pacing, edits,
  revokes, reactions and inbound messages of the projectors. They keep state of
  their own and are next in the plan.
* **API-key usage counters** are advisory by their own comments.
* **The Python bridge** stores what the gateway sends it; its one ordering hazard is
  listed.
