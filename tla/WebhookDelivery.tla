-------------------------- MODULE WebhookDelivery --------------------------
(***************************************************************************)
(* Outbound webhook delivery: the outbox row, the live delivery of one     *)
(* event to one webhook, the reconciler that replays stranded rows, the    *)
(* BullMQ jobs the queued mode hands a delivery to, and the dead-letter    *)
(* table.  Sources: modules/webhook and modules/queue/processors.          *)
(*                                                                         *)
(* A delivery is one (webhook, idempotency key) pair: the key of the       *)
(* outbox row.  Two kinds of actor run deliverOne() on it: the live        *)
(* dispatch, named by the delivery itself, and the reconciler of a         *)
(* process, named by the process.  Both awaits on the database and the     *)
(* network are where another actor may run or the process may die.         *)
(*                                                                         *)
(* Outside the model: failed writes of the bookkeeping itself (each is     *)
(* caught and logged), filters, signatures, headers and payload size.      *)
(***************************************************************************)
EXTENDS Naturals

CONSTANTS
  Delivery,      \* deliveries of events to webhooks
  Proc,          \* processes (nodes) sharing the database and Redis
  None,          \* no process, no delivery
  QueueEnabled,  \* queue.enabled: hand deliveries to BullMQ, or POST inline
  MaxAttempts,   \* WEBHOOK_RECONCILE_MAX_ATTEMPTS: replay budget of a row
  MaxCrashes,    \* bound: crashes of processes in a behaviour
  MaxJobs        \* bound: jobs one delivery may be handed to

ASSUME ActorsAssumption ==
  /\ Delivery \cap Proc = {}
  /\ None \notin Delivery \cup Proc
  /\ QueueEnabled \in BOOLEAN
ASSUME BoundsAssumption ==
  MaxAttempts \in Nat \ {0} /\ MaxCrashes \in Nat /\ MaxJobs \in Nat

VARIABLES
  row,        \* outbox row of a delivery
  attempts,   \* its attempts column
  aged,       \* deliveries whose row is older than WEBHOOK_RECONCILE_GRACE_MS
  inactive,   \* deliveries whose webhook was deleted or switched off
  letters,    \* dead-letter rows written for a delivery
  received,   \* deliveries the receiver got
  cancelled,  \* deliveries a plugin's webhook:before hook cancelled
  phase,      \* dispatchWithLimit() of a delivery
  home,       \* the process it runs in
  work,       \* where an actor is in deliverOne()
  target,     \* the delivery the reconciler of a process replays
  todo,       \* rows its sweep has still to visit
  seen,       \* attempts of those rows when the sweep read them
  jobs,       \* BullMQ jobs of a delivery, numbered as they were added
  replays,    \* replays of a delivery (read by properties only)
  crashes     \* crashes so far

outboxVars == <<row, attempts, aged, inactive>>
factVars   == <<letters, received, cancelled>>
liveVars   == <<phase, home>>
sweepVars  == <<target, todo, seen, replays>>
vars == <<outboxVars, factVars, liveVars, work, sweepVars, jobs, crashes>>

Actor    == Delivery \cup Proc
Rows     == {"none", "pending", "dispatched", "failed", "pruned"}
Phases   == {"new", "limiter", "running", "refused", "over"}
Outcomes == {"delivered", "enqueued", "cancelled", "failed"}
Stages   == {"idle", "preflight", "adding", "added", "posting", "checking",
             "inserting"} \cup Outcomes
\* A job BullMQ still holds, and every state of a job.
Owned    == {"waiting", "active", "checking", "inserting", "stalled"}
JobStages == Owned \cup {"none", "delivered", "dead", "lost"}
JobNumber == 1..MaxJobs
Job      == [stage : JobStages, at : Proc \cup {None}, stalls : 0..2]

\* The delivery an actor works on.
On(a) == IF a \in Delivery THEN a ELSE target[a]

\* UPDATE ... SET state = s: the row keeps nothing of the state it had, and a
\* row that was pruned is not matched.
Close(d, s) ==
  row' = IF row[d] = "pruned" THEN row ELSE [row EXCEPT ![d] = s]

Move(a, from, to) ==
  /\ work[a] = from
  /\ work' = [work EXCEPT ![a] = to]

Init ==
  /\ row = [d \in Delivery |-> "none"]
  /\ attempts = [d \in Delivery |-> 0]
  /\ aged = {} /\ inactive = {}
  /\ letters = [d \in Delivery |-> 0]
  /\ received = {} /\ cancelled = {}
  /\ phase = [d \in Delivery |-> "new"]
  /\ home = [d \in Delivery |-> None]
  /\ work = [a \in Actor |-> "idle"]
  /\ target = [p \in Proc |-> None]
  /\ todo = [p \in Proc |-> {}]
  /\ seen = [p \in Proc |-> [d \in Delivery |-> 0]]
  /\ jobs = [d \in Delivery |-> [j \in JobNumber |-> [stage |-> "none", at |-> None, stalls |-> 0]]]
  /\ replays = [d \in Delivery |-> 0]
  /\ crashes = 0

-----------------------------------------------------------------------------
(* dispatchWithLimit(): the row is written before anything is attempted.   *)

Dispatch(d, p) ==
  /\ phase[d] = "new"
  /\ row' = [row EXCEPT ![d] = "pending"]
  /\ phase' = [phase EXCEPT ![d] = "limiter"]
  /\ home' = [home EXCEPT ![d] = p]
  /\ UNCHANGED <<attempts, aged, inactive, factVars, work, sweepVars, jobs, crashes>>

LimiterAdmits(d) ==
  /\ phase[d] = "limiter"
  /\ phase' = [phase EXCEPT ![d] = "running"]
  /\ Move(d, "idle", "preflight")
  /\ UNCHANGED <<outboxVars, factVars, home, sweepVars, jobs, crashes>>

\* Queue full, or closed by the shutdown drain: a dead letter, and the row
\* stays pending.
LimiterRefuses(d) ==
  /\ phase[d] = "limiter"
  /\ phase' = [phase EXCEPT ![d] = "refused"]
  /\ Move(d, "idle", "checking")
  /\ UNCHANGED <<outboxVars, factVars, home, sweepVars, jobs, crashes>>

Ended(d) ==
  /\ phase' = [phase EXCEPT ![d] = "over"]
  /\ home' = [home EXCEPT ![d] = None]
  /\ work' = [work EXCEPT ![d] = "idle"]

RefusedEnds(d) ==
  /\ phase[d] = "refused" /\ work[d] = "failed"
  /\ Ended(d)
  /\ UNCHANGED <<outboxVars, factVars, sweepVars, jobs, crashes>>

\* The live path closes the row whatever deliverOne() returned.
LiveCloses(d) ==
  /\ phase[d] = "running" /\ work[d] \in Outcomes
  /\ Close(d, "dispatched")
  /\ Ended(d)
  /\ UNCHANGED <<attempts, aged, inactive, factVars, sweepVars, jobs, crashes>>

-----------------------------------------------------------------------------
(* deliverOne(), for the live path and for a replay.                       *)

PreflightCancels(a) ==
  /\ Move(a, "preflight", "cancelled")
  /\ cancelled' = cancelled \cup {On(a)}
  /\ UNCHANGED <<outboxVars, letters, received, liveVars, sweepVars, jobs, crashes>>

PreflightFails(a) ==
  /\ Move(a, "preflight", "checking")
  /\ UNCHANGED <<outboxVars, factVars, liveVars, sweepVars, jobs, crashes>>

PreflightPasses(a) ==
  /\ Move(a, "preflight", IF QueueEnabled THEN "adding" ELSE "posting")
  /\ UNCHANGED <<outboxVars, factVars, liveVars, sweepVars, jobs, crashes>>

\* add() reaches Redis.  The job id is the delivery id of this attempt, which
\* a replay mints anew: no earlier job is ever the same job.
JobAdded(a) ==
  /\ Move(a, "adding", "added")
  /\ \E j \in JobNumber :
       /\ jobs[On(a)][j].stage = "none"
       /\ \A i \in 1..(j - 1) : jobs[On(a)][i].stage # "none"
       /\ jobs' = [jobs EXCEPT ![On(a)][j] = [@ EXCEPT !.stage = "waiting"]]
  /\ UNCHANGED <<outboxVars, factVars, liveVars, sweepVars, crashes>>

AddReplies(a) ==
  /\ Move(a, "added", "enqueued")
  /\ UNCHANGED <<outboxVars, factVars, liveVars, sweepVars, jobs, crashes>>

\* add() rejects, whether or not Redis had taken the job: POST inline.
AddFails(a) ==
  /\ Move(a, "adding", "posting") \/ Move(a, "added", "posting")
  /\ UNCHANGED <<outboxVars, factVars, liveVars, sweepVars, jobs, crashes>>

\* deliverWebhook() answers 2xx at one of its attempts.
Posted(a) ==
  /\ Move(a, "posting", "delivered")
  /\ received' = received \cup {On(a)}
  /\ UNCHANGED <<outboxVars, letters, cancelled, liveVars, sweepVars, jobs, crashes>>

\* Mutant: the last failed attempt writes no dead letter.
PostFailsSilently(a) ==
  /\ Move(a, "posting", "failed")
  /\ UNCHANGED <<outboxVars, factVars, liveVars, sweepVars, jobs, crashes>>

\* Its last attempt fails; the receiver may have got one whose answer was lost.
PostFails(a) ==
  /\ Move(a, "posting", "checking")
  /\ \/ received' = received
     \/ received' = received \cup {On(a)}
  /\ UNCHANGED <<outboxVars, letters, cancelled, liveVars, sweepVars, jobs, crashes>>

\* recordWebhookDeliveryFailure(): count the rows of this key, and insert one
\* in a second statement if there is none.
RecordChecks(a) ==
  /\ Move(a, "checking", IF letters[On(a)] > 0 THEN "failed" ELSE "inserting")
  /\ UNCHANGED <<outboxVars, factVars, liveVars, sweepVars, jobs, crashes>>

RecordInserts(a) ==
  /\ Move(a, "inserting", "failed")
  /\ letters' = [letters EXCEPT ![On(a)] = @ + 1]
  /\ UNCHANGED <<outboxVars, received, cancelled, liveVars, sweepVars, jobs, crashes>>

-----------------------------------------------------------------------------
(* The reconciler of a process.                                            *)

Stale == {d \in aged : row[d] = "pending"}

\* One pass at a time: the sweeping flag.
Scans(p, rows) ==
  /\ work[p] = "idle" /\ todo[p] = {}
  /\ rows # {}
  /\ todo' = [todo EXCEPT ![p] = rows]
  /\ seen' = [seen EXCEPT ![p] = [d \in Delivery |-> IF d \in rows THEN attempts[d] ELSE 0]]
  /\ UNCHANGED <<outboxVars, factVars, liveVars, work, target, replays, jobs, crashes>>

SweepScans(p) == Scans(p, Stale)

Takes(p, d) ==
  /\ work[p] = "idle" /\ d \in todo[p]
  /\ todo' = [todo EXCEPT ![p] = @ \ {d}]
  /\ seen' = [seen EXCEPT ![p][d] = 0]

\* Mutant: the budget is spent one replay early.
SweepRetiresEarly(p, d) ==
  /\ seen[p][d] + 1 >= MaxAttempts \/ d \in inactive
  /\ Takes(p, d)
  /\ Close(d, "failed")
  /\ UNCHANGED <<attempts, aged, inactive, factVars, liveVars, work, target, replays, jobs, crashes>>

\* Budget spent, or nobody subscribes any more.
SweepRetires(p, d) ==
  /\ seen[p][d] >= MaxAttempts \/ d \in inactive
  /\ Takes(p, d)
  /\ Close(d, "failed")
  /\ UNCHANGED <<attempts, aged, inactive, factVars, liveVars, work, target, replays, jobs, crashes>>

\* countAttempt() writes the attempts of the read plus one, and redeliver()
\* begins.
Replays(p, d, limit) ==
  /\ seen[p][d] < limit /\ d \notin inactive
  /\ Takes(p, d)
  /\ attempts' = [attempts EXCEPT ![d] = seen[p][d] + 1]
  /\ target' = [target EXCEPT ![p] = d]
  /\ work' = [work EXCEPT ![p] = "preflight"]
  /\ replays' = [replays EXCEPT ![d] = @ + 1]
  /\ UNCHANGED <<row, aged, inactive, factVars, liveVars, jobs, crashes>>

\* Mutant: > for >= in the budget test.
SweepReplaysOnceMore(p, d) == Replays(p, d, MaxAttempts + 1)

SweepReplays(p, d) == Replays(p, d, MaxAttempts)

\* Only a failed replay leaves the row for the next sweep.
SweepSettles(p) ==
  /\ work[p] \in Outcomes
  /\ IF work[p] = "failed" THEN row' = row ELSE Close(target[p], "dispatched")
  /\ work' = [work EXCEPT ![p] = "idle"]
  /\ target' = [target EXCEPT ![p] = None]
  /\ UNCHANGED <<attempts, aged, inactive, factVars, liveVars, todo, seen, replays, jobs, crashes>>

-----------------------------------------------------------------------------
(* WebhookProcessor: a worker of some process runs a job.  A job's retries *)
(* before the last one change nothing the model keeps.                     *)

JobMove(d, j, from, to, p) ==
  /\ jobs[d][j].stage = from
  /\ jobs' = [jobs EXCEPT ![d][j] = [stage |-> to, at |-> p, stalls |-> @.stalls]]

JobStarts(d, j, p) ==
  /\ JobMove(d, j, "waiting", "active", p)
  /\ UNCHANGED <<outboxVars, factVars, liveVars, work, sweepVars, crashes>>

JobDelivers(d, j) ==
  /\ JobMove(d, j, "active", "delivered", None)
  /\ received' = received \cup {d}
  /\ UNCHANGED <<outboxVars, letters, cancelled, liveVars, work, sweepVars, crashes>>

\* Mutant: isFinalAttempt is never true.
JobFailsUnrecorded(d, j) ==
  /\ JobMove(d, j, "active", "dead", None)
  /\ UNCHANGED <<outboxVars, factVars, liveVars, work, sweepVars, crashes>>

\* The final attempt fails.
JobFails(d, j) ==
  /\ JobMove(d, j, "active", "checking", jobs[d][j].at)
  /\ \/ received' = received
     \/ received' = received \cup {d}
  /\ UNCHANGED <<outboxVars, letters, cancelled, liveVars, work, sweepVars, crashes>>

\* onWorkerFailed(): a job that stalled twice never enters process().
JobStallFails(d, j, p) ==
  /\ JobMove(d, j, "stalled", "checking", p)
  /\ UNCHANGED <<outboxVars, factVars, liveVars, work, sweepVars, crashes>>

JobChecks(d, j) ==
  /\ IF letters[d] > 0
     THEN JobMove(d, j, "checking", "dead", None)
     ELSE JobMove(d, j, "checking", "inserting", jobs[d][j].at)
  /\ UNCHANGED <<outboxVars, factVars, liveVars, work, sweepVars, crashes>>

JobInserts(d, j) ==
  /\ JobMove(d, j, "inserting", "dead", None)
  /\ letters' = [letters EXCEPT ![d] = @ + 1]
  /\ UNCHANGED <<outboxVars, received, cancelled, liveVars, work, sweepVars, crashes>>

-----------------------------------------------------------------------------
(* The environment.                                                        *)

\* A process dies and starts again: its deliveries and its sweep are gone; a
\* job it ran is waiting again after the first stall, is failed by BullMQ
\* after the second, and is gone if it was already failed and unrecorded.
AfterStall(job) ==
  CASE job.stalls = 0 -> [stage |-> "waiting", at |-> None, stalls |-> 1]
    [] job.stalls = 1 -> [stage |-> "stalled", at |-> None, stalls |-> 2]
    [] OTHER          -> [stage |-> "lost",    at |-> None, stalls |-> 2]

Crash(p) ==
  /\ crashes < MaxCrashes
  /\ crashes' = crashes + 1
  /\ phase' = [d \in Delivery |-> IF home[d] = p THEN "over" ELSE phase[d]]
  /\ home' = [d \in Delivery |-> IF home[d] = p THEN None ELSE home[d]]
  /\ work' = [a \in Actor |-> IF a = p \/ (a \in Delivery /\ home[a] = p)
                              THEN "idle" ELSE work[a]]
  /\ target' = [target EXCEPT ![p] = None]
  /\ todo' = [todo EXCEPT ![p] = {}]
  /\ seen' = [seen EXCEPT ![p] = [d \in Delivery |-> 0]]
  /\ jobs' = [d \in Delivery |-> [j \in JobNumber |->
                IF jobs[d][j].at = p THEN AfterStall(jobs[d][j]) ELSE jobs[d][j]]]
  /\ UNCHANGED <<outboxVars, factVars, replays>>

\* WEBHOOK_RECONCILE_GRACE_MS passes, for a delivery still running too.
Ages(d) ==
  /\ row[d] = "pending" /\ d \notin aged
  /\ aged' = aged \cup {d}
  /\ UNCHANGED <<row, attempts, inactive, factVars, liveVars, work, sweepVars, jobs, crashes>>

\* The operator deletes the webhook or switches it off.
Deactivated(d) ==
  /\ phase[d] # "new" /\ d \notin inactive
  /\ inactive' = inactive \cup {d}
  /\ UNCHANGED <<row, attempts, aged, factVars, liveVars, work, sweepVars, jobs, crashes>>

\* pruneSettled(): settled rows only.
Prune(d) ==
  /\ row[d] \in {"dispatched", "failed"}
  /\ row' = [row EXCEPT ![d] = "pruned"]
  /\ UNCHANGED <<attempts, aged, inactive, factVars, liveVars, work, sweepVars, jobs, crashes>>

-----------------------------------------------------------------------------
Attempt(a) ==
  \/ PreflightCancels(a) \/ PreflightFails(a) \/ PreflightPasses(a)
  \/ JobAdded(a) \/ AddReplies(a) \/ AddFails(a)
  \/ Posted(a) \/ PostFails(a)
  \/ RecordChecks(a) \/ RecordInserts(a)

LiveStep(d) ==
  \/ LimiterAdmits(d) \/ LimiterRefuses(d) \/ RefusedEnds(d) \/ LiveCloses(d)
  \/ Attempt(d)

SweepStep(p) ==
  \/ SweepScans(p) \/ SweepSettles(p)
  \/ \E d \in Delivery : SweepRetires(p, d) \/ SweepReplays(p, d)
  \/ Attempt(p)

JobStep(d, j) ==
  \/ JobDelivers(d, j) \/ JobFails(d, j) \/ JobChecks(d, j) \/ JobInserts(d, j)
  \/ \E p \in Proc : JobStarts(d, j, p) \/ JobStallFails(d, j, p)

Next ==
  \/ \E d \in Delivery, p \in Proc : Dispatch(d, p)
  \/ \E d \in Delivery : LiveStep(d)
  \/ \E p \in Proc : SweepStep(p)
  \/ \E d \in Delivery : \E j \in JobNumber : JobStep(d, j)
  \/ \E p \in Proc : Crash(p)
  \/ \E d \in Delivery : Ages(d) \/ Deactivated(d) \/ Prune(d)

Spec == Init /\ [][Next]_vars

\* A process that stays up finishes what it runs: every POST and every query
\* times out, the sweep's interval keeps firing, BullMQ keeps its workers busy
\* and rows get older.
FairSpec ==
  /\ Spec
  /\ \A d \in Delivery : WF_vars(LiveStep(d)) /\ WF_vars(Ages(d))
  /\ \A d \in Delivery : WF_vars(\E j \in JobNumber : JobStep(d, j))
  /\ \A p \in Proc : WF_vars(SweepStep(p))

-----------------------------------------------------------------------------
(* Properties.                                                             *)

\* Types; a live delivery is in one process exactly while it runs, and a
\* reconciler has a delivery exactly while it replays one.
TypeOK ==
  /\ row \in [Delivery -> Rows]
  /\ attempts \in [Delivery -> Nat]
  /\ aged \subseteq Delivery /\ inactive \subseteq Delivery
  /\ letters \in [Delivery -> Nat]
  /\ received \subseteq Delivery /\ cancelled \subseteq Delivery
  /\ phase \in [Delivery -> Phases]
  /\ home \in [Delivery -> Proc \cup {None}]
  /\ work \in [Actor -> Stages]
  /\ target \in [Proc -> Delivery \cup {None}]
  /\ todo \in [Proc -> SUBSET Delivery]
  /\ seen \in [Proc -> [Delivery -> Nat]]
  /\ jobs \in [Delivery -> [JobNumber -> Job]]
  /\ replays \in [Delivery -> Nat]
  /\ crashes \in 0..MaxCrashes
  /\ \A p \in Proc : work[p] = "idle" <=> target[p] = None
  /\ \A d \in Delivery : work[d] # "idle" => phase[d] \in {"running", "refused"}
  /\ \A d \in Delivery : home[d] # None <=> phase[d] \in {"limiter", "running", "refused"}

\* What makes a delivery somebody's: the receiver has it, a plugin dropped it,
\* an operator can see it in the dead letters, or BullMQ holds it.  A job lost
\* in the middle of its stall handler (a third crash) is the one exception.
HasJob(d, stages) == \E j \in JobNumber : jobs[d][j].stage \in stages
Answered(d) == d \in received \/ d \in cancelled \/ letters[d] > 0
Accounted(d) == Answered(d) \/ HasJob(d, Owned \cup {"lost"})

\* An actor is still delivering it.
Pursued(d) ==
  \/ phase[d] \in {"limiter", "running", "refused"}
  \/ \E p \in Proc : target[p] = d

\* A row closed as dispatched is never replayed again (outbox.close()), so the
\* delivery has reached a durable owner, whatever crashed and whoever closed it.
DispatchedIsAccounted == \A d \in Delivery : row[d] = "dispatched" => Accounted(d)

\* A row the reconciler gives up on leaves a dead letter behind unless the
\* webhook is gone (webhook-reconciler.service.ts: "leave the failure row as
\* the recovery path").
FailedIsAccounted ==
  \A d \in Delivery :
    row[d] = "failed" => Accounted(d) \/ d \in inactive \/ Pursued(d)

\* The replay budget of a row holds for the replays that happened.
ReplaysWithinBudget == \A d \in Delivery : replays[d] <= MaxAttempts

\* One dead letter per lost delivery (record-delivery-failure.ts).
OneLetter == \A d \in Delivery : letters[d] <= 1

\* A delivery is handed to BullMQ once (enqueueWithFallback(): "a crash between
\* add() and the bookkeeping below cannot re-enqueue the same delivery").
OneJob ==
  \A d \in Delivery : \A i, j \in JobNumber :
    jobs[d][i].stage # "none" /\ jobs[d][j].stage # "none" => i = j

\* An event that was recorded is delivered, cancelled or reported in the end,
\* whichever process crashed on the way, unless nobody subscribes any more; and
\* its row is settled then, so that it is not replayed for ever.
EventuallyAnswered ==
  \A d \in Delivery :
    row[d] = "pending" ~> row[d] # "pending" /\ (Answered(d) \/ d \in inactive)
=============================================================================
