------------------------------- MODULE BulkBatch -------------------------------
(***************************************************************************)
(* Bulk sending (message/bulk-message.service.ts).  A batch is a row of    *)
(* message_batches and, in the process that accepted it, a runner that     *)
(* sends its messages one by one.  Operators cancel batches from any       *)
(* process; a booting process, and one that adopted the session, reap the  *)
(* batches they take for orphans.                                          *)
(*                                                                         *)
(* All batches belong to one session.  Its claim and engine are reduced to *)
(* what batches see of them; SessionOwnership models them in full.         *)
(* A query is two steps: the statement takes effect in the database, and   *)
(* the continuation runs when the reply is processed.                      *)
(***************************************************************************)
EXTENDS Integers, FiniteSets

CONSTANTS
  Procs,           \* processes sharing the database
  Batches,         \* batches that may be created
  None,            \* no process, no batch
  Total,           \* messages per batch
  Cadence,         \* progress is saved every Cadence messages (10 in the code)
  MaxConcurrent,   \* BULK_MAX_CONCURRENT_BATCHES, 0 for no limit
  StopOnError,     \* the batches created with stopOnError
  AutoStart,       \* AUTO_START_SESSIONS: does the takeover sweep run?
  OperatorStarts,  \* do operators (or a boot's auto-start) start and stop it?
  MaxCrashes,      \* bound on crashes
  MaxLapses        \* bound on leases that expire although their holder runs

ASSUME BulkAssumption ==
  /\ Total \in Nat \ {0} /\ Cadence \in Nat \ {0}
  /\ MaxConcurrent \in Nat /\ MaxCrashes \in Nat /\ MaxLapses \in Nat
  /\ None \notin Procs \cup Batches
  /\ StopOnError \subseteq Batches
  /\ AutoStart \in BOOLEAN /\ OperatorStarts \in BOOLEAN

Statuses == {"pending", "processing", "completed", "cancelled", "failed"}
Terminal == {"completed", "cancelled", "failed"}

Row == [status: Statuses \cup {"none"}, sent: 0 .. Total, failed: 0 .. Total,
        pending: 0 .. Total, cancelled: 0 .. Total]
NoRow == [status |-> "none", sent |-> 0, failed |-> 0, pending |-> 0, cancelled |-> 0]
NewRow == [status |-> "pending", sent |-> 0, failed |-> 0, pending |-> Total, cancelled |-> 0]

\* Where a runner is: which reply or engine answer it waits for.
Stages == {"unborn", "inserting", "reading", "marking", "starting", "engineless",
           "next", "sending", "saving", "rereading", "settling", "finishing",
           "ended", "dead"}
Live == Stages \ {"unborn", "ended", "dead"}

\* `host` is the process that accepted the batch; `wired` says that the engine
\* it looked up is still the running one; `sent`, `failed` are its in-memory
\* progress; `verdict` is the terminal status it is about to write; `kept`
\* turns FALSE when its last guarded write found a CANCELLED row.
Runner == [at: Stages, host: Procs \cup {None}, wired: BOOLEAN,
           sent: 0 .. Total, failed: 0 .. Total, stopped: BOOLEAN, dbCancel: BOOLEAN,
           verdict: Terminal \cup {"none"}, kept: BOOLEAN]
NoRunner == [at |-> "unborn", host |-> None, wired |-> FALSE,
             sent |-> 0, failed |-> 0, stopped |-> FALSE, dbCancel |-> FALSE,
             verdict |-> "none", kept |-> TRUE]

Cancel == [at: {"idle", "checking", "writing"}, batch: Batches \cup {None}, seen: Row]
Idle == [at |-> "idle", batch |-> None, seen |-> NoRow]

Reaper == [at: {"idle", "adopting", "owning", "saving"}, todo: SUBSET Batches,
           seen: [Batches -> Row]]
Resting == [at |-> "idle", todo |-> {}, seen |-> [b \in Batches |-> NoRow]]

VARIABLES
  row,        \* [Batches -> Row]: message_batches
  run,        \* [Batches -> Runner]: processBatch of each batch
  flag,       \* [Procs -> [Batches -> {"unset", "go", "stop"}]]: processingBatches
  inFlight,   \* [Procs -> Nat]: inFlightBatches
  cancel,     \* [Procs -> Cancel]: the cancelBatch call under way in each process
  reap,       \* [Procs -> Reaper]: the reaper of each process
  power,      \* [Procs -> {"up", "booting", "down"}]
  owner,      \* who holds the session's claim
  expired,    \* has that claim's lease run out?
  engines,    \* the processes with an engine for the session
  crashes, lapses,
  delivered,  \* [Batches -> Nat]: messages the engine accepted (history)
  canceller,  \* [Batches -> Procs \cup {None}]: where a cancel won (history)
  late,       \* [Batches -> Nat]: messages accepted after that (history)
  strayed     \* did a start() take the session from another holder, or the
              \* sweep's own start() fail, so that no reap followed? (history)

session == <<owner, expired, engines>>
bounds == <<crashes, lapses>>
history == <<delivered, canceller, late, strayed>>
vars == <<row, run, flag, inFlight, cancel, reap, power, session, bounds, history>>

TypeOK ==
  /\ row \in [Batches -> Row]
  /\ run \in [Batches -> Runner]
  /\ flag \in [Procs -> [Batches -> {"unset", "go", "stop"}]]
  /\ inFlight \in [Procs -> Nat]
  /\ cancel \in [Procs -> Cancel]
  /\ reap \in [Procs -> Reaper]
  /\ power \in [Procs -> {"up", "booting", "down"}]
  /\ owner \in Procs \cup {None}
  /\ expired \in BOOLEAN
  /\ engines \subseteq Procs
  /\ crashes \in Nat /\ lapses \in Nat
  /\ delivered \in [Batches -> 0 .. Total]
  /\ canceller \in [Batches -> Procs \cup {None}]
  /\ late \in [Batches -> 0 .. Total]
  /\ strayed \in BOOLEAN

\* One process runs the session; the others are up without it.
Init ==
  /\ row = [b \in Batches |-> NoRow]
  /\ run = [b \in Batches |-> NoRunner]
  /\ flag = [p \in Procs |-> [b \in Batches |-> "unset"]]
  /\ inFlight = [p \in Procs |-> 0]
  /\ cancel = [p \in Procs |-> Idle]
  /\ reap = [p \in Procs |-> Resting]
  /\ power = [p \in Procs |-> "up"]
  /\ owner \in Procs
  /\ expired = FALSE
  /\ engines = {owner}
  /\ crashes = 0 /\ lapses = 0
  /\ delivered = [b \in Batches |-> 0]
  /\ canceller = [b \in Batches |-> None]
  /\ late = [b \in Batches |-> 0]
  /\ strayed = FALSE

-------------------------------------------------------------------------------
(* The session, as far as batches see it.                                  *)

Claimable(p) == owner \in {None, p} \/ expired

\* A runner keeps the engine object it looked up; a torn down engine refuses
\* every send, also after another one took its place.
TearDown(p) ==
  /\ engines' = engines \ {p}
  /\ run' = [b \in Batches |-> IF run[b].host = p THEN [run[b] EXCEPT !.wired = FALSE]
                               ELSE run[b]]

\* A start() that is not the sweep's reaps nothing, whoever held the session.
StartSession(p) ==
  /\ OperatorStarts
  /\ power[p] = "up" /\ reap[p].at # "adopting" /\ p \notin engines /\ Claimable(p)
  /\ owner' = p /\ expired' = FALSE /\ engines' = engines \cup {p}
  /\ strayed' = (strayed \/ owner # p)
  /\ UNCHANGED <<row, run, flag, inFlight, cancel, reap, power, bounds, delivered, canceller, late>>

\* stop(), refused with 409 while a peer's lease is live, gives up the claim
\* it finds.
StopSession(p) ==
  /\ OperatorStarts
  /\ power[p] = "up" /\ Claimable(p)
  /\ TearDown(p)
  /\ owner' = None /\ expired' = FALSE
  /\ UNCHANGED <<row, flag, inFlight, cancel, reap, power, bounds, history>>

\* The lease runs out: unrenewed because its holder is gone, or because a
\* running holder could not reach the database in time.
Lapse ==
  /\ owner # None /\ ~expired
  /\ IF owner \in engines THEN lapses < MaxLapses /\ lapses' = lapses + 1
                          ELSE UNCHANGED lapses
  /\ expired' = TRUE
  /\ UNCHANGED <<row, run, flag, inFlight, cancel, reap, power, owner, engines, crashes, history>>

Renew ==
  /\ expired /\ owner \in engines
  /\ expired' = FALSE
  /\ UNCHANGED <<row, run, flag, inFlight, cancel, reap, power, owner, engines, bounds, history>>

\* A heartbeat that finds the claim gone tears the engine down.
LoseEngine(p) ==
  /\ p \in engines /\ owner # p
  /\ TearDown(p)
  /\ UNCHANGED <<row, flag, inFlight, cancel, reap, power, owner, expired, bounds, history>>

\* Mutant: the sweep adopts the session and leaves its batches alone.
TakeOverWithoutReap(p) ==
  /\ AutoStart
  /\ power[p] = "up" /\ reap[p].at = "idle"
  /\ owner \notin {None, p} /\ expired
  /\ owner' = p /\ expired' = FALSE /\ engines' = engines \cup {p}
  /\ UNCHANGED <<row, run, flag, inFlight, cancel, reap, power, bounds, history>>

\* The takeover sweep starts a session whose holder's lease lapsed: it has the
\* claim and is opening an engine.  Whether the row is eligible is not asked
\* here, so nothing may rely on the sweep (see Fairness).
TakeOver(p) ==
  /\ AutoStart
  /\ power[p] = "up" /\ reap[p].at = "idle"
  /\ owner \notin {None, p} /\ expired
  /\ owner' = p /\ expired' = FALSE /\ engines' = engines \cup {p}
  /\ reap' = [reap EXCEPT ![p].at = "adopting"]
  /\ UNCHANGED <<row, run, flag, inFlight, cancel, power, bounds, history>>

\* That start() throws: no reap, and a claim that covers nothing is released.
AdoptionFails(p) ==
  /\ reap[p].at = "adopting"
  /\ TearDown(p)
  /\ IF owner = p \/ expired THEN owner' = None /\ expired' = FALSE
                            ELSE UNCHANGED <<owner, expired>>
  /\ reap' = [reap EXCEPT ![p] = Resting]
  /\ strayed' = TRUE
  /\ UNCHANGED <<row, flag, inFlight, cancel, power, bounds, delivered, canceller, late>>

-------------------------------------------------------------------------------
(* createBatch and the runner it starts.                                   *)

Runs(b, stage) == run[b].at = stage
Goto(b, stage) == run' = [run EXCEPT ![b].at = stage]

\* The `finally` of processBatch.
End(b, r) ==
  /\ run' = [run EXCEPT ![b] = [r EXCEPT !.at = "ended"]]
  /\ inFlight' = [inFlight EXCEPT ![r.host] = @ - 1]
  /\ flag' = [flag EXCEPT ![r.host][b] = "unset"]

\* The cap check and the reservation are one synchronous turn.
CreateBatch(p, b) ==
  /\ Runs(b, "unborn")
  /\ power[p] = "up" /\ p \in engines
  /\ MaxConcurrent = 0 \/ inFlight[p] < MaxConcurrent
  /\ inFlight' = [inFlight EXCEPT ![p] = @ + 1]
  /\ run' = [run EXCEPT ![b] = [NoRunner EXCEPT !.at = "inserting", !.host = p]]
  /\ UNCHANGED <<row, flag, cancel, reap, power, session, bounds, history>>

InsertBatch(b) ==
  /\ Runs(b, "inserting")
  /\ row' = [row EXCEPT ![b] = NewRow]
  /\ Goto(b, "reading")
  /\ UNCHANGED <<flag, inFlight, cancel, reap, power, session, bounds, history>>

InsertFails(b) ==
  /\ Runs(b, "inserting")
  /\ run' = [run EXCEPT ![b].at = "ended"]
  /\ inFlight' = [inFlight EXCEPT ![run[b].host] = @ - 1]
  /\ UNCHANGED <<row, flag, cancel, reap, power, session, bounds, history>>

\* Mutant: the early return stands outside the try block.
PickUpLeaks(b) ==
  /\ Runs(b, "reading")
  /\ IF flag[run[b].host][b] = "stop" \/ row[b].status = "cancelled"
       THEN Goto(b, "ended") /\ UNCHANGED <<flag, inFlight>>
       ELSE /\ Goto(b, "marking")
            /\ flag' = [flag EXCEPT ![run[b].host][b] = "go"]
            /\ UNCHANGED inFlight
  /\ UNCHANGED <<row, cancel, reap, power, session, bounds, history>>

\* processBatch reads the row; a cancel that got there first ends the run.
PickUp(b) ==
  /\ Runs(b, "reading")
  /\ IF flag[run[b].host][b] = "stop" \/ row[b].status = "cancelled"
       THEN End(b, run[b])
       ELSE /\ Goto(b, "marking")
            /\ flag' = [flag EXCEPT ![run[b].host][b] = "go"]
            /\ UNCHANGED inFlight
  /\ UNCHANGED <<row, cancel, reap, power, session, bounds, history>>

\* The guarded start UPDATE.
MarkBatchProcessing(b) ==
  /\ Runs(b, "marking")
  /\ IF row[b].status = "cancelled"
       THEN End(b, run[b]) /\ UNCHANGED row
       ELSE /\ row' = [row EXCEPT ![b].status = "processing"]
            /\ Goto(b, "starting")
            /\ UNCHANGED <<flag, inFlight>>
  /\ UNCHANGED <<cancel, reap, power, session, bounds, history>>

FindEngine(b) ==
  /\ Runs(b, "starting")
  /\ LET found == run[b].host \in engines
     IN  run' = [run EXCEPT ![b] = [@ EXCEPT !.at = IF found THEN "next" ELSE "engineless",
                                             !.wired = found]]
  /\ UNCHANGED <<row, flag, inFlight, cancel, reap, power, session, bounds, history>>

FailBatchWithoutEngine(b) ==
  /\ Runs(b, "engineless")
  /\ row' = IF row[b].status = "cancelled" THEN row
            ELSE [row EXCEPT ![b].status = "failed"]
  /\ End(b, run[b])
  /\ UNCHANGED <<cancel, reap, power, session, bounds, history>>

\* Mutant: the loop relies on the checkpoints alone.
NextMessageUnflagged(b) ==
  /\ Runs(b, "next")
  /\ Goto(b, IF run[b].sent + run[b].failed < Total THEN "sending" ELSE "rereading")
  /\ UNCHANGED <<row, flag, inFlight, cancel, reap, power, session, bounds, history>>

\* The head of the message loop: every iteration asks the flag.
NextMessage(b) ==
  /\ Runs(b, "next")
  /\ Goto(b, IF run[b].sent + run[b].failed < Total /\ flag[run[b].host][b] = "go"
             THEN "sending" ELSE "rereading")
  /\ UNCHANGED <<row, flag, inFlight, cancel, reap, power, session, bounds, history>>

\* Is progress saved after the message at index i?
AtCheckpoint(i) == i % Cadence = 0 \/ i = Total - 1
AfterMessage(i) == IF AtCheckpoint(i) THEN "saving" ELSE "next"

SendMessage(b) ==
  /\ Runs(b, "sending")
  /\ run[b].wired
  /\ run' = [run EXCEPT ![b] = [run[b] EXCEPT !.sent = @ + 1,
                                              !.at = AfterMessage(run[b].sent + run[b].failed)]]
  /\ delivered' = [delivered EXCEPT ![b] = @ + 1]
  /\ late' = [late EXCEPT ![b] = IF canceller[b] = None THEN @ ELSE @ + 1]
  /\ UNCHANGED <<row, flag, inFlight, cancel, reap, power, session, bounds, canceller, strayed>>

\* Pacing, the moderation gate, the media cap or the engine refuses it.
MessageFails(b) ==
  /\ Runs(b, "sending")
  /\ run' = [run EXCEPT ![b] =
       [run[b] EXCEPT !.failed = @ + 1,
                      !.stopped = b \in StopOnError,
                      !.at = IF b \in StopOnError THEN "rereading"
                             ELSE AfterMessage(run[b].sent + run[b].failed)]]
  /\ UNCHANGED <<row, flag, inFlight, cancel, reap, power, session, bounds, history>>

\* What the runner knows of its batch, as the row it would write.
Reckoning(r, status, cancelled) ==
  LET rest == Total - r.sent - r.failed
  IN  [status |-> status, sent |-> r.sent, failed |-> r.failed,
       pending |-> IF cancelled THEN 0 ELSE rest, cancelled |-> IF cancelled THEN rest ELSE 0]

\* The guarded progress UPDATE; it leaves the status alone.
SaveProgress(b) ==
  /\ Runs(b, "saving")
  /\ IF row[b].status = "cancelled"
       THEN /\ run' = [run EXCEPT ![b] = [@ EXCEPT !.dbCancel = TRUE, !.at = "rereading"]]
            /\ UNCHANGED row
       ELSE /\ row' = [row EXCEPT ![b] = Reckoning(run[b], @.status, FALSE)]
            /\ Goto(b, "next")
  /\ UNCHANGED <<flag, inFlight, cancel, reap, power, session, bounds, history>>

ReadFinalStatus(b) ==
  /\ Runs(b, "rereading")
  /\ run' = [run EXCEPT ![b] = [run[b] EXCEPT !.dbCancel = @ \/ row[b].status = "cancelled",
                                              !.at = "settling"]]
  /\ UNCHANGED <<row, flag, inFlight, cancel, reap, power, session, bounds, history>>

ResolveFinalBatchStatus(cancelled, r) ==
  IF cancelled THEN "cancelled"
  ELSE IF r.stopped \/ (r.failed > 0 /\ r.sent = 0) THEN "failed" ELSE "completed"

Settle(b) ==
  /\ Runs(b, "settling")
  /\ LET cancelled == run[b].dbCancel \/ flag[run[b].host][b] # "go"
     IN  run' = [run EXCEPT ![b] =
           [@ EXCEPT !.verdict = ResolveFinalBatchStatus(cancelled, run[b]), !.at = "finishing"]]
  /\ UNCHANGED <<row, flag, inFlight, cancel, reap, power, session, bounds, history>>

\* Mutant: a cancelled batch is left as cancelBatch wrote it.
FinalizeUnreconciled(b) ==
  /\ Runs(b, "finishing")
  /\ row' = IF run[b].verdict = "cancelled" THEN [row EXCEPT ![b].status = "cancelled"]
            ELSE [row EXCEPT ![b] = Reckoning(run[b], run[b].verdict, FALSE)]
  /\ End(b, run[b])
  /\ UNCHANGED <<cancel, reap, power, session, bounds, history>>

\* CANCELLED is saved as it is, any other verdict only over a row that is not
\* CANCELLED.
FinalizeBatch(b) ==
  /\ Runs(b, "finishing")
  /\ LET r == run[b]
         keep == r.verdict = "cancelled" \/ row[b].status # "cancelled"
     IN  /\ row' = IF keep THEN [row EXCEPT ![b] = Reckoning(r, r.verdict, r.verdict = "cancelled")]
                           ELSE row
         /\ End(b, [r EXCEPT !.kept = keep])
  /\ UNCHANGED <<cancel, reap, power, session, bounds, history>>

RunnerStep(b) ==
  \/ InsertBatch(b) \/ PickUp(b) \/ MarkBatchProcessing(b) \/ FindEngine(b)
  \/ FailBatchWithoutEngine(b) \/ NextMessage(b) \/ SendMessage(b) \/ MessageFails(b)
  \/ SaveProgress(b) \/ ReadFinalStatus(b) \/ Settle(b) \/ FinalizeBatch(b)

-------------------------------------------------------------------------------
(* cancelBatch.                                                            *)

CancelBatch(p, b) ==
  /\ power[p] = "up" /\ cancel[p].at = "idle" /\ row[b].status # "none"
  /\ cancel' = [cancel EXCEPT ![p] = [at |-> "checking", batch |-> b, seen |-> row[b]]]
  /\ UNCHANGED <<row, run, flag, inFlight, reap, power, session, bounds, history>>

\* A terminal batch is refused; any other is flagged before the UPDATE is sent.
RaiseFlag(p) ==
  LET b == cancel[p].batch IN
  /\ cancel[p].at = "checking"
  /\ IF cancel[p].seen.status \in Terminal
       THEN cancel' = [cancel EXCEPT ![p] = Idle] /\ UNCHANGED flag
       ELSE /\ cancel' = [cancel EXCEPT ![p].at = "writing"]
            /\ flag' = [flag EXCEPT ![p][b] = "stop"]
  /\ UNCHANGED <<row, run, inFlight, reap, power, session, bounds, history>>

\* Mutant: the cancel relies on the status it read.
WriteCancelUnguarded(p) ==
  LET b == cancel[p].batch
      seen == cancel[p].seen
  IN
  /\ cancel[p].at = "writing"
  /\ row' = [row EXCEPT ![b] = [seen EXCEPT !.status = "cancelled", !.pending = 0,
                                            !.cancelled = seen.pending]]
  /\ canceller' = [canceller EXCEPT ![b] = p]
  /\ cancel' = [cancel EXCEPT ![p] = Idle]
  /\ UNCHANGED <<run, flag, inFlight, reap, power, session, bounds, delivered, late,
                 strayed>>

\* The guarded UPDATE, with the counters as they were read.
WriteCancel(p) ==
  LET b == cancel[p].batch
      seen == cancel[p].seen
      wins == row[b].status \in {"pending", "processing"}
  IN
  /\ cancel[p].at = "writing"
  /\ row' = IF wins THEN [row EXCEPT ![b] = [seen EXCEPT !.status = "cancelled", !.pending = 0,
                                                         !.cancelled = seen.pending]]
            ELSE row
  /\ canceller' = IF wins THEN [canceller EXCEPT ![b] = p] ELSE canceller
  /\ cancel' = [cancel EXCEPT ![p] = Idle]
  /\ UNCHANGED <<run, flag, inFlight, reap, power, session, bounds, delivered, late,
                 strayed>>

-------------------------------------------------------------------------------
(* Crashes, boots and the reapers.                                         *)

Crash(p) ==
  /\ power[p] # "down" /\ crashes < MaxCrashes
  /\ crashes' = crashes + 1
  /\ power' = [power EXCEPT ![p] = "down"]
  /\ engines' = engines \ {p}
  /\ run' = [b \in Batches |-> IF run[b].host = p /\ run[b].at \in Live
                               THEN [run[b] EXCEPT !.at = "dead", !.wired = FALSE] ELSE run[b]]
  /\ flag' = [flag EXCEPT ![p] = [b \in Batches |-> "unset"]]
  /\ inFlight' = [inFlight EXCEPT ![p] = 0]
  /\ cancel' = [cancel EXCEPT ![p] = Idle]
  /\ reap' = [reap EXCEPT ![p] = Resting]
  /\ UNCHANGED <<row, owner, expired, lapses, history>>

Processing == {b \in Batches : row[b].status = "processing"}
Found(stage, found) ==
  [at |-> stage, todo |-> found,
   seen |-> [b \in Batches |-> IF b \in found THEN row[b] ELSE NoRow]]

\* onApplicationBootstrap reads the PROCESSING batches ...
Boot(p) ==
  /\ power[p] = "down"
  /\ power' = [power EXCEPT ![p] = "booting"]
  /\ reap' = [reap EXCEPT ![p] = Found("owning", Processing)]
  /\ UNCHANGED <<row, run, flag, inFlight, cancel, session, bounds, history>>

\* Mutant: every PROCESSING batch is taken for an orphan.
OwnedByAnyNode(p) ==
  /\ reap[p].at = "owning"
  /\ reap' = [reap EXCEPT ![p].at = "saving"]
  /\ UNCHANGED <<row, run, flag, inFlight, cancel, power, session, bounds, history>>

\* ... and keeps those whose session this node may claim.
OwnedByThisNode(p) ==
  /\ reap[p].at = "owning"
  /\ reap' = [reap EXCEPT ![p] = IF Claimable(p) THEN [@ EXCEPT !.at = "saving"]
                                 ELSE [Resting EXCEPT !.at = "saving"]]
  /\ UNCHANGED <<row, run, flag, inFlight, cancel, power, session, bounds, history>>

\* reapProcessingBatches, when the adopting start() has returned.
ReapProcessingBatches(p) ==
  /\ reap[p].at = "adopting"
  /\ reap' = [reap EXCEPT ![p] = Found("saving", Processing)]
  /\ UNCHANGED <<row, run, flag, inFlight, cancel, power, session, bounds, history>>

\* The whole entity is saved as it was read, with the status FAILED.
FailOrphanedBatch(p, b) ==
  /\ reap[p].at = "saving" /\ b \in reap[p].todo
  /\ row' = [row EXCEPT ![b] = [reap[p].seen[b] EXCEPT !.status = "failed"]]
  /\ reap' = [reap EXCEPT ![p] = [reap[p] EXCEPT !.todo = @ \ {b}, !.seen[b] = NoRow]]
  /\ UNCHANGED <<run, flag, inFlight, cancel, power, session, bounds, history>>

ReapDone(p) ==
  /\ reap[p].at = "saving" /\ reap[p].todo = {}
  /\ reap' = [reap EXCEPT ![p] = Resting]
  /\ power' = [power EXCEPT ![p] = "up"]
  /\ UNCHANGED <<row, run, flag, inFlight, cancel, session, bounds, history>>

ReaperStep(p) ==
  \/ OwnedByThisNode(p) \/ ReapProcessingBatches(p) \/ ReapDone(p)
  \/ \E b \in Batches : FailOrphanedBatch(p, b)

Next ==
  \/ \E p \in Procs :
       \/ StartSession(p) \/ StopSession(p) \/ LoseEngine(p)
       \/ TakeOver(p) \/ AdoptionFails(p) \/ RaiseFlag(p) \/ WriteCancel(p) \/ Crash(p) \/ Boot(p) \/ ReaperStep(p)
       \/ \E b \in Batches : CreateBatch(p, b) \/ CancelBatch(p, b)
  \/ Lapse \/ Renew
  \/ \E b \in Batches : InsertFails(b) \/ RunnerStep(b)

Spec == Init /\ [][Next]_vars

\* Promises settle (queries, the engine's answer to a send, a start() one way
\* or the other), and a process that went down is started again.  Nothing makes
\* the sweep adopt the session: its row may never be eligible.
Fairness ==
  /\ \A b \in Batches : WF_vars(RunnerStep(b))
  /\ \A p \in Procs :
       /\ WF_vars(ReaperStep(p) \/ AdoptionFails(p)) /\ WF_vars(Boot(p))
       /\ WF_vars(RaiseFlag(p) \/ WriteCancel(p))

FairSpec == Spec /\ Fairness
-------------------------------------------------------------------------------
(* Properties.                                                             *)

\* The in-flight count is the number of batches this process is running, it
\* stays under the cap, and no marker of processingBatches outlives its run
\* except one an operator set (createBatch, processBatch's `finally`).
RunsAreCounted ==
  \A p \in Procs :
    LET mine == {b \in Batches : run[b].host = p /\ run[b].at \in Live}
    IN  /\ inFlight[p] = Cardinality(mine)
        /\ MaxConcurrent # 0 => inFlight[p] <= MaxConcurrent
        /\ \A b \in Batches : flag[p][b] = "go" => b \in mine

\* After a cancel was answered, the process that answered it sends at most the
\* message already under way, and any other process stops at its next
\* checkpoint (processBatchMessage, "Honor a cancellation issued by ANY
\* process").
CancelStops ==
  \A b \in Batches :
    late[b] <= IF canceller[b] = run[b].host THEN 1 ELSE Cadence

\* Once a runner has finished, the row of its batch says what became of every
\* message, unless a cancel committed after the runner's last look at the row
\* (finalizeBatch, "reconcile the counters").
ReportIsExact ==
  \A b \in Batches :
    run[b].at = "ended" /\ run[b].kept /\ row[b].status # "none" =>
      /\ row[b].sent = delivered[b] /\ row[b].failed = run[b].failed
      /\ row[b].sent + row[b].failed + row[b].pending + row[b].cancelled = Total
      /\ row[b].status \in Terminal \/ \E p \in Procs : cancel[p].at = "writing"
      /\ row[b].status \in {"completed", "cancelled"} => row[b].pending = 0

\* The same without the exception.
EveryReportIsExact ==
  \A b \in Batches :
    run[b].at = "ended" /\ row[b].status = "cancelled" => row[b].sent = delivered[b]

\* A terminal status is never replaced: "Each terminal status is exclusive"
\* (cancelBatch).
TerminalIsFinal ==
  [][\A b \in Batches : row[b].status \in Terminal => row'[b].status = row[b].status]_vars

\* A reaper fails no batch that another process can still send, while every
\* lease held under its engine and no start() but the sweep's took the session
\* over (onApplicationBootstrap: not "a live peer's in-flight batches").  Its
\* own batches are excepted: an adopting process is open for new ones before it
\* reads those it is to fail.
ReapsNoLivePeer ==
  [][\A p \in Procs, b \in Batches :
       FailOrphanedBatch(p, b) /\ lapses = 0 /\ ~strayed =>
         run[b].at \notin Live \/ run[b].host = p \/ run[b].host \notin engines]_vars

\* Without the last exception.
ReapsNoLiveBatch ==
  [][\A p \in Procs, b \in Batches :
       FailOrphanedBatch(p, b) /\ lapses = 0 /\ ~strayed =>
         run[b].at \notin Live \/ run[b].host \notin engines]_vars

\* A batch that was being sent reaches a terminal status in the end, although
\* its process may die (onApplicationBootstrap: "it would otherwise be stuck in
\* PROCESSING forever"), unless the session went on without a reap: a failed
\* adoption gave the claim up, or another start() took the session over.  A
\* batch whose process dies before the start UPDATE stays PENDING: the reapers
\* look for PROCESSING only.
ProcessingSettles ==
  \A b \in Batches : row[b].status = "processing" ~> row[b].status \in Terminal \/ strayed

\* The same without the exception.
EveryBatchSettles ==
  \A b \in Batches : row[b].status = "processing" ~> row[b].status \in Terminal
===============================================================================
