---------------------------- MODULE BulkBatch_proofs ----------------------------
(***************************************************************************)
(* Proofs about BulkBatch, for every number of processes and batches.      *)
(*                                                                         *)
(* Shape is the inductive invariant behind the type invariant and          *)
(* RunsAreCounted.  Obeyed extends it with what a cancel answered by the   *)
(* runner's own process leaves behind, reapers or not.  Where no reaper    *)
(* runs (no crash, no takeover sweep) Reported extends it with what the    *)
(* row says of the runner: CancelStops, ReportIsExact, TerminalIsFinal.    *)
(* Attended says where the engines and the live runners are as long as no  *)
(* lease lapsed under its engine and no start() but the sweep's took the   *)
(* session over: ReapsNoLivePeer.                                          *)
(***************************************************************************)
EXTENDS BulkBatch, FiniteSetTheorems, TLAPS

Early == {"unborn", "inserting", "reading", "marking", "starting", "engineless"}
Started == Live \ {"inserting", "reading"}

\* A cancelBatch call under way is about a batch.
Aimed == \A p \in Procs : cancel[p].at # "idle" => cancel[p].batch \in Batches

\* The runner of b and the messages it has handled.
Sound(b) ==
  /\ run[b].at # "unborn" => run[b].host \in Procs
  /\ run[b].sent + run[b].failed <= Total
  /\ run[b].at = "sending" => run[b].sent + run[b].failed < Total
  /\ run[b].at \in Early => run[b].sent = 0 /\ run[b].failed = 0
  /\ run[b].at = "finishing" => run[b].verdict \in Terminal
  /\ delivered[b] = run[b].sent
  /\ late[b] <= delivered[b]

\* The batches that process p is running, and the count it keeps of them.
Mine(p) == {b \in Batches : run[b].host = p /\ run[b].at \in Live}
Counted(p) ==
  /\ IsFiniteSet(Mine(p))
  /\ inFlight[p] = Cardinality(Mine(p))
  /\ MaxConcurrent # 0 => inFlight[p] <= MaxConcurrent

\* A running mark belongs to a runner that picked its batch up.
Marked(p) ==
  \A b \in Batches : flag[p][b] = "go" => run[b].host = p /\ run[b].at \in Started

Shape ==
  /\ TypeOK
  /\ Aimed
  /\ \A b \in Batches : Sound(b)
  /\ \A p \in Procs : Counted(p) /\ Marked(p)

-------------------------------------------------------------------------------
\* Where the row of b stands while its runner has not started, and that no
\* reaper has taken such a batch.
Unstarted(b) ==
  /\ run[b].at \in {"unborn", "inserting"} => row[b].status = "none"
  /\ run[b].at \in {"reading", "marking"} => row[b].status \in {"pending", "cancelled"}
  /\ run[b].at \in {"unborn", "inserting", "reading", "marking"} =>
       \A p \in Procs : b \notin reap[p].todo
  /\ row[b].status = "none" => \A p \in Procs : cancel[p].at # "idle" => cancel[p].batch # b

\* A cancel at the runner's own process: the flag is down before the UPDATE
\* is sent, and stays down as long as the runner lives.
Lowered(b) ==
  /\ canceller[b] # None => row[b].status \in Terminal
  /\ canceller[b] = None => late[b] = 0
  /\ \A p \in Procs :
       cancel[p].at = "writing" /\ cancel[p].batch = b /\ run[b].host = p /\ run[b].at \in Live =>
         flag[p][b] = "stop"
  /\ canceller[b] # None /\ canceller[b] = run[b].host =>
       /\ run[b].at \in Live => flag[run[b].host][b] = "stop"
       /\ late[b] <= IF run[b].at = "sending" THEN 0 ELSE 1

Obeyed == Shape /\ \A b \in Batches : Unstarted(b) /\ Lowered(b)

\* After a cancel was answered, the process that answered it sends at most the
\* message already under way, whatever crashes and reapers do.
HomeCancelStops ==
  \A b \in Batches : canceller[b] # None /\ canceller[b] = run[b].host => late[b] <= 1

-------------------------------------------------------------------------------
\* No process ever reaps: no crash, no takeover sweep.
NoReaper == MaxCrashes = 0 /\ ~AutoStart

Alone == \A p \in Procs : power[p] = "up" /\ reap[p].at = "idle" /\ reap[p].todo = {}

\* Messages handled since the last checkpoint, at the head of the loop with i
\* messages handled.
Since(i) == IF i = 0 THEN 0 ELSE (i - 1) % Cadence

Looping == {"next", "sending"}
Running == {"starting", "engineless", "next", "sending", "saving", "rereading", "settling", "finishing"}

\* Without reapers a cancelled row stays cancelled under a live runner, which
\* sends no message beyond its next checkpoint.
Checked(b) ==
  /\ run[b].at # "dead"
  /\ run[b].at \in Running => row[b].status \in {"processing", "cancelled"}
  /\ canceller[b] # None /\ run[b].at \in Live => row[b].status = "cancelled"
  /\ late[b] <= IF run[b].at \in Looping THEN Since(run[b].sent + run[b].failed) ELSE Cadence

\* What a row counts, none of it ahead of the runner.
Behind(r, b) ==
  /\ r.sent <= run[b].sent /\ r.failed <= run[b].failed
  /\ r.status # "none" => r.sent + r.failed + r.pending + r.cancelled = Total
  /\ r.status \in {"pending", "processing"} => r.cancelled = 0

\* The row, the row a cancel has read, and what a lowered flag says of them.
Recorded(b) ==
  /\ Behind(row[b], b)
  /\ \A p \in Procs : cancel[p].at # "idle" /\ cancel[p].batch = b => Behind(cancel[p].seen, b)
  /\ row[b].status = "cancelled" => row[b].pending = 0
  /\ \A p \in Procs : flag[p][b] = "stop" =>
       row[b].status \in Terminal \/ (cancel[p].at = "writing" /\ cancel[p].batch = b)

\* Why a runner is past its loop.
Finished(b) ==
  /\ run[b].at \in {"rereading", "settling"} =>
       \/ run[b].sent + run[b].failed = Total \/ run[b].stopped \/ run[b].dbCancel
       \/ flag[run[b].host][b] # "go"
  /\ run[b].at = "finishing" /\ run[b].verdict = "completed" => run[b].sent + run[b].failed = Total

\* The report of an ended runner.
Settled(b) ==
  run[b].at = "ended" /\ run[b].kept /\ row[b].status # "none" =>
    /\ row[b].sent = run[b].sent /\ row[b].failed = run[b].failed
    /\ row[b].status \notin Terminal =>
         /\ run[b].sent = 0 /\ run[b].failed = 0
         /\ \E p \in Procs : cancel[p].at = "writing" /\ cancel[p].batch = b
    /\ row[b].status \in {"completed", "cancelled"} => row[b].pending = 0

Report(b) == Checked(b) /\ Recorded(b) /\ Finished(b) /\ Settled(b)

\* A cancel that is going to be written has read a row that was not terminal.
Asked(p) ==
  /\ cancel[p].at # "idle" => cancel[p].seen.status # "none"
  /\ cancel[p].at = "writing" => cancel[p].seen.status \in {"pending", "processing"}

Reported == Alone /\ (\A p \in Procs : Asked(p)) /\ (\A b \in Batches : Report(b))

-------------------------------------------------------------------------------
\* A process that is not up has no engine, and the boot reaper runs in one that
\* is not up yet.
Quiet ==
  \A p \in Procs :
    /\ power[p] # "up" => p \notin engines
    /\ reap[p].at = "owning" => power[p] = "booting"

\* The claim holder alone has an engine, and every live runner has one beside
\* it or a session that nobody claims.
Attended ==
  /\ engines \subseteq {owner}
  /\ expired => engines = {}
  /\ \A p \in Procs : reap[p].at = "adopting" => owner = None \/ p \in engines
  /\ \A b \in Batches : run[b].at \in Live => owner = None \/ run[b].host \in engines
  /\ \A p \in Procs, b \in Batches :
       reap[p].at = "saving" /\ b \in reap[p].todo /\ run[b].at \in Live =>
         run[b].host = p \/ owner = None

\* Every lease held under its engine, and only the sweep took the session over.
Undisturbed == lapses = 0 /\ ~strayed

Reaped == Quiet /\ (Undisturbed => Attended)
-------------------------------------------------------------------------------
(* What the operators on records yield.                                    *)

\* The initial records have their types.
LEMMA Literals ==
  /\ NoRow \in Row /\ NewRow \in Row /\ NoRunner \in Runner
  /\ Idle \in Cancel /\ Resting \in Reaper
  BY BulkAssumption DEF NoRow, NewRow, Row, Statuses, NoRunner, Runner, Stages, Terminal,
     Idle, Cancel, Resting, Reaper

\* What a runner writes is a row.
LEMMA ReckoningType ==
  ASSUME NEW r \in Runner, r.sent + r.failed <= Total,
         NEW s \in Statuses \cup {"none"}, NEW c \in BOOLEAN
  PROVE  Reckoning(r, s, c) \in Row
  BY BulkAssumption DEF Reckoning, Row, Runner

\* A new status makes a row of a row.
LEMMA StatusType ==
  ASSUME NEW r \in Row, NEW s \in Statuses
  PROVE  [r EXCEPT !.status = s] \in Row
  BY DEF Row

\* A row with three other columns is a row.
LEMMA RowExcept ==
  ASSUME NEW S, NEW N, NEW r \in [status: S, sent: N, failed: N, pending: N, cancelled: N],
         NEW s \in S, NEW n \in N, NEW m \in N
  PROVE  [r EXCEPT !.status = s, !.pending = n, !.cancelled = m]
           \in [status: S, sent: N, failed: N, pending: N, cancelled: N]
  OBVIOUS

\* The columns a cancel writes.
LEMMA CancelledType ==
  ASSUME NEW r \in Row
  PROVE  [r EXCEPT !.status = "cancelled", !.pending = 0, !.cancelled = r.pending] \in Row
  <1>1. r \in [status: Statuses \cup {"none"}, sent: 0 .. Total, failed: 0 .. Total,
              pending: 0 .. Total, cancelled: 0 .. Total]
    BY DEF Row
  <1>2. "cancelled" \in Statuses \cup {"none"} /\ 0 \in 0 .. Total /\ r.pending \in 0 .. Total
    BY BulkAssumption DEF Row, Statuses
  <1>3. QED
    BY <1>1, <1>2, RowExcept, Zenon DEF Row

\* A change of the runner of b alone, and what becomes of it.
Turn(b) ==
  /\ run' \in [Batches -> Runner]
  /\ UNCHANGED run[b].host
  /\ \A c \in Batches : c # b => run'[c] = run[c]

\* Such a change, from the record it writes.
LEMMA TurnTo ==
  ASSUME TypeOK, NEW b \in Batches, NEW r \in Runner, r.host = run[b].host,
         run' = [run EXCEPT ![b] = r]
  PROVE  Turn(b) /\ run'[b] = r
  BY DEF TypeOK, Turn

-------------------------------------------------------------------------------
(* What each step of a runner makes of it.                                 *)

\* What a failed insert makes of the variables it touches.
LEMMA InsertFailsTurns ==
  ASSUME TypeOK, NEW b \in Batches, InsertFails(b)
  PROVE  /\ Turn(b) /\ run'[b].at = "ended"
         /\ UNCHANGED <<run[b].sent, run[b].failed, run[b].stopped, run[b].dbCancel, run[b].verdict, run[b].kept>>
  <1> DEFINE s == "ended"
  <1> DEFINE w == [run[b] EXCEPT !.at = s]
  <1>1. s \in Stages
    BY DEF TypeOK, Stages
  <1>2. run' = [run EXCEPT ![b] = w]
    BY DEF InsertFails
  <1>3. run[b] \in Runner
    BY DEF TypeOK
  <1> HIDE DEF s
  <1>4. /\ w \in Runner /\ w.at = s /\ w.host = run[b].host
        /\ w.sent = run[b].sent /\ w.failed = run[b].failed /\ w.stopped = run[b].stopped /\ w.dbCancel = run[b].dbCancel /\ w.verdict = run[b].verdict /\ w.kept = run[b].kept
    BY <1>1, <1>3 DEF Runner
  <1> HIDE DEF w
  <1>5. Turn(b) /\ run'[b] = w
    BY <1>2, <1>4, TurnTo
  <1>6. QED
    BY <1>4, <1>5 DEF s

\* What the insert makes of the variables it touches.
LEMMA InsertBatchTurns ==
  ASSUME TypeOK, NEW b \in Batches, InsertBatch(b)
  PROVE  /\ Turn(b) /\ run'[b].at = "reading"
         /\ UNCHANGED <<run[b].sent, run[b].failed, run[b].stopped, run[b].dbCancel, run[b].verdict, run[b].kept>>
  <1> DEFINE s == "reading"
  <1> DEFINE w == [run[b] EXCEPT !.at = s]
  <1>1. s \in Stages
    BY DEF TypeOK, Stages
  <1>2. run' = [run EXCEPT ![b] = w]
    BY DEF InsertBatch, Goto
  <1>3. run[b] \in Runner
    BY DEF TypeOK
  <1> HIDE DEF s
  <1>4. /\ w \in Runner /\ w.at = s /\ w.host = run[b].host
        /\ w.sent = run[b].sent /\ w.failed = run[b].failed /\ w.stopped = run[b].stopped /\ w.dbCancel = run[b].dbCancel /\ w.verdict = run[b].verdict /\ w.kept = run[b].kept
    BY <1>1, <1>3 DEF Runner
  <1> HIDE DEF w
  <1>5. Turn(b) /\ run'[b] = w
    BY <1>2, <1>4, TurnTo
  <1>6. QED
    BY <1>4, <1>5 DEF s

\* What the read of the row makes of the variables it touches.
LEMMA PickUpTurns ==
  ASSUME TypeOK, NEW b \in Batches, PickUp(b)
  PROVE  /\ Turn(b) /\ run'[b].at = (IF flag[run[b].host][b] = "stop" \/ row[b].status = "cancelled" THEN "ended" ELSE "marking")
         /\ UNCHANGED <<run[b].sent, run[b].failed, run[b].stopped, run[b].dbCancel, run[b].verdict, run[b].kept>>
  <1> DEFINE s == IF flag[run[b].host][b] = "stop" \/ row[b].status = "cancelled" THEN "ended" ELSE "marking"
  <1> DEFINE w == [run[b] EXCEPT !.at = s]
  <1>1. s \in Stages
    BY DEF TypeOK, Stages
  <1>2. run' = [run EXCEPT ![b] = w]
    BY DEF PickUp, Goto, End
  <1>3. run[b] \in Runner
    BY DEF TypeOK
  <1> HIDE DEF s
  <1>4. /\ w \in Runner /\ w.at = s /\ w.host = run[b].host
        /\ w.sent = run[b].sent /\ w.failed = run[b].failed /\ w.stopped = run[b].stopped /\ w.dbCancel = run[b].dbCancel /\ w.verdict = run[b].verdict /\ w.kept = run[b].kept
    BY <1>1, <1>3 DEF Runner
  <1> HIDE DEF w
  <1>5. Turn(b) /\ run'[b] = w
    BY <1>2, <1>4, TurnTo
  <1>6. QED
    BY <1>4, <1>5 DEF s

\* What the guarded start UPDATE makes of the variables it touches.
LEMMA MarkBatchProcessingTurns ==
  ASSUME TypeOK, NEW b \in Batches, MarkBatchProcessing(b)
  PROVE  /\ Turn(b) /\ run'[b].at = (IF row[b].status = "cancelled" THEN "ended" ELSE "starting")
         /\ UNCHANGED <<run[b].sent, run[b].failed, run[b].stopped, run[b].dbCancel, run[b].verdict, run[b].kept>>
  <1> DEFINE s == IF row[b].status = "cancelled" THEN "ended" ELSE "starting"
  <1> DEFINE w == [run[b] EXCEPT !.at = s]
  <1>1. s \in Stages
    BY DEF TypeOK, Stages
  <1>2. run' = [run EXCEPT ![b] = w]
    BY DEF MarkBatchProcessing, Goto, End
  <1>3. run[b] \in Runner
    BY DEF TypeOK
  <1> HIDE DEF s
  <1>4. /\ w \in Runner /\ w.at = s /\ w.host = run[b].host
        /\ w.sent = run[b].sent /\ w.failed = run[b].failed /\ w.stopped = run[b].stopped /\ w.dbCancel = run[b].dbCancel /\ w.verdict = run[b].verdict /\ w.kept = run[b].kept
    BY <1>1, <1>3 DEF Runner
  <1> HIDE DEF w
  <1>5. Turn(b) /\ run'[b] = w
    BY <1>2, <1>4, TurnTo
  <1>6. QED
    BY <1>4, <1>5 DEF s

\* What the lookup of the engine makes of the variables it touches.
LEMMA FindEngineTurns ==
  ASSUME TypeOK, NEW b \in Batches, FindEngine(b)
  PROVE  /\ Turn(b) /\ run'[b].at = (IF run[b].host \in engines THEN "next" ELSE "engineless")
         /\ UNCHANGED <<run[b].sent, run[b].failed, run[b].stopped, run[b].dbCancel, run[b].verdict, run[b].kept>>
  <1> DEFINE s == IF run[b].host \in engines THEN "next" ELSE "engineless"
  <1> DEFINE x == run[b].host \in engines
  <1> DEFINE w == [run[b] EXCEPT !.at = s, !.wired = x]
  <1>1. s \in Stages /\ x \in BOOLEAN
    BY DEF TypeOK, Stages
  <1>2. run' = [run EXCEPT ![b] = w]
    BY DEF FindEngine
  <1>3. run[b] \in Runner
    BY DEF TypeOK
  <1> HIDE DEF s, x
  <1>4. /\ w \in Runner /\ w.at = s /\ w.host = run[b].host
        /\ w.sent = run[b].sent /\ w.failed = run[b].failed /\ w.stopped = run[b].stopped /\ w.dbCancel = run[b].dbCancel /\ w.verdict = run[b].verdict /\ w.kept = run[b].kept
    BY <1>1, <1>3 DEF Runner
  <1> HIDE DEF w
  <1>5. Turn(b) /\ run'[b] = w
    BY <1>2, <1>4, TurnTo
  <1>6. QED
    BY <1>4, <1>5 DEF s, x

\* What the end without an engine makes of the variables it touches.
LEMMA FailBatchWithoutEngineTurns ==
  ASSUME TypeOK, NEW b \in Batches, FailBatchWithoutEngine(b)
  PROVE  /\ Turn(b) /\ run'[b].at = "ended"
         /\ UNCHANGED <<run[b].sent, run[b].failed, run[b].stopped, run[b].dbCancel, run[b].verdict, run[b].kept>>
  <1> DEFINE s == "ended"
  <1> DEFINE w == [run[b] EXCEPT !.at = s]
  <1>1. s \in Stages
    BY DEF TypeOK, Stages
  <1>2. run' = [run EXCEPT ![b] = w]
    BY DEF FailBatchWithoutEngine, End
  <1>3. run[b] \in Runner
    BY DEF TypeOK
  <1> HIDE DEF s
  <1>4. /\ w \in Runner /\ w.at = s /\ w.host = run[b].host
        /\ w.sent = run[b].sent /\ w.failed = run[b].failed /\ w.stopped = run[b].stopped /\ w.dbCancel = run[b].dbCancel /\ w.verdict = run[b].verdict /\ w.kept = run[b].kept
    BY <1>1, <1>3 DEF Runner
  <1> HIDE DEF w
  <1>5. Turn(b) /\ run'[b] = w
    BY <1>2, <1>4, TurnTo
  <1>6. QED
    BY <1>4, <1>5 DEF s

\* What the head of the loop makes of the variables it touches.
LEMMA NextMessageTurns ==
  ASSUME TypeOK, NEW b \in Batches, NextMessage(b)
  PROVE  /\ Turn(b) /\ run'[b].at = (IF run[b].sent + run[b].failed < Total /\ flag[run[b].host][b] = "go"
                   THEN "sending" ELSE "rereading")
         /\ UNCHANGED <<run[b].sent, run[b].failed, run[b].stopped, run[b].dbCancel, run[b].verdict, run[b].kept>>
  <1> DEFINE s == IF run[b].sent + run[b].failed < Total /\ flag[run[b].host][b] = "go"
                   THEN "sending" ELSE "rereading"
  <1> DEFINE w == [run[b] EXCEPT !.at = s]
  <1>1. s \in Stages
    BY DEF TypeOK, Stages
  <1>2. run' = [run EXCEPT ![b] = w]
    BY DEF NextMessage, Goto
  <1>3. run[b] \in Runner
    BY DEF TypeOK
  <1> HIDE DEF s
  <1>4. /\ w \in Runner /\ w.at = s /\ w.host = run[b].host
        /\ w.sent = run[b].sent /\ w.failed = run[b].failed /\ w.stopped = run[b].stopped /\ w.dbCancel = run[b].dbCancel /\ w.verdict = run[b].verdict /\ w.kept = run[b].kept
    BY <1>1, <1>3 DEF Runner
  <1> HIDE DEF w
  <1>5. Turn(b) /\ run'[b] = w
    BY <1>2, <1>4, TurnTo
  <1>6. QED
    BY <1>4, <1>5 DEF s

\* What a sent message makes of the variables it touches.
LEMMA SendMessageTurns ==
  ASSUME Shape, NEW b \in Batches, SendMessage(b)
  PROVE  /\ Turn(b) /\ run'[b].at = AfterMessage(run[b].sent + run[b].failed)
         /\ run'[b].sent = run[b].sent + 1
         /\ UNCHANGED <<run[b].failed, run[b].stopped, run[b].dbCancel, run[b].verdict, run[b].kept>>
  <1> DEFINE s == AfterMessage(run[b].sent + run[b].failed)
  <1> DEFINE x == run[b].sent + 1
  <1> DEFINE w == [run[b] EXCEPT !.sent = x, !.at = s]
  <1>1. s \in Stages /\ x \in 0 .. Total
    BY BulkAssumption DEF Shape, TypeOK, Sound, Runner, Stages, AfterMessage, SendMessage, Runs
  <1>2. run' = [run EXCEPT ![b] = w]
    BY DEF SendMessage
  <1>3. run[b] \in Runner
    BY DEF Shape, TypeOK
  <1> HIDE DEF s, x
  <1>4. /\ w \in Runner /\ w.at = s /\ w.host = run[b].host /\ w.sent = x
        /\ w.failed = run[b].failed /\ w.stopped = run[b].stopped /\ w.dbCancel = run[b].dbCancel /\ w.verdict = run[b].verdict /\ w.kept = run[b].kept
    BY <1>1, <1>3 DEF Runner
  <1> HIDE DEF w
  <1>5. Turn(b) /\ run'[b] = w
    BY <1>2, <1>4, TurnTo DEF Shape
  <1>6. QED
    BY <1>4, <1>5 DEF s, x

\* What a refused message makes of the variables it touches.
LEMMA MessageFailsTurns ==
  ASSUME Shape, NEW b \in Batches, MessageFails(b)
  PROVE  /\ Turn(b) /\ run'[b].at = (IF b \in StopOnError THEN "rereading" ELSE AfterMessage(run[b].sent + run[b].failed))
         /\ run'[b].failed = run[b].failed + 1
         /\ run'[b].stopped = (b \in StopOnError)
         /\ UNCHANGED <<run[b].sent, run[b].dbCancel, run[b].verdict, run[b].kept>>
  <1> DEFINE s == IF b \in StopOnError THEN "rereading" ELSE AfterMessage(run[b].sent + run[b].failed)
  <1> DEFINE x == run[b].failed + 1
  <1> DEFINE y == b \in StopOnError
  <1> DEFINE w == [run[b] EXCEPT !.failed = x, !.stopped = y, !.at = s]
  <1>1. s \in Stages /\ x \in 0 .. Total /\ y \in BOOLEAN
    BY BulkAssumption DEF Shape, TypeOK, Sound, Runner, Stages, AfterMessage, MessageFails, Runs
  <1>2. run' = [run EXCEPT ![b] = w]
    BY DEF MessageFails
  <1>3. run[b] \in Runner
    BY DEF Shape, TypeOK
  <1> HIDE DEF s, x, y
  <1>4. /\ w \in Runner /\ w.at = s /\ w.host = run[b].host /\ w.failed = x /\ w.stopped = y
        /\ w.sent = run[b].sent /\ w.dbCancel = run[b].dbCancel /\ w.verdict = run[b].verdict /\ w.kept = run[b].kept
    BY <1>1, <1>3 DEF Runner
  <1> HIDE DEF w
  <1>5. Turn(b) /\ run'[b] = w
    BY <1>2, <1>4, TurnTo DEF Shape
  <1>6. QED
    BY <1>4, <1>5 DEF s, x, y

\* What a checkpoint makes of the variables it touches.
LEMMA SaveProgressTurns ==
  ASSUME TypeOK, NEW b \in Batches, SaveProgress(b)
  PROVE  /\ Turn(b) /\ run'[b].at = (IF row[b].status = "cancelled" THEN "rereading" ELSE "next")
         /\ run'[b].dbCancel = (IF row[b].status = "cancelled" THEN TRUE ELSE run[b].dbCancel)
         /\ UNCHANGED <<run[b].sent, run[b].failed, run[b].stopped, run[b].verdict, run[b].kept>>
  <1> DEFINE s == IF row[b].status = "cancelled" THEN "rereading" ELSE "next"
  <1> DEFINE x == IF row[b].status = "cancelled" THEN TRUE ELSE run[b].dbCancel
  <1> DEFINE w == [run[b] EXCEPT !.dbCancel = x, !.at = s]
  <1>1. s \in Stages /\ x \in BOOLEAN
    BY DEF TypeOK, Stages, Runner
  <1>2. run' = [run EXCEPT ![b] = w]
    BY DEF SaveProgress, Goto, TypeOK, Runner
  <1>3. run[b] \in Runner
    BY DEF TypeOK
  <1> HIDE DEF s, x
  <1>4. /\ w \in Runner /\ w.at = s /\ w.host = run[b].host /\ w.dbCancel = x
        /\ w.sent = run[b].sent /\ w.failed = run[b].failed /\ w.stopped = run[b].stopped /\ w.verdict = run[b].verdict /\ w.kept = run[b].kept
    BY <1>1, <1>3 DEF Runner
  <1> HIDE DEF w
  <1>5. Turn(b) /\ run'[b] = w
    BY <1>2, <1>4, TurnTo
  <1>6. QED
    BY <1>4, <1>5 DEF s, x

\* What the last read of the row makes of the variables it touches.
LEMMA ReadFinalStatusTurns ==
  ASSUME TypeOK, NEW b \in Batches, ReadFinalStatus(b)
  PROVE  /\ Turn(b) /\ run'[b].at = "settling"
         /\ run'[b].dbCancel = (run[b].dbCancel \/ row[b].status = "cancelled")
         /\ UNCHANGED <<run[b].sent, run[b].failed, run[b].stopped, run[b].verdict, run[b].kept>>
  <1> DEFINE s == "settling"
  <1> DEFINE x == run[b].dbCancel \/ row[b].status = "cancelled"
  <1> DEFINE w == [run[b] EXCEPT !.dbCancel = x, !.at = s]
  <1>1. s \in Stages /\ x \in BOOLEAN
    BY DEF TypeOK, Stages, Runner
  <1>2. run' = [run EXCEPT ![b] = w]
    BY DEF ReadFinalStatus
  <1>3. run[b] \in Runner
    BY DEF TypeOK
  <1> HIDE DEF s, x
  <1>4. /\ w \in Runner /\ w.at = s /\ w.host = run[b].host /\ w.dbCancel = x
        /\ w.sent = run[b].sent /\ w.failed = run[b].failed /\ w.stopped = run[b].stopped /\ w.verdict = run[b].verdict /\ w.kept = run[b].kept
    BY <1>1, <1>3 DEF Runner
  <1> HIDE DEF w
  <1>5. Turn(b) /\ run'[b] = w
    BY <1>2, <1>4, TurnTo
  <1>6. QED
    BY <1>4, <1>5 DEF s, x

\* What the verdict makes of the variables it touches.
LEMMA SettleTurns ==
  ASSUME TypeOK, NEW b \in Batches, Settle(b)
  PROVE  /\ Turn(b) /\ run'[b].at = "finishing"
         /\ run'[b].verdict = ResolveFinalBatchStatus(run[b].dbCancel \/ flag[run[b].host][b] # "go", run[b])
         /\ UNCHANGED <<run[b].sent, run[b].failed, run[b].stopped, run[b].dbCancel, run[b].kept>>
  <1> DEFINE s == "finishing"
  <1> DEFINE x == ResolveFinalBatchStatus(run[b].dbCancel \/ flag[run[b].host][b] # "go", run[b])
  <1> DEFINE w == [run[b] EXCEPT !.verdict = x, !.at = s]
  <1>1. s \in Stages /\ x \in Terminal
    BY DEF TypeOK, Stages, Terminal, ResolveFinalBatchStatus
  <1>2. run' = [run EXCEPT ![b] = w]
    BY DEF Settle
  <1>3. run[b] \in Runner
    BY DEF TypeOK
  <1> HIDE DEF s, x
  <1>4. /\ w \in Runner /\ w.at = s /\ w.host = run[b].host /\ w.verdict = x
        /\ w.sent = run[b].sent /\ w.failed = run[b].failed /\ w.stopped = run[b].stopped /\ w.dbCancel = run[b].dbCancel /\ w.kept = run[b].kept
    BY <1>1, <1>3 DEF Runner
  <1> HIDE DEF w
  <1>5. Turn(b) /\ run'[b] = w
    BY <1>2, <1>4, TurnTo
  <1>6. QED
    BY <1>4, <1>5 DEF s, x

\* What the final UPDATE makes of the variables it touches.
LEMMA FinalizeBatchTurns ==
  ASSUME TypeOK, NEW b \in Batches, FinalizeBatch(b)
  PROVE  /\ Turn(b) /\ run'[b].at = "ended"
         /\ run'[b].kept = (run[b].verdict = "cancelled" \/ row[b].status # "cancelled")
         /\ UNCHANGED <<run[b].sent, run[b].failed, run[b].stopped, run[b].dbCancel, run[b].verdict>>
  <1> DEFINE s == "ended"
  <1> DEFINE x == run[b].verdict = "cancelled" \/ row[b].status # "cancelled"
  <1> DEFINE w == [run[b] EXCEPT !.kept = x, !.at = s]
  <1>1. s \in Stages /\ x \in BOOLEAN
    BY DEF TypeOK, Stages
  <1>2. run' = [run EXCEPT ![b] = w]
    BY DEF FinalizeBatch, End
  <1>3. run[b] \in Runner
    BY DEF TypeOK
  <1> HIDE DEF s, x
  <1>4. /\ w \in Runner /\ w.at = s /\ w.host = run[b].host /\ w.kept = x
        /\ w.sent = run[b].sent /\ w.failed = run[b].failed /\ w.stopped = run[b].stopped /\ w.dbCancel = run[b].dbCancel /\ w.verdict = run[b].verdict
    BY <1>1, <1>3 DEF Runner
  <1> HIDE DEF w
  <1>5. Turn(b) /\ run'[b] = w
    BY <1>2, <1>4, TurnTo
  <1>6. QED
    BY <1>4, <1>5 DEF s, x

\* A change that leaves every runner where it is.
Still ==
  /\ run' \in [Batches -> Runner]
  /\ \A b \in Batches :
       UNCHANGED <<run[b].at, run[b].host, run[b].sent, run[b].failed, run[b].stopped,
                   run[b].dbCancel, run[b].verdict, run[b].kept>>

\* No change is one.
LEMMA UnchangedIsStill ==
  ASSUME TypeOK, UNCHANGED run
  PROVE  Still
  BY DEF TypeOK, Still

\* Losing the engine is one.
LEMMA TearDownIsStill ==
  ASSUME TypeOK, NEW p \in Procs, TearDown(p)
  PROVE  Still
  <1> DEFINE w(b) == IF run[b].host = p THEN [run[b] EXCEPT !.wired = FALSE] ELSE run[b]
  <1>1. run' = [b \in Batches |-> w(b)]
    BY DEF TearDown
  <1>2. ASSUME NEW b \in Batches
        PROVE  /\ w(b) \in Runner /\ w(b).at = run[b].at /\ w(b).host = run[b].host
               /\ w(b).sent = run[b].sent /\ w(b).failed = run[b].failed
               /\ w(b).stopped = run[b].stopped /\ w(b).dbCancel = run[b].dbCancel
               /\ w(b).verdict = run[b].verdict /\ w(b).kept = run[b].kept
    <2>1. run[b] \in Runner
      BY DEF TypeOK
    <2>2. QED
      BY <2>1 DEF Runner
  <1> HIDE DEF w
  <1>3. QED
    BY <1>1, <1>2 DEF Still

\* What createBatch makes of the variables it touches.
LEMMA CreateBatchTurns ==
  ASSUME TypeOK, NEW p \in Procs, NEW b \in Batches, CreateBatch(p, b)
  PROVE  /\ run' \in [Batches -> Runner]
         /\ \A c \in Batches : c # b => run'[c] = run[c]
         /\ run'[b].at = "inserting" /\ run'[b].host = p
         /\ run'[b].sent = 0 /\ run'[b].failed = 0 /\ run'[b].kept
  <1> DEFINE w == [NoRunner EXCEPT !.at = "inserting", !.host = p]
  <1>1. /\ w \in Runner /\ w.at = "inserting" /\ w.host = p
        /\ w.sent = 0 /\ w.failed = 0 /\ w.kept
    BY Literals DEF NoRunner, Runner, Stages
  <1>2. run' = [run EXCEPT ![b] = w]
    BY DEF CreateBatch
  <1> HIDE DEF w
  <1>3. QED
    BY <1>1, <1>2 DEF TypeOK

\* What a crash makes of the variables it touches.
LEMMA CrashTurns ==
  ASSUME TypeOK, NEW p \in Procs, Crash(p)
  PROVE  /\ run' \in [Batches -> Runner]
         /\ \A b \in Batches :
              /\ UNCHANGED <<run[b].host, run[b].sent, run[b].failed, run[b].stopped,
                             run[b].dbCancel, run[b].verdict, run[b].kept>>
              /\ run'[b].at = IF run[b].host = p /\ run[b].at \in Live THEN "dead" ELSE run[b].at
  <1> DEFINE w(b) == IF run[b].host = p /\ run[b].at \in Live
                     THEN [run[b] EXCEPT !.at = "dead", !.wired = FALSE] ELSE run[b]
  <1>1. run' = [b \in Batches |-> w(b)]
    BY DEF Crash
  <1>2. ASSUME NEW b \in Batches
        PROVE  /\ w(b) \in Runner /\ w(b).host = run[b].host
               /\ w(b).at = IF run[b].host = p /\ run[b].at \in Live THEN "dead" ELSE run[b].at
               /\ w(b).sent = run[b].sent /\ w(b).failed = run[b].failed
               /\ w(b).stopped = run[b].stopped /\ w(b).dbCancel = run[b].dbCancel
               /\ w(b).verdict = run[b].verdict /\ w(b).kept = run[b].kept
    <2>1. run[b] \in Runner
      BY DEF TypeOK
    <2>2. CASE run[b].host = p /\ run[b].at \in Live
      BY <2>1, <2>2 DEF Runner, Stages
    <2>3. CASE ~(run[b].host = p /\ run[b].at \in Live)
      BY <2>1, <2>3
    <2>4. QED
      BY <2>2, <2>3
  <1> HIDE DEF w
  <1>3. QED
    BY <1>1, <1>2

-------------------------------------------------------------------------------
(* How the count of running batches changes.                               *)

\* A still step leaves the counts as they were.
LEMMA StillCounts ==
  ASSUME Shape, Still, UNCHANGED inFlight
  PROVE  \A p \in Procs : Counted(p)'
  <1> SUFFICES ASSUME NEW p \in Procs PROVE Counted(p)'
    OBVIOUS
  <1>1. Mine(p)' = Mine(p)
    BY DEF Still, Mine
  <1>2. QED
    BY <1>1 DEF Shape, Counted

\* So does a step of a runner that stays live.
LEMMA TurnCounts ==
  ASSUME Shape, NEW b \in Batches, Turn(b), run[b].at \in Live, run'[b].at \in Live,
         UNCHANGED inFlight
  PROVE  \A p \in Procs : Counted(p)'
  <1> SUFFICES ASSUME NEW p \in Procs PROVE Counted(p)'
    OBVIOUS
  <1>1. Mine(p)' = Mine(p)
    BY DEF Turn, Mine
  <1>2. QED
    BY <1>1 DEF Shape, Counted

\* The end of a run takes it out of the count of its process.
LEMMA EndCounts ==
  ASSUME Shape, NEW b \in Batches, Turn(b), run[b].at \in Live, run'[b].at = "ended",
         inFlight' = [inFlight EXCEPT ![run[b].host] = @ - 1]
  PROVE  /\ inFlight' \in [Procs -> Nat]
         /\ \A p \in Procs : Counted(p)'
  <1>1. PICK h \in Procs : h = run[b].host
    BY DEF Shape, Sound, Live
  <1>2. Mine(h)' = Mine(h) \ {b} /\ b \in Mine(h)
    BY <1>1 DEF Turn, Mine, Live
  <1>3. /\ IsFiniteSet(Mine(h)') /\ Cardinality(Mine(h)') = Cardinality(Mine(h)) - 1
        /\ Cardinality(Mine(h)') \in Nat
    <2>1. IsFiniteSet(Mine(h))
      BY <1>1 DEF Shape, Counted
    <2>2. QED
      BY <1>2, <2>1, FS_RemoveElement, FS_CardinalityType
  <1>4. inFlight' \in [Procs -> Nat] /\ inFlight'[h] = inFlight[h] - 1
        /\ inFlight'[h] = Cardinality(Mine(h)')
    BY <1>1, <1>3 DEF Shape, Counted, TypeOK
  <1>5. Counted(h)'
    <2>1. IsFiniteSet(Mine(h))' /\ inFlight'[h] = Cardinality(Mine(h))'
      BY <1>3, <1>4
    <2>2. MaxConcurrent # 0 => inFlight'[h] <= MaxConcurrent
      BY <1>1, <1>4, BulkAssumption DEF Shape, Counted, TypeOK
    <2>3. QED
      BY <2>1, <2>2 DEF Counted
  <1>6. ASSUME NEW p \in Procs, p # h PROVE Counted(p)'
    <2>1. Mine(p)' = Mine(p)
      BY <1>1, <1>6 DEF Turn, Mine
    <2>2. inFlight'[p] = inFlight[p]
      BY <1>1, <1>6 DEF Shape, TypeOK
    <2>3. QED
      BY <2>1, <2>2 DEF Shape, Counted
  <1>7. QED
    BY <1>4, <1>5, <1>6

\* A new run enters the count, under the cap.
LEMMA CreateCounts ==
  ASSUME Shape, NEW p \in Procs, NEW b \in Batches, CreateBatch(p, b)
  PROVE  /\ inFlight' \in [Procs -> Nat]
         /\ \A q \in Procs : Counted(q)'
  <1>1. /\ \A c \in Batches : c # b => run'[c] = run[c]
        /\ run'[b].at = "inserting" /\ run'[b].host = p /\ run[b].at = "unborn"
    BY CreateBatchTurns DEF Shape, CreateBatch, Runs
  <1>2. Mine(p)' = Mine(p) \cup {b} /\ b \notin Mine(p)
    BY <1>1 DEF Mine, Live, Stages
  <1>3. IsFiniteSet(Mine(p)') /\ Cardinality(Mine(p)') = Cardinality(Mine(p)) + 1
    <2>1. IsFiniteSet(Mine(p))
      BY DEF Shape, Counted
    <2>2. QED
      BY <1>2, <2>1, FS_AddElement
  <1>4. inFlight' = [inFlight EXCEPT ![p] = @ + 1] /\ inFlight \in [Procs -> Nat]
    BY DEF CreateBatch, Shape, TypeOK
  <1>5. Counted(p)'
    <2>1. IsFiniteSet(Mine(p))' /\ inFlight'[p] = Cardinality(Mine(p))'
      BY <1>3, <1>4 DEF Shape, Counted
    <2>2. MaxConcurrent # 0 => inFlight'[p] <= MaxConcurrent
      BY <1>4, BulkAssumption DEF CreateBatch
    <2>3. QED
      BY <2>1, <2>2 DEF Counted
  <1>6. ASSUME NEW q \in Procs, q # p PROVE Counted(q)'
    <2>1. Mine(q)' = Mine(q)
      BY <1>1, <1>6 DEF Mine, Live
    <2>2. inFlight'[q] = inFlight[q]
      BY <1>4, <1>6
    <2>3. QED
      BY <2>1, <2>2 DEF Shape, Counted
  <1>7. QED
    BY <1>4, <1>5, <1>6

\* A crash empties the count of its process and no other.
LEMMA CrashCounts ==
  ASSUME Shape, NEW p \in Procs, Crash(p)
  PROVE  /\ inFlight' \in [Procs -> Nat]
         /\ \A q \in Procs : Counted(q)'
  <1>1. \A b \in Batches :
          /\ run'[b].host = run[b].host
          /\ run'[b].at = IF run[b].host = p /\ run[b].at \in Live THEN "dead" ELSE run[b].at
    BY CrashTurns DEF Shape
  <1>2. inFlight' = [inFlight EXCEPT ![p] = 0] /\ inFlight \in [Procs -> Nat]
    BY DEF Crash, Shape, TypeOK
  <1>3. Counted(p)'
    <2>1. Mine(p)' = {}
      BY <1>1 DEF Mine, Live
    <2>2. IsFiniteSet(Mine(p)') /\ Cardinality(Mine(p)') = 0
      BY <2>1, FS_EmptySet
    <2>3. QED
      BY <1>2, <2>2, BulkAssumption DEF Counted
  <1>4. ASSUME NEW q \in Procs, q # p PROVE Counted(q)'
    <2>1. Mine(q)' = Mine(q)
      BY <1>1, <1>4 DEF Mine, Live
    <2>2. inFlight'[q] = inFlight[q]
      BY <1>2, <1>4
    <2>3. QED
      BY <2>1, <2>2 DEF Shape, Counted
  <1>5. QED
    BY <1>2, <1>3, <1>4

-------------------------------------------------------------------------------
(* Shape is inductive.                                                     *)

\* The variables a runner leaves to others.
OtherTypes ==
  /\ cancel \in [Procs -> Cancel] /\ reap \in [Procs -> Reaper]
  /\ power \in [Procs -> {"up", "booting", "down"}]
  /\ owner \in Procs \cup {None} /\ expired \in BOOLEAN /\ engines \subseteq Procs
  /\ crashes \in Nat /\ lapses \in Nat
  /\ canceller \in [Batches -> Procs \cup {None}]
  /\ strayed \in BOOLEAN

\* Shape survives a step that moves no runner.
LEMMA StillKeepsShape ==
  ASSUME Shape, Still, UNCHANGED <<inFlight, delivered, late>>,
         row' \in [Batches -> Row], flag' \in [Procs -> [Batches -> {"unset", "go", "stop"}]],
         OtherTypes', Aimed',
         \A p \in Procs, b \in Batches : flag'[p][b] = "go" => flag[p][b] = "go"
  PROVE  Shape'
  <1>1. TypeOK'
    BY DEF Shape, TypeOK, OtherTypes, Still
  <1>2. \A b \in Batches : Sound(b)'
    BY DEF Shape, Sound, Still
  <1>3. \A p \in Procs : Marked(p)'
    BY DEF Shape, Marked, Still
  <1>4. QED
    BY <1>1, <1>2, <1>3, StillCounts DEF Shape

\* Shape survives a step of one runner that stays live.
LEMMA TurnKeepsShape ==
  ASSUME Shape, NEW b \in Batches, Turn(b), Sound(b)',
         row' \in [Batches -> Row], flag' \in [Procs -> [Batches -> {"unset", "go", "stop"}]],
         inFlight' \in [Procs -> Nat], \A p \in Procs : Counted(p)' /\ Marked(p)',
         delivered' \in [Batches -> 0 .. Total], late' \in [Batches -> 0 .. Total],
         \A c \in Batches : c # b => delivered'[c] = delivered[c] /\ late'[c] = late[c],
         UNCHANGED <<cancel, reap, power, session, bounds, canceller, strayed>>
  PROVE  Shape'
  <1>1. TypeOK'
    BY DEF Shape, TypeOK, Turn, session, bounds
  <1>2. ASSUME NEW c \in Batches, c # b PROVE Sound(c)'
    BY <1>2 DEF Shape, Sound, Turn
  <1>3. Aimed'
    BY DEF Shape, Aimed
  <1>4. QED
    BY <1>1, <1>2, <1>3 DEF Shape

\* Marks that come from a running batch.
LEMMA TurnMarks ==
  ASSUME Shape, NEW b \in Batches, Turn(b), run[b].at \in Live, run'[b].at \in Started,
         \A p \in Procs, c \in Batches :
           flag'[p][c] = "go" => flag[p][c] = "go" \/ (c = b /\ p = run[b].host)
  PROVE  \A p \in Procs : Marked(p)'
  BY DEF Shape, Marked, Turn

\* The mark of a run goes with it.
LEMMA EndMarks ==
  ASSUME Shape, NEW b \in Batches, Turn(b),
         \A p \in Procs, c \in Batches :
           flag'[p][c] = "go" => flag[p][c] = "go" /\ (c = b => p # run[b].host)
  PROVE  \A p \in Procs : Marked(p)'
  BY DEF Shape, Marked, Turn

\* What a reaper reads.
LEMMA FoundType ==
  ASSUME TypeOK, NEW s \in {"owning", "saving"}, NEW found \in SUBSET Batches
  PROVE  Found(s, found) \in Reaper
  BY Literals DEF TypeOK, Found, Reaper

\* An operator starting the session keeps the shape.
LEMMA StartSessionShape ==
  ASSUME Shape, NEW p \in Procs, StartSession(p)
  PROVE  Shape'
  <1>1. Still
    BY UnchangedIsStill DEF StartSession, Shape
  <1>2. row' \in [Batches -> Row]
    BY DEF StartSession, Shape, TypeOK
  <1>3. /\ flag' \in [Procs -> [Batches -> {"unset", "go", "stop"}]]
        /\ \A q \in Procs, c \in Batches : flag'[q][c] = "go" => flag[q][c] = "go"
    BY DEF StartSession, Shape, TypeOK
  <1>4. OtherTypes'
    BY BulkAssumption DEF StartSession, bounds, history, Shape, TypeOK, OtherTypes
  <1>5. Aimed'
    BY DEF StartSession, Shape, TypeOK, Aimed
  <1>6. QED
    BY <1>1, <1>2, <1>3, <1>4, <1>5, StillKeepsShape DEF StartSession, history

\* An operator stopping the session keeps the shape.
LEMMA StopSessionShape ==
  ASSUME Shape, NEW p \in Procs, StopSession(p)
  PROVE  Shape'
  <1>1. Still
    BY TearDownIsStill DEF StopSession, Shape
  <1>2. row' \in [Batches -> Row]
    BY DEF StopSession, Shape, TypeOK
  <1>3. /\ flag' \in [Procs -> [Batches -> {"unset", "go", "stop"}]]
        /\ \A q \in Procs, c \in Batches : flag'[q][c] = "go" => flag[q][c] = "go"
    BY DEF StopSession, Shape, TypeOK
  <1>4. OtherTypes'
    BY BulkAssumption DEF StopSession, bounds, history, TearDown, Shape, TypeOK, OtherTypes
  <1>5. Aimed'
    BY DEF StopSession, Shape, TypeOK, Aimed
  <1>6. QED
    BY <1>1, <1>2, <1>3, <1>4, <1>5, StillKeepsShape DEF StopSession, history

\* A lease running out keeps the shape.
LEMMA LapseShape ==
  ASSUME Shape, Lapse
  PROVE  Shape'
  <1>1. Still
    BY UnchangedIsStill DEF Lapse, Shape
  <1>2. row' \in [Batches -> Row]
    BY DEF Lapse, Shape, TypeOK
  <1>3. /\ flag' \in [Procs -> [Batches -> {"unset", "go", "stop"}]]
        /\ \A q \in Procs, c \in Batches : flag'[q][c] = "go" => flag[q][c] = "go"
    BY DEF Lapse, Shape, TypeOK
  <1>4. OtherTypes'
    BY BulkAssumption DEF Lapse, history, Shape, TypeOK, OtherTypes
  <1>5. Aimed'
    BY DEF Lapse, Shape, TypeOK, Aimed
  <1>6. QED
    BY <1>1, <1>2, <1>3, <1>4, <1>5, StillKeepsShape DEF Lapse, history

\* A renewal keeps the shape.
LEMMA RenewShape ==
  ASSUME Shape, Renew
  PROVE  Shape'
  <1>1. Still
    BY UnchangedIsStill DEF Renew, Shape
  <1>2. row' \in [Batches -> Row]
    BY DEF Renew, Shape, TypeOK
  <1>3. /\ flag' \in [Procs -> [Batches -> {"unset", "go", "stop"}]]
        /\ \A q \in Procs, c \in Batches : flag'[q][c] = "go" => flag[q][c] = "go"
    BY DEF Renew, Shape, TypeOK
  <1>4. OtherTypes'
    BY BulkAssumption DEF Renew, bounds, history, Shape, TypeOK, OtherTypes
  <1>5. Aimed'
    BY DEF Renew, Shape, TypeOK, Aimed
  <1>6. QED
    BY <1>1, <1>2, <1>3, <1>4, <1>5, StillKeepsShape DEF Renew, history

\* The loss of the claim keeps the shape.
LEMMA LoseEngineShape ==
  ASSUME Shape, NEW p \in Procs, LoseEngine(p)
  PROVE  Shape'
  <1>1. Still
    BY TearDownIsStill DEF LoseEngine, Shape
  <1>2. row' \in [Batches -> Row]
    BY DEF LoseEngine, Shape, TypeOK
  <1>3. /\ flag' \in [Procs -> [Batches -> {"unset", "go", "stop"}]]
        /\ \A q \in Procs, c \in Batches : flag'[q][c] = "go" => flag[q][c] = "go"
    BY DEF LoseEngine, Shape, TypeOK
  <1>4. OtherTypes'
    BY BulkAssumption DEF LoseEngine, bounds, history, TearDown, Shape, TypeOK, OtherTypes
  <1>5. Aimed'
    BY DEF LoseEngine, Shape, TypeOK, Aimed
  <1>6. QED
    BY <1>1, <1>2, <1>3, <1>4, <1>5, StillKeepsShape DEF LoseEngine, history

\* An adoption keeps the shape.
LEMMA TakeOverShape ==
  ASSUME Shape, NEW p \in Procs, TakeOver(p)
  PROVE  Shape'
  <1>1. Still
    BY UnchangedIsStill DEF TakeOver, Shape
  <1>2. row' \in [Batches -> Row]
    BY DEF TakeOver, Shape, TypeOK
  <1>3. /\ flag' \in [Procs -> [Batches -> {"unset", "go", "stop"}]]
        /\ \A q \in Procs, c \in Batches : flag'[q][c] = "go" => flag[q][c] = "go"
    BY DEF TakeOver, Shape, TypeOK
  <1>4. OtherTypes'
    <2>1. [reap[p] EXCEPT !.at = "adopting"] \in Reaper
      BY DEF Shape, TypeOK, Reaper
    <2>2. reap' \in [Procs -> Reaper]
      BY <2>1 DEF TakeOver, Shape, TypeOK
    <2>3. QED
      BY <2>2 DEF TakeOver, bounds, history, Shape, TypeOK, OtherTypes
  <1>5. Aimed'
    BY DEF TakeOver, Shape, TypeOK, Aimed
  <1>6. QED
    BY <1>1, <1>2, <1>3, <1>4, <1>5, StillKeepsShape DEF TakeOver, history

\* An adoption that fails keeps the shape.
LEMMA AdoptionFailsShape ==
  ASSUME Shape, NEW p \in Procs, AdoptionFails(p)
  PROVE  Shape'
  <1>1. Still
    BY TearDownIsStill DEF AdoptionFails, Shape
  <1>2. row' \in [Batches -> Row]
    BY DEF AdoptionFails, Shape, TypeOK
  <1>3. /\ flag' \in [Procs -> [Batches -> {"unset", "go", "stop"}]]
        /\ \A q \in Procs, c \in Batches : flag'[q][c] = "go" => flag[q][c] = "go"
    BY DEF AdoptionFails, Shape, TypeOK
  <1>4. OtherTypes'
    <2>1. reap' \in [Procs -> Reaper]
      BY Literals DEF AdoptionFails, Shape, TypeOK
    <2>2. owner' \in Procs \cup {None} /\ expired' \in BOOLEAN /\ engines' \subseteq Procs
      BY DEF AdoptionFails, TearDown, Shape, TypeOK
    <2>3. QED
      BY <2>1, <2>2 DEF AdoptionFails, bounds, Shape, TypeOK, OtherTypes
  <1>5. Aimed'
    BY DEF AdoptionFails, Shape, TypeOK, Aimed
  <1>6. QED
    BY <1>1, <1>2, <1>3, <1>4, <1>5, StillKeepsShape DEF AdoptionFails

\* The read of a cancel keeps the shape.
LEMMA CancelBatchShape ==
  ASSUME Shape, NEW p \in Procs, NEW b \in Batches, CancelBatch(p, b)
  PROVE  Shape'
  <1>1. Still
    BY UnchangedIsStill DEF CancelBatch, Shape
  <1>2. row' \in [Batches -> Row]
    BY DEF CancelBatch, Shape, TypeOK
  <1>3. /\ flag' \in [Procs -> [Batches -> {"unset", "go", "stop"}]]
        /\ \A q \in Procs, c \in Batches : flag'[q][c] = "go" => flag[q][c] = "go"
    BY DEF CancelBatch, Shape, TypeOK
  <1>4. OtherTypes'
    <2>1. cancel' \in [Procs -> Cancel]
      BY DEF CancelBatch, Shape, TypeOK, Cancel
    <2>2. canceller' \in [Batches -> Procs \cup {None}]
      BY DEF CancelBatch, history, Shape, TypeOK
    <2>3. QED
      BY <2>1, <2>2 DEF CancelBatch, session, bounds, history, Shape, TypeOK, OtherTypes
  <1>5. Aimed'
    BY DEF CancelBatch, Shape, TypeOK, Aimed, Cancel, Idle
  <1>6. QED
    BY <1>1, <1>2, <1>3, <1>4, <1>5, StillKeepsShape DEF CancelBatch, history

\* The flag of a cancel keeps the shape.
LEMMA RaiseFlagTurns ==
  ASSUME Shape, NEW p \in Procs, RaiseFlag(p)
  PROVE  /\ cancel' \in [Procs -> Cancel]
         /\ \A q \in Procs : q # p => cancel'[q] = cancel[q]
         /\ cancel'[p] = Idle \/
              /\ cancel[p].seen.status \notin Terminal
              /\ cancel'[p].at = "writing" /\ cancel'[p].batch = cancel[p].batch
              /\ cancel'[p].seen = cancel[p].seen
         /\ \E c \in Batches :
              /\ c = cancel[p].batch
              /\ IF cancel'[p] = Idle THEN flag' = flag ELSE flag' = [flag EXCEPT ![p][c] = "stop"]
  <1> DEFINE w == [cancel[p] EXCEPT !.at = "writing"]
  <1>1. /\ w \in Cancel /\ w.at = "writing" /\ w.batch = cancel[p].batch
        /\ w.seen = cancel[p].seen /\ cancel \in [Procs -> Cancel]
    BY DEF Shape, TypeOK, Cancel
  <1>2. PICK c \in Batches : c = cancel[p].batch
    BY DEF RaiseFlag, Shape, Aimed
  <1>3. IF cancel[p].seen.status \in Terminal
          THEN cancel' = [cancel EXCEPT ![p] = Idle] /\ flag' = flag
          ELSE cancel' = [cancel EXCEPT ![p] = w] /\ flag' = [flag EXCEPT ![p][c] = "stop"]
    BY <1>2 DEF RaiseFlag
  <1>4. w # Idle
    BY <1>1 DEF Idle
  <1> HIDE DEF w
  <1>5. QED
    BY <1>1, <1>2, <1>3, <1>4, Literals

\* Shape survives the flag of a cancel.
LEMMA RaiseFlagShape ==
  ASSUME Shape, NEW p \in Procs, RaiseFlag(p)
  PROVE  Shape'
  <1>1. Still
    BY UnchangedIsStill DEF RaiseFlag, Shape
  <1>2. row' \in [Batches -> Row]
    BY DEF RaiseFlag, Shape, TypeOK
  <1>3. /\ flag' \in [Procs -> [Batches -> {"unset", "go", "stop"}]]
        /\ \A q \in Procs, c \in Batches : flag'[q][c] = "go" => flag[q][c] = "go"
    <2>1. PICK c \in Batches : IF cancel'[p] = Idle THEN flag' = flag
                               ELSE flag' = [flag EXCEPT ![p][c] = "stop"]
      BY RaiseFlagTurns
    <2>2. CASE flag' = flag
      BY <2>2 DEF Shape, TypeOK
    <2>3. CASE flag' = [flag EXCEPT ![p][c] = "stop"]
      BY <2>3 DEF Shape, TypeOK
    <2>4. QED
      BY <2>1, <2>2, <2>3
  <1>4. OtherTypes'
    BY RaiseFlagTurns DEF RaiseFlag, session, bounds, history, Shape, TypeOK, OtherTypes
  <1>5. Aimed'
    BY RaiseFlagTurns DEF Shape, Aimed, Idle
  <1>6. QED
    BY <1>1, <1>2, <1>3, <1>4, <1>5, StillKeepsShape DEF RaiseFlag, history

\* The UPDATE of a cancel keeps the shape.
LEMMA WriteCancelShape ==
  ASSUME Shape, NEW p \in Procs, WriteCancel(p)
  PROVE  Shape'
  <1>1. Still
    BY UnchangedIsStill DEF WriteCancel, Shape
  <1>2. row' \in [Batches -> Row]
    <2>1. cancel[p].batch \in Batches /\ cancel[p].seen \in Row
      BY DEF WriteCancel, Shape, TypeOK, Aimed, Cancel
    <2>2. QED
      BY <2>1, CancelledType DEF WriteCancel, Shape, TypeOK
  <1>3. /\ flag' \in [Procs -> [Batches -> {"unset", "go", "stop"}]]
        /\ \A q \in Procs, c \in Batches : flag'[q][c] = "go" => flag[q][c] = "go"
    BY DEF WriteCancel, Shape, TypeOK
  <1>4. OtherTypes'
    <2>1. cancel' \in [Procs -> Cancel]
      BY Literals DEF WriteCancel, Shape, TypeOK
    <2>2. canceller' \in [Batches -> Procs \cup {None}]
      BY DEF WriteCancel, history, Shape, TypeOK
    <2>3. QED
      BY <2>1, <2>2 DEF WriteCancel, session, bounds, Shape, TypeOK, OtherTypes
  <1>5. Aimed'
    BY DEF WriteCancel, Shape, TypeOK, Aimed, Cancel, Idle
  <1>6. QED
    BY <1>1, <1>2, <1>3, <1>4, <1>5, StillKeepsShape DEF WriteCancel

\* A boot keeps the shape.
LEMMA BootShape ==
  ASSUME Shape, NEW p \in Procs, Boot(p)
  PROVE  Shape'
  <1>1. Still
    BY UnchangedIsStill DEF Boot, Shape
  <1>2. row' \in [Batches -> Row]
    BY DEF Boot, Shape, TypeOK
  <1>3. /\ flag' \in [Procs -> [Batches -> {"unset", "go", "stop"}]]
        /\ \A q \in Procs, c \in Batches : flag'[q][c] = "go" => flag[q][c] = "go"
    BY DEF Boot, Shape, TypeOK
  <1>4. OtherTypes'
    <2>1. reap' \in [Procs -> Reaper]
      BY FoundType DEF Boot, Shape, TypeOK, Processing
    <2>2. QED
      BY <2>1 DEF Boot, session, bounds, history, Shape, TypeOK, OtherTypes
  <1>5. Aimed'
    BY DEF Boot, Shape, TypeOK, Aimed
  <1>6. QED
    BY <1>1, <1>2, <1>3, <1>4, <1>5, StillKeepsShape DEF Boot, history

\* The check of ownership keeps the shape.
LEMMA OwnedByThisNodeShape ==
  ASSUME Shape, NEW p \in Procs, OwnedByThisNode(p)
  PROVE  Shape'
  <1>1. Still
    BY UnchangedIsStill DEF OwnedByThisNode, Shape
  <1>2. row' \in [Batches -> Row]
    BY DEF OwnedByThisNode, Shape, TypeOK
  <1>3. /\ flag' \in [Procs -> [Batches -> {"unset", "go", "stop"}]]
        /\ \A q \in Procs, c \in Batches : flag'[q][c] = "go" => flag[q][c] = "go"
    BY DEF OwnedByThisNode, Shape, TypeOK
  <1>4. OtherTypes'
    <2>1. /\ [reap[p] EXCEPT !.at = "saving"] \in Reaper /\ [Resting EXCEPT !.at = "saving"] \in Reaper
      BY Literals DEF Shape, TypeOK, Reaper
    <2>2. reap' \in [Procs -> Reaper]
      BY <2>1 DEF OwnedByThisNode, Shape, TypeOK
    <2>3. QED
      BY <2>2 DEF OwnedByThisNode, session, bounds, history, Shape, TypeOK, OtherTypes
  <1>5. Aimed'
    BY DEF OwnedByThisNode, Shape, TypeOK, Aimed
  <1>6. QED
    BY <1>1, <1>2, <1>3, <1>4, <1>5, StillKeepsShape DEF OwnedByThisNode, history

\* The read after an adoption keeps the shape.
LEMMA ReapProcessingBatchesShape ==
  ASSUME Shape, NEW p \in Procs, ReapProcessingBatches(p)
  PROVE  Shape'
  <1>1. Still
    BY UnchangedIsStill DEF ReapProcessingBatches, Shape
  <1>2. row' \in [Batches -> Row]
    BY DEF ReapProcessingBatches, Shape, TypeOK
  <1>3. /\ flag' \in [Procs -> [Batches -> {"unset", "go", "stop"}]]
        /\ \A q \in Procs, c \in Batches : flag'[q][c] = "go" => flag[q][c] = "go"
    BY DEF ReapProcessingBatches, Shape, TypeOK
  <1>4. OtherTypes'
    <2>1. reap' \in [Procs -> Reaper]
      BY FoundType DEF ReapProcessingBatches, Shape, TypeOK, Processing
    <2>2. QED
      BY <2>1 DEF ReapProcessingBatches, session, bounds, history, Shape, TypeOK, OtherTypes
  <1>5. Aimed'
    BY DEF ReapProcessingBatches, Shape, TypeOK, Aimed
  <1>6. QED
    BY <1>1, <1>2, <1>3, <1>4, <1>5, StillKeepsShape DEF ReapProcessingBatches, history

\* The save of an orphan keeps the shape.
LEMMA FailOrphanedBatchShape ==
  ASSUME Shape, NEW p \in Procs, NEW b \in Batches, FailOrphanedBatch(p, b)
  PROVE  Shape'
  <1>1. Still
    BY UnchangedIsStill DEF FailOrphanedBatch, Shape
  <1>2. row' \in [Batches -> Row]
    <2>1. reap[p].seen[b] \in Row /\ "failed" \in Statuses
      BY DEF Shape, TypeOK, Reaper, Statuses
    <2>2. QED
      BY <2>1, StatusType DEF FailOrphanedBatch, Shape, TypeOK
  <1>3. /\ flag' \in [Procs -> [Batches -> {"unset", "go", "stop"}]]
        /\ \A q \in Procs, c \in Batches : flag'[q][c] = "go" => flag[q][c] = "go"
    BY DEF FailOrphanedBatch, Shape, TypeOK
  <1>4. OtherTypes'
    <2>1. [reap[p] EXCEPT !.todo = @ \ {b}, !.seen[b] = NoRow] \in Reaper
      <3>1. /\ reap[p] \in Reaper /\ reap[p].todo \ {b} \in SUBSET Batches
            /\ [reap[p].seen EXCEPT ![b] = NoRow] \in [Batches -> Row]
        BY Literals DEF Shape, TypeOK, Reaper
      <3>2. QED
        BY <3>1 DEF Reaper
    <2>2. reap' \in [Procs -> Reaper]
      BY <2>1 DEF FailOrphanedBatch, Shape, TypeOK
    <2>3. QED
      BY <2>2 DEF FailOrphanedBatch, session, bounds, history, Shape, TypeOK, OtherTypes
  <1>5. Aimed'
    BY DEF FailOrphanedBatch, Shape, TypeOK, Aimed
  <1>6. QED
    BY <1>1, <1>2, <1>3, <1>4, <1>5, StillKeepsShape DEF FailOrphanedBatch, history

\* The end of a reap keeps the shape.
LEMMA ReapDoneShape ==
  ASSUME Shape, NEW p \in Procs, ReapDone(p)
  PROVE  Shape'
  <1>1. Still
    BY UnchangedIsStill DEF ReapDone, Shape
  <1>2. row' \in [Batches -> Row]
    BY DEF ReapDone, Shape, TypeOK
  <1>3. /\ flag' \in [Procs -> [Batches -> {"unset", "go", "stop"}]]
        /\ \A q \in Procs, c \in Batches : flag'[q][c] = "go" => flag[q][c] = "go"
    BY DEF ReapDone, Shape, TypeOK
  <1>4. OtherTypes'
    <2>1. reap' \in [Procs -> Reaper]
      BY Literals DEF ReapDone, Shape, TypeOK
    <2>2. QED
      BY <2>1 DEF ReapDone, session, bounds, history, Shape, TypeOK, OtherTypes
  <1>5. Aimed'
    BY DEF ReapDone, Shape, TypeOK, Aimed
  <1>6. QED
    BY <1>1, <1>2, <1>3, <1>4, <1>5, StillKeepsShape DEF ReapDone, history

\* The `finally` of processBatch.
LEMMA EndKeepsShape ==
  ASSUME Shape, NEW b \in Batches, Turn(b), Sound(b)', run[b].at \in Live,
         run'[b].at = "ended", row' \in [Batches -> Row],
         inFlight' = [inFlight EXCEPT ![run[b].host] = @ - 1],
         flag' = [flag EXCEPT ![run[b].host][b] = "unset"],
         UNCHANGED <<cancel, reap, power, session, bounds, history>>
  PROVE  Shape'
  <1>1. inFlight' \in [Procs -> Nat] /\ \A p \in Procs : Counted(p)'
    BY EndCounts
  <1>2. PICK h \in Procs : h = run[b].host
    BY DEF Shape, Sound, Live
  <1>3. flag' \in [Procs -> [Batches -> {"unset", "go", "stop"}]]
    BY <1>2 DEF Shape, TypeOK
  <1>4. \A p \in Procs, c \in Batches :
          flag'[p][c] = "go" => flag[p][c] = "go" /\ (c = b => p # run[b].host)
    BY <1>2 DEF Shape, TypeOK
  <1>5. \A p \in Procs : Marked(p)'
    BY <1>4, EndMarks
  <1>6. /\ delivered' = delivered /\ late' = late /\ canceller' = canceller
        /\ strayed' = strayed
    BY DEF history
  <1>7. QED
    BY <1>1, <1>3, <1>5, <1>6, TurnKeepsShape DEF Shape, TypeOK

\* createBatch keeps the shape.
LEMMA CreateBatchShape ==
  ASSUME Shape, NEW p \in Procs, NEW b \in Batches, CreateBatch(p, b)
  PROVE  Shape'
  <1>1. /\ run' \in [Batches -> Runner]
        /\ \A c \in Batches : c # b => run'[c] = run[c]
        /\ run'[b].at = "inserting" /\ run'[b].host = p
        /\ run'[b].sent = 0 /\ run'[b].failed = 0
    BY CreateBatchTurns DEF Shape
  <1>2. inFlight' \in [Procs -> Nat] /\ \A q \in Procs : Counted(q)'
    BY CreateCounts
  <1>3. run[b].at = "unborn"
    BY DEF CreateBatch, Runs
  <1>4. TypeOK'
    BY <1>1, <1>2 DEF CreateBatch, session, bounds, history, Shape, TypeOK
  <1>5. Aimed'
    BY DEF CreateBatch, Shape, Aimed
  <1>6. \A c \in Batches : Sound(c)'
    BY <1>1, <1>3, BulkAssumption DEF CreateBatch, history, Shape, Sound, Early
  <1>7. \A q \in Procs : Marked(q)'
    BY <1>1, <1>3 DEF CreateBatch, Shape, Marked, Started, Live
  <1>8. QED
    BY <1>2, <1>4, <1>5, <1>6, <1>7 DEF Shape

\* Shape survives a crash.
LEMMA CrashShape ==
  ASSUME Shape, NEW p \in Procs, Crash(p)
  PROVE  Shape'
  <1>1. /\ run' \in [Batches -> Runner]
        /\ \A b \in Batches :
             /\ run'[b].host = run[b].host /\ run'[b].sent = run[b].sent
             /\ run'[b].failed = run[b].failed /\ run'[b].verdict = run[b].verdict
             /\ run'[b].at = IF run[b].host = p /\ run[b].at \in Live THEN "dead" ELSE run[b].at
    BY CrashTurns DEF Shape
  <1>2. inFlight' \in [Procs -> Nat] /\ \A q \in Procs : Counted(q)'
    BY CrashCounts
  <1>3. TypeOK'
    <2>1. flag' \in [Procs -> [Batches -> {"unset", "go", "stop"}]]
      BY DEF Crash, Shape, TypeOK
    <2>2. cancel' \in [Procs -> Cancel] /\ reap' \in [Procs -> Reaper]
      BY Literals DEF Crash, Shape, TypeOK
    <2>3. power' \in [Procs -> {"up", "booting", "down"}] /\ engines' \subseteq Procs
      BY DEF Crash, Shape, TypeOK
    <2>4. crashes' \in Nat /\ lapses' \in Nat
      <3>1. crashes' = crashes + 1 /\ lapses' = lapses
        BY DEF Crash
      <3>2. QED
        BY <3>1 DEF Shape, TypeOK
    <2>5. QED
      BY <1>1, <1>2, <2>1, <2>2, <2>3, <2>4 DEF Crash, history, Shape, TypeOK
  <1>4. Aimed'
    BY DEF Crash, Shape, Aimed, Idle, TypeOK
  <1>5. \A b \in Batches : Sound(b)'
    <2>1. UNCHANGED <<delivered, late>>
      BY DEF Crash, history
    <2>2. ASSUME NEW b \in Batches PROVE Sound(b)'
      <3>1. CASE run[b].host = p /\ run[b].at \in Live
        <4>1. run'[b].at = "dead" /\ run[b].at # "unborn"
          BY <1>1, <3>1 DEF Live
        <4>2. QED
          BY <1>1, <2>1, <4>1 DEF Shape, Sound, Early
      <3>2. CASE ~(run[b].host = p /\ run[b].at \in Live)
        <4>1. UNCHANGED run[b].at
          BY <1>1, <3>2
        <4>2. QED
          BY <1>1, <2>1, <4>1 DEF Shape, Sound
      <3>3. QED
        BY <3>1, <3>2
    <2>3. QED
      BY <2>2
  <1>6. \A q \in Procs : Marked(q)'
    <2>1. \A q \in Procs, b \in Batches : flag'[q][b] = "go" => q # p /\ flag[q][b] = "go"
      BY DEF Crash, Shape, TypeOK
    <2>2. QED
      BY <1>1, <2>1 DEF Shape, Marked
  <1>7. QED
    BY <1>2, <1>3, <1>4, <1>5, <1>6 DEF Shape

\* The counters of a run that ends stay sound.
LEMMA EndSound ==
  ASSUME Shape, NEW b \in Batches, Turn(b), run'[b].at = "ended", run[b].at \in Live,
         UNCHANGED <<run[b].sent, run[b].failed, delivered, late>>
  PROVE  Sound(b)'
  BY DEF Shape, Sound, Turn, Early, Live

\* Shape survives a failed insert.
LEMMA InsertFailsShape ==
  ASSUME Shape, NEW b \in Batches, InsertFails(b)
  PROVE  Shape'
  <1>1. /\ Turn(b) /\ run'[b].at = "ended" /\ run[b].at = "inserting"
        /\ UNCHANGED <<run[b].sent, run[b].failed, delivered, late>>
    BY InsertFailsTurns DEF InsertFails, Runs, history, Shape
  <1>2. inFlight' \in [Procs -> Nat] /\ \A p \in Procs : Counted(p)'
    BY <1>1, EndCounts DEF InsertFails, Live, Stages
  <1>3. \A p \in Procs, c \in Batches :
          flag'[p][c] = "go" => flag[p][c] = "go" /\ (c = b => p # run[b].host)
    BY <1>1 DEF InsertFails, Shape, Marked, Started
  <1>4. \A p \in Procs : Marked(p)'
    BY <1>1, <1>3, EndMarks
  <1>5. Sound(b)'
    BY <1>1, EndSound DEF Live, Stages
  <1>6. QED
    BY <1>1, <1>2, <1>4, <1>5, TurnKeepsShape DEF InsertFails, history, Shape, TypeOK

\* Shape survives the read of the row.
LEMMA PickUpShape ==
  ASSUME Shape, NEW b \in Batches, PickUp(b)
  PROVE  Shape'
  <1> DEFINE quits == flag[run[b].host][b] = "stop" \/ row[b].status = "cancelled"
  <1>1. /\ Turn(b) /\ run'[b].at = (IF quits THEN "ended" ELSE "marking")
        /\ run[b].at = "reading" /\ UNCHANGED <<run[b].sent, run[b].failed, delivered, late>>
    BY PickUpTurns DEF PickUp, Runs, history, Shape
  <1>2. CASE quits
    <2>1. Sound(b)'
      BY <1>1, <1>2, EndSound DEF Live, Stages
    <2>2. QED
      BY <1>1, <1>2, <2>1, EndKeepsShape DEF PickUp, End, Live, Stages, Shape, TypeOK
  <1>3. CASE ~quits
    <2>1. PICK h \in Procs : h = run[b].host
      BY <1>1 DEF Shape, Sound
    <2>2. flag' = [flag EXCEPT ![h][b] = "go"] /\ UNCHANGED inFlight
      BY <1>3, <2>1 DEF PickUp
    <2>3. flag' \in [Procs -> [Batches -> {"unset", "go", "stop"}]]
      BY <2>2 DEF Shape, TypeOK
    <2>4. \A p \in Procs, c \in Batches :
            flag'[p][c] = "go" => flag[p][c] = "go" \/ (c = b /\ p = run[b].host)
      BY <2>1, <2>2 DEF Shape, TypeOK
    <2>5. \A p \in Procs : Marked(p)'
      BY <1>1, <1>3, <2>4, TurnMarks DEF Started, Live, Stages
    <2>6. \A p \in Procs : Counted(p)'
      BY <1>1, <1>3, <2>2, TurnCounts DEF Live, Stages
    <2>7. Sound(b)'
      BY <1>1, <1>3 DEF Shape, Sound, Turn, Early
    <2>8. QED
      BY <1>1, <2>2, <2>3, <2>5, <2>6, <2>7, TurnKeepsShape
       DEF PickUp, history, Shape, TypeOK
  <1>4. QED
    BY <1>2, <1>3

\* Shape survives the guarded start UPDATE.
LEMMA MarkBatchProcessingShape ==
  ASSUME Shape, NEW b \in Batches, MarkBatchProcessing(b)
  PROVE  Shape'
  <1>1. /\ Turn(b)
        /\ run'[b].at = (IF row[b].status = "cancelled" THEN "ended" ELSE "starting")
        /\ run[b].at = "marking" /\ UNCHANGED <<run[b].sent, run[b].failed, delivered, late>>
    BY MarkBatchProcessingTurns DEF MarkBatchProcessing, Runs, history, Shape
  <1>2. CASE row[b].status = "cancelled"
    <2>1. Sound(b)'
      BY <1>1, <1>2, EndSound DEF Live, Stages
    <2>2. QED
      BY <1>1, <1>2, <2>1, EndKeepsShape
       DEF MarkBatchProcessing, End, Live, Stages, Shape, TypeOK
  <1>3. CASE row[b].status # "cancelled"
    <2>1. row' \in [Batches -> Row]
      <3>1. [row[b] EXCEPT !.status = "processing"] \in Row
        BY StatusType DEF Shape, TypeOK, Statuses
      <3>2. row' = [row EXCEPT ![b] = [row[b] EXCEPT !.status = "processing"]]
        BY <1>3 DEF MarkBatchProcessing
      <3>3. QED
        BY <3>1, <3>2 DEF Shape, TypeOK
    <2>2. UNCHANGED <<flag, inFlight>>
      BY <1>3 DEF MarkBatchProcessing
    <2>3. \A p \in Procs : Marked(p)'
      BY <1>1, <1>3, <2>2, TurnMarks DEF Started, Live, Stages
    <2>4. \A p \in Procs : Counted(p)'
      BY <1>1, <1>3, <2>2, TurnCounts DEF Live, Stages
    <2>5. Sound(b)'
      BY <1>1, <1>3 DEF Shape, Sound, Turn, Early
    <2>6. QED
      BY <1>1, <2>1, <2>2, <2>3, <2>4, <2>5, TurnKeepsShape
       DEF MarkBatchProcessing, history, Shape, TypeOK
  <1>4. QED
    BY <1>2, <1>3

\* Shape survives the end without an engine.
LEMMA FailBatchWithoutEngineShape ==
  ASSUME Shape, NEW b \in Batches, FailBatchWithoutEngine(b)
  PROVE  Shape'
  <1>1. /\ Turn(b) /\ run'[b].at = "ended" /\ run[b].at = "engineless"
        /\ UNCHANGED <<run[b].sent, run[b].failed, delivered, late>>
    BY FailBatchWithoutEngineTurns DEF FailBatchWithoutEngine, Runs, history, Shape
  <1>2. row' \in [Batches -> Row]
    <2>1. [row[b] EXCEPT !.status = "failed"] \in Row
      BY StatusType DEF Shape, TypeOK, Statuses
    <2>2. QED
      BY <2>1 DEF FailBatchWithoutEngine, Shape, TypeOK
  <1>3. Sound(b)'
    BY <1>1, EndSound DEF Live, Stages
  <1>4. QED
    BY <1>1, <1>2, <1>3, EndKeepsShape DEF FailBatchWithoutEngine, End, Live, Stages

\* finalizeBatch lowers the flag at the host.
LEMMA FinalizeClears ==
  ASSUME NEW b \in Batches, run[b] \in Runner, FinalizeBatch(b)
  PROVE  /\ inFlight' = [inFlight EXCEPT ![run[b].host] = @ - 1]
         /\ flag' = [flag EXCEPT ![run[b].host][b] = "unset"]
  <1>1. [run[b] EXCEPT !.kept = run[b].verdict = "cancelled" \/ row[b].status # "cancelled"].host
          = run[b].host
    BY DEF Runner
  <1>2. QED
    BY <1>1 DEF FinalizeBatch, End

\* Shape survives the final UPDATE.
LEMMA FinalizeBatchShape ==
  ASSUME Shape, NEW b \in Batches, FinalizeBatch(b)
  PROVE  Shape'
  <1>1. /\ Turn(b) /\ run'[b].at = "ended" /\ run[b].at = "finishing"
        /\ UNCHANGED <<run[b].sent, run[b].failed, delivered, late>>
    BY FinalizeBatchTurns DEF FinalizeBatch, Runs, history, Shape
  <1>2. row' \in [Batches -> Row]
    <2>1. Reckoning(run[b], run[b].verdict, run[b].verdict = "cancelled") \in Row
      BY <1>1, ReckoningType DEF Shape, TypeOK, Sound, Statuses, Terminal
    <2>2. QED
      BY <2>1 DEF FinalizeBatch, Shape, TypeOK
  <1>3. Sound(b)'
    BY <1>1, EndSound DEF Live, Stages
  <1>4. inFlight' = [inFlight EXCEPT ![run[b].host] = @ - 1]
        /\ flag' = [flag EXCEPT ![run[b].host][b] = "unset"]
    BY FinalizeClears DEF Shape, TypeOK
  <1>5. QED
    BY <1>1, <1>2, <1>3, <1>4, EndKeepsShape DEF FinalizeBatch, Live, Stages

\* A step of a runner that keeps running and writes no mark.
LEMMA LoopKeepsShape ==
  ASSUME Shape, NEW b \in Batches, Turn(b), Sound(b)', run[b].at \in Live,
         run'[b].at \in Started, row' \in [Batches -> Row],
         delivered' \in [Batches -> 0 .. Total], late' \in [Batches -> 0 .. Total],
         \A c \in Batches : c # b => delivered'[c] = delivered[c] /\ late'[c] = late[c],
         UNCHANGED <<flag, inFlight, cancel, reap, power, session, bounds, canceller, strayed>>
  PROVE  Shape'
  <1>1. \A p \in Procs : Marked(p)'
    BY TurnMarks
  <1>2. \A p \in Procs : Counted(p)'
    BY TurnCounts DEF Started
  <1>3. QED
    BY <1>1, <1>2, TurnKeepsShape DEF Shape, TypeOK

\* Shape survives the insert.
LEMMA InsertBatchShape ==
  ASSUME Shape, NEW b \in Batches, InsertBatch(b)
  PROVE  Shape'
  <1>1. /\ Turn(b) /\ run'[b].at = "reading" /\ run[b].at = "inserting"
        /\ UNCHANGED <<run[b].sent, run[b].failed, delivered, late>>
    BY InsertBatchTurns DEF InsertBatch, Runs, history, Shape
  <1>2. row' \in [Batches -> Row]
    BY Literals DEF InsertBatch, Shape, TypeOK
  <1>3. Sound(b)'
    BY <1>1 DEF Shape, Sound, Turn, Early
  <1>4. \A p \in Procs : Counted(p)'
    BY <1>1, TurnCounts DEF InsertBatch, Live, Stages
  <1>5. \A p \in Procs, c \in Batches :
          flag'[p][c] = "go" => flag[p][c] = "go" /\ (c = b => p # run[b].host)
    BY <1>1 DEF InsertBatch, Shape, Marked, Started
  <1>6. \A p \in Procs : Marked(p)'
    BY <1>1, <1>5, EndMarks
  <1>7. QED
    BY <1>1, <1>2, <1>3, <1>4, <1>6, TurnKeepsShape DEF InsertBatch, history, Shape, TypeOK

\* Shape survives the lookup of the engine.
LEMMA FindEngineShape ==
  ASSUME Shape, NEW b \in Batches, FindEngine(b)
  PROVE  Shape'
  <1>1. /\ Turn(b) /\ run'[b].at \in {"next", "engineless"} /\ run[b].at = "starting"
        /\ UNCHANGED <<run[b].sent, run[b].failed, delivered, late>>
    BY FindEngineTurns DEF FindEngine, Runs, history, Shape
  <1>2. Sound(b)'
    BY <1>1 DEF Shape, Sound, Turn, Early
  <1>3. QED
    BY <1>1, <1>2, LoopKeepsShape
     DEF FindEngine, history, Shape, TypeOK, Started, Live, Stages

\* Shape survives the head of the loop.
LEMMA NextMessageShape ==
  ASSUME Shape, NEW b \in Batches, NextMessage(b)
  PROVE  Shape'
  <1>1. /\ Turn(b) /\ run[b].at = "next"
        /\ run'[b].at = (IF run[b].sent + run[b].failed < Total /\ flag[run[b].host][b] = "go"
                         THEN "sending" ELSE "rereading")
        /\ UNCHANGED <<run[b].sent, run[b].failed, delivered, late>>
    BY NextMessageTurns DEF NextMessage, Runs, history, Shape
  <1>2. Sound(b)'
    BY <1>1 DEF Shape, Sound, Turn, Early
  <1>3. QED
    BY <1>1, <1>2, LoopKeepsShape
     DEF NextMessage, history, Shape, TypeOK, Started, Live, Stages

\* Shape survives a sent message.
LEMMA SendMessageShape ==
  ASSUME Shape, NEW b \in Batches, SendMessage(b)
  PROVE  Shape'
  <1>1. /\ Turn(b) /\ run'[b].at \in {"saving", "next"} /\ run[b].at = "sending"
        /\ run'[b].sent = run[b].sent + 1 /\ UNCHANGED run[b].failed
    BY SendMessageTurns DEF SendMessage, Runs, AfterMessage
  <1>2. /\ run[b].sent \in 0 .. Total /\ run[b].failed \in 0 .. Total
        /\ run[b].sent + run[b].failed < Total
        /\ delivered[b] = run[b].sent /\ late[b] <= delivered[b] /\ late[b] \in 0 .. Total
        /\ run[b].host \in Procs
    BY <1>1 DEF Shape, TypeOK, Runner, Sound
  <1>3. /\ delivered' \in [Batches -> 0 .. Total] /\ delivered'[b] = delivered[b] + 1
        /\ late' \in [Batches -> 0 .. Total] /\ late'[b] \in {late[b], late[b] + 1}
        /\ \A c \in Batches : c # b => delivered'[c] = delivered[c] /\ late'[c] = late[c]
    BY <1>2, BulkAssumption DEF SendMessage, Shape, TypeOK
  <1>4. Sound(b)'
    BY <1>1, <1>2, <1>3, BulkAssumption DEF Sound, Turn, Early
  <1>5. QED
    BY <1>1, <1>3, <1>4, LoopKeepsShape DEF SendMessage, Shape, TypeOK, Started, Live, Stages

\* Shape survives a refused message.
LEMMA MessageFailsShape ==
  ASSUME Shape, NEW b \in Batches, MessageFails(b)
  PROVE  Shape'
  <1>1. /\ Turn(b) /\ run'[b].at \in {"saving", "next", "rereading"} /\ run[b].at = "sending"
        /\ run'[b].failed = run[b].failed + 1 /\ UNCHANGED <<run[b].sent, delivered, late>>
    BY MessageFailsTurns DEF MessageFails, Runs, AfterMessage, history
  <1>2. /\ run[b].sent \in 0 .. Total /\ run[b].failed \in 0 .. Total
        /\ run[b].sent + run[b].failed < Total
    BY <1>1 DEF Shape, TypeOK, Runner, Sound
  <1>3. Sound(b)'
    BY <1>1, <1>2, BulkAssumption DEF Shape, Sound, Turn, Early
  <1>4. QED
    BY <1>1, <1>3, LoopKeepsShape
     DEF MessageFails, history, Shape, TypeOK, Started, Live, Stages

\* Shape survives a checkpoint.
LEMMA SaveProgressShape ==
  ASSUME Shape, NEW b \in Batches, SaveProgress(b)
  PROVE  Shape'
  <1>1. /\ Turn(b) /\ run'[b].at \in {"rereading", "next"} /\ run[b].at = "saving"
        /\ UNCHANGED <<run[b].sent, run[b].failed, delivered, late>>
    BY SaveProgressTurns DEF SaveProgress, Runs, history, Shape
  <1>2. row' \in [Batches -> Row]
    <2>1. Reckoning(run[b], row[b].status, FALSE) \in Row
      BY ReckoningType DEF Shape, TypeOK, Sound, Row
    <2>2. row' = row \/ row' = [row EXCEPT ![b] = Reckoning(run[b], row[b].status, FALSE)]
      BY DEF SaveProgress
    <2>3. QED
      BY <2>1, <2>2 DEF Shape, TypeOK
  <1>3. Sound(b)'
    BY <1>1 DEF Shape, Sound, Turn, Early
  <1>4. QED
    BY <1>1, <1>2, <1>3, LoopKeepsShape
     DEF SaveProgress, history, Shape, TypeOK, Started, Live, Stages

\* Shape survives the last read of the row.
LEMMA ReadFinalStatusShape ==
  ASSUME Shape, NEW b \in Batches, ReadFinalStatus(b)
  PROVE  Shape'
  <1>1. /\ Turn(b) /\ run'[b].at = "settling" /\ run[b].at = "rereading"
        /\ UNCHANGED <<run[b].sent, run[b].failed, delivered, late>>
    BY ReadFinalStatusTurns DEF ReadFinalStatus, Runs, history, Shape
  <1>2. Sound(b)'
    BY <1>1 DEF Shape, Sound, Turn, Early
  <1>3. QED
    BY <1>1, <1>2, LoopKeepsShape
     DEF ReadFinalStatus, history, Shape, TypeOK, Started, Live, Stages

\* Shape survives the verdict.
LEMMA SettleShape ==
  ASSUME Shape, NEW b \in Batches, Settle(b)
  PROVE  Shape'
  <1>1. /\ Turn(b) /\ run'[b].at = "finishing" /\ run[b].at = "settling"
        /\ run'[b].verdict \in Terminal
        /\ UNCHANGED <<run[b].sent, run[b].failed, delivered, late>>
    BY SettleTurns DEF Settle, Runs, history, Shape, ResolveFinalBatchStatus, Terminal
  <1>2. Sound(b)'
    BY <1>1 DEF Shape, Sound, Turn, Early
  <1>3. QED
    BY <1>1, <1>2, LoopKeepsShape DEF Settle, history, Shape, TypeOK, Started, Live, Stages

\* The initial states have the shape.
LEMMA ShapeInit ==
  ASSUME Init
  PROVE  Shape
  <1>1. TypeOK
    <2>1. row \in [Batches -> Row] /\ run \in [Batches -> Runner]
      BY Literals DEF Init
    <2>2. cancel \in [Procs -> Cancel] /\ reap \in [Procs -> Reaper]
      BY Literals DEF Init
    <2>3. /\ flag \in [Procs -> [Batches -> {"unset", "go", "stop"}]]
          /\ inFlight \in [Procs -> Nat] /\ power \in [Procs -> {"up", "booting", "down"}]
      BY DEF Init
    <2>4. /\ owner \in Procs \cup {None} /\ expired \in BOOLEAN /\ engines \subseteq Procs
          /\ crashes \in Nat /\ lapses \in Nat /\ strayed \in BOOLEAN
      BY DEF Init
    <2>5. /\ delivered \in [Batches -> 0 .. Total] /\ late \in [Batches -> 0 .. Total]
          /\ canceller \in [Batches -> Procs \cup {None}]
      BY BulkAssumption DEF Init
    <2>6. QED
      BY <2>1, <2>2, <2>3, <2>4, <2>5 DEF TypeOK
  <1>2. Aimed
    BY DEF Init, Aimed, Idle
  <1>3. \A b \in Batches : Sound(b)
    BY BulkAssumption DEF Init, Sound, NoRunner, Early
  <1>4. \A p \in Procs : Marked(p)
    BY DEF Init, Marked
  <1>5. ASSUME NEW p \in Procs PROVE Counted(p)
    <2>1. Mine(p) = {}
      BY DEF Init, Mine, NoRunner, Live
    <2>2. QED
      BY <2>1, FS_EmptySet, BulkAssumption DEF Init, Counted
  <1>6. QED
    BY <1>1, <1>2, <1>3, <1>4, <1>5 DEF Shape

\* Shape survives a stutter.
LEMMA ShapeStutters ==
  ASSUME Shape, UNCHANGED vars
  PROVE  Shape'
  <1>1. Still
    BY UnchangedIsStill DEF vars, Shape
  <1>2. Aimed'
    BY DEF vars, Shape, Aimed
  <1>3. QED
    BY <1>1, <1>2, StillKeepsShape
     DEF vars, session, bounds, history, Shape, TypeOK, OtherTypes

\* Shape holds of every reachable state.
THEOREM BulkShape == Spec => []Shape
  <1>1. Init => Shape
    BY ShapeInit
  <1>2. Shape /\ [Next]_vars => Shape'
    <2> SUFFICES ASSUME Shape, [Next]_vars PROVE Shape'
      OBVIOUS
    <2>1. CASE \E p \in Procs : \/ StartSession(p) \/ StopSession(p) \/ LoseEngine(p)
                               \/ TakeOver(p) \/ AdoptionFails(p)
      BY <2>1, StartSessionShape, StopSessionShape, LoseEngineShape, TakeOverShape,
         AdoptionFailsShape
    <2>2. CASE \E p \in Procs : RaiseFlag(p) \/ WriteCancel(p) \/ Crash(p) \/ Boot(p)
      BY <2>2, RaiseFlagShape, WriteCancelShape, CrashShape, BootShape
    <2>3. CASE \E p \in Procs : ReaperStep(p)
      BY <2>3, OwnedByThisNodeShape, ReapProcessingBatchesShape, ReapDoneShape,
         FailOrphanedBatchShape DEF ReaperStep
    <2>4. CASE \E p \in Procs, b \in Batches : CreateBatch(p, b) \/ CancelBatch(p, b)
      BY <2>4, CreateBatchShape, CancelBatchShape
    <2>5. CASE Lapse \/ Renew
      BY <2>5, LapseShape, RenewShape
    <2>6. CASE \E b \in Batches : InsertFails(b) \/ RunnerStep(b)
      BY <2>6, InsertFailsShape, InsertBatchShape, PickUpShape, MarkBatchProcessingShape,
         FindEngineShape, FailBatchWithoutEngineShape, NextMessageShape, SendMessageShape,
         MessageFailsShape, SaveProgressShape, ReadFinalStatusShape, SettleShape,
         FinalizeBatchShape DEF RunnerStep
    <2>7. CASE UNCHANGED vars
      BY <2>7, ShapeStutters
    <2>8. QED
      BY <2>1, <2>2, <2>3, <2>4, <2>5, <2>6, <2>7 DEF Next
  <1>3. QED
    BY <1>1, <1>2, PTL DEF Spec

\* Every variable keeps its type: in particular the in-flight count never goes
\* below zero and no message is counted twice.
THEOREM BulkTypeOK == Spec => []TypeOK
  BY BulkShape, PTL DEF Shape

\* The in-flight count of a process is the number of batches it runs and stays
\* under BULK_MAX_CONCURRENT_BATCHES; no running mark outlives its batch.
THEOREM BulkRunsAreCounted == Spec => []RunsAreCounted
  <1>1. Shape => RunsAreCounted
    BY DEF Shape, Counted, Marked, Mine, Started, RunsAreCounted
  <1>2. QED
    BY <1>1, BulkShape, PTL

-------------------------------------------------------------------------------
(* A cancel at the runner's own process.                                   *)

\* A step of the loop leaves the statuses and the flags alone, and starts a
\* message only if the flag is up.
LEMMA LoopObeys ==
  ASSUME Obeyed, NEW b \in Batches, Turn(b), run[b].at \in Running, run'[b].at \in Running,
         run'[b].at = "sending" => flag[run[b].host][b] # "stop",
         \A k \in Batches : row'[k].status = row[k].status,
         UNCHANGED <<flag, cancel, reap, canceller, late>>
  PROVE  \A k \in Batches : Unstarted(k)' /\ Lowered(k)'
  <1> SUFFICES ASSUME NEW k \in Batches PROVE Unstarted(k)' /\ Lowered(k)'
    OBVIOUS
  <1>1. CASE k # b
    <2>1. run'[k] = run[k] /\ Unstarted(k) /\ Lowered(k)
      BY <1>1 DEF Turn, Obeyed
    <2>2. QED
      BY <2>1 DEF Unstarted, Lowered
  <1>2. CASE k = b
    <2>1. run'[k].host = run[k].host /\ Unstarted(k) /\ Lowered(k)
      BY <1>2 DEF Turn, Obeyed
    <2>2. Unstarted(k)'
      BY <1>2, <2>1 DEF Unstarted, Running
    <2>3. run[k].at \in Live
      BY <1>2 DEF Running, Live, Stages
    <2>4. late[k] \in Nat
      BY BulkAssumption DEF Obeyed, Shape, TypeOK
    <2>5. Lowered(k)'
      BY <1>2, <2>1, <2>3, <2>4 DEF Lowered
    <2>6. QED
      BY <2>2, <2>5
  <1>3. QED
    BY <1>1, <1>2

\* The end of a run replaces no terminal status by another kind.
LEMMA EndObeys ==
  ASSUME Obeyed, NEW b \in Batches, Turn(b), run[b].at \in Live, run'[b].at = "ended",
         \A k \in Batches :
           /\ row'[k].status = "none" => row[k].status = "none"
           /\ row[k].status \in Terminal => row'[k].status \in Terminal
           /\ k # b => row'[k].status = row[k].status
           /\ k # b => \A p \in Procs : flag'[p][k] = flag[p][k],
         UNCHANGED <<cancel, reap, canceller, late>>
  PROVE  \A k \in Batches : Unstarted(k)' /\ Lowered(k)'
  <1> SUFFICES ASSUME NEW k \in Batches PROVE Unstarted(k)' /\ Lowered(k)'
    OBVIOUS
  <1>1. CASE k # b
    <2>1. /\ run'[k] = run[k] /\ Unstarted(k) /\ Lowered(k)
          /\ row'[k].status = row[k].status /\ \A p \in Procs : flag'[p][k] = flag[p][k]
      BY <1>1 DEF Turn, Obeyed
    <2>2. canceller[k] = run[k].host /\ canceller[k] # None => run[k].host \in Procs
      BY DEF Obeyed, Shape, TypeOK
    <2>3. QED
      BY <2>1, <2>2 DEF Unstarted, Lowered
  <1>2. CASE k = b
    <2>1. run'[k].host = run[k].host /\ Unstarted(k) /\ Lowered(k)
      BY <1>2 DEF Turn, Obeyed
    <2>2. Unstarted(k)'
      BY <1>2, <2>1 DEF Unstarted
    <2>3. late[k] \in Nat
      BY BulkAssumption DEF Obeyed, Shape, TypeOK
    <2>4. Lowered(k)'
      BY <1>2, <2>1, <2>3 DEF Lowered, Live
    <2>5. QED
      BY <2>2, <2>4
  <1>3. QED
    BY <1>1, <1>2

\* The marks a run leaves alone.
LEMMA MarkCleared ==
  ASSUME Shape, NEW b \in Batches, run[b].host \in Procs, NEW m \in {"unset", "go"},
         flag' = [flag EXCEPT ![run[b].host][b] = m]
  PROVE  \A p \in Procs, k \in Batches :
           flag'[p][k] = IF p = run[b].host /\ k = b THEN m ELSE flag[p][k]
  BY DEF Shape, TypeOK

\* What Obeyed says of a batch survives the lookup of the engine.
LEMMA FindEngineObeyed ==
  ASSUME Obeyed, NEW b \in Batches, FindEngine(b)
  PROVE  \A k \in Batches : Unstarted(k)' /\ Lowered(k)'
  <1>1. /\ Turn(b) /\ run[b].at = "starting" /\ run'[b].at \in {"next", "engineless"}
        /\ UNCHANGED <<row, flag, cancel, reap, canceller, late>>
    BY FindEngineTurns DEF FindEngine, Runs, history, Obeyed, Shape
  <1>2. QED
    BY <1>1, LoopObeys DEF Running

\* What Obeyed says of a batch survives the head of the loop.
LEMMA NextMessageObeyed ==
  ASSUME Obeyed, NEW b \in Batches, NextMessage(b)
  PROVE  \A k \in Batches : Unstarted(k)' /\ Lowered(k)'
  <1>1. /\ Turn(b) /\ run[b].at = "next" /\ run'[b].at \in {"sending", "rereading"}
        /\ run'[b].at = "sending" => flag[run[b].host][b] # "stop"
        /\ UNCHANGED <<row, flag, cancel, reap, canceller, late>>
    BY NextMessageTurns DEF NextMessage, Runs, history, Obeyed, Shape
  <1>2. QED
    BY <1>1, LoopObeys DEF Running

\* What Obeyed says of a batch survives a refused message.
LEMMA MessageFailsObeyed ==
  ASSUME Obeyed, NEW b \in Batches, MessageFails(b)
  PROVE  \A k \in Batches : Unstarted(k)' /\ Lowered(k)'
  <1>1. /\ Turn(b) /\ run[b].at = "sending" /\ run'[b].at \in {"next", "saving", "rereading"}
        /\ UNCHANGED <<row, flag, cancel, reap, canceller, late>>
    BY MessageFailsTurns DEF MessageFails, Runs, AfterMessage, history, Obeyed
  <1>2. QED
    BY <1>1, LoopObeys DEF Running

\* What Obeyed says of a batch survives a checkpoint.
LEMMA SaveProgressObeyed ==
  ASSUME Obeyed, NEW b \in Batches, SaveProgress(b)
  PROVE  \A k \in Batches : Unstarted(k)' /\ Lowered(k)'
  <1>1. /\ Turn(b) /\ run[b].at = "saving" /\ run'[b].at \in {"next", "rereading"}
        /\ UNCHANGED <<flag, cancel, reap, canceller, late>>
    BY SaveProgressTurns DEF SaveProgress, Runs, history, Obeyed, Shape
  <1>2. \A k \in Batches : row'[k].status = row[k].status
    <2>1. row' = row \/ row' = [row EXCEPT ![b] = Reckoning(run[b], row[b].status, FALSE)]
      BY DEF SaveProgress
    <2>2. Reckoning(run[b], row[b].status, FALSE).status = row[b].status
      BY DEF Reckoning
    <2>3. QED
      BY <2>1, <2>2 DEF Obeyed, Shape, TypeOK
  <1>3. QED
    BY <1>1, <1>2, LoopObeys DEF Running

\* What Obeyed says of a batch survives the last read of the row.
LEMMA ReadFinalStatusObeyed ==
  ASSUME Obeyed, NEW b \in Batches, ReadFinalStatus(b)
  PROVE  \A k \in Batches : Unstarted(k)' /\ Lowered(k)'
  <1>1. /\ Turn(b) /\ run[b].at = "rereading" /\ run'[b].at = "settling"
        /\ UNCHANGED <<row, flag, cancel, reap, canceller, late>>
    BY ReadFinalStatusTurns DEF ReadFinalStatus, Runs, history, Obeyed, Shape
  <1>2. QED
    BY <1>1, LoopObeys DEF Running

\* What Obeyed says of a batch survives the verdict.
LEMMA SettleObeyed ==
  ASSUME Obeyed, NEW b \in Batches, Settle(b)
  PROVE  \A k \in Batches : Unstarted(k)' /\ Lowered(k)'
  <1>1. /\ Turn(b) /\ run[b].at = "settling" /\ run'[b].at = "finishing"
        /\ UNCHANGED <<row, flag, cancel, reap, canceller, late>>
    BY SettleTurns DEF Settle, Runs, history, Obeyed, Shape
  <1>2. QED
    BY <1>1, LoopObeys DEF Running

\* What Obeyed says of a batch survives a sent message.
LEMMA SendMessageObeyed ==
  ASSUME Obeyed, NEW b \in Batches, SendMessage(b)
  PROVE  \A k \in Batches : Unstarted(k)' /\ Lowered(k)'
  <1>1. /\ Turn(b) /\ run[b].at = "sending" /\ run'[b].at \in {"next", "saving"}
        /\ UNCHANGED <<row, flag, cancel, reap, canceller>>
    BY SendMessageTurns DEF SendMessage, Runs, AfterMessage, Obeyed
  <1>2. late' = [late EXCEPT ![b] = IF canceller[b] = None THEN @ ELSE @ + 1]
    BY DEF SendMessage
  <1>3. \A k \in Batches : Unstarted(k)'
    BY <1>1 DEF Obeyed, Unstarted, Turn
  <1>4. late \in [Batches -> 0 .. Total]
    BY DEF Obeyed, Shape, TypeOK
  <1>5. Lowered(b)'
    <2>1. Lowered(b) /\ UNCHANGED run[b].host
      BY <1>1 DEF Obeyed, Turn
    <2>2. run[b].at \in Live
      BY <1>1 DEF Live, Stages
    <2>3. late[b] \in Nat /\ late'[b] = IF canceller[b] = None THEN late[b] ELSE late[b] + 1
      BY <1>2, <1>4, BulkAssumption
    <2>4. QED
      BY <1>1, <2>1, <2>2, <2>3 DEF Lowered
  <1>6. ASSUME NEW k \in Batches, k # b PROVE Lowered(k)'
    <2>1. Lowered(k) /\ run'[k] = run[k] /\ late'[k] = late[k]
      BY <1>1, <1>2, <1>4, <1>6 DEF Obeyed, Turn
    <2>2. QED
      BY <1>1, <2>1 DEF Lowered
  <1>7. QED
    BY <1>3, <1>5, <1>6

\* What Obeyed says of a batch survives a failed insert.
LEMMA InsertFailsObeyed ==
  ASSUME Obeyed, NEW b \in Batches, InsertFails(b)
  PROVE  \A k \in Batches : Unstarted(k)' /\ Lowered(k)'
  <1>1. /\ Turn(b) /\ run[b].at = "inserting" /\ run'[b].at = "ended"
        /\ UNCHANGED <<row, flag, cancel, reap, canceller, late>>
    BY InsertFailsTurns DEF InsertFails, Runs, history, Obeyed, Shape
  <1>2. QED
    BY <1>1, EndObeys DEF Live, Stages

\* What Obeyed says of a batch survives the insert.
LEMMA InsertBatchObeyed ==
  ASSUME Obeyed, NEW b \in Batches, InsertBatch(b)
  PROVE  \A k \in Batches : Unstarted(k)' /\ Lowered(k)'
  <1>1. /\ Turn(b) /\ run[b].at = "inserting" /\ run'[b].at = "reading"
        /\ UNCHANGED <<flag, cancel, reap, canceller, late>>
    BY InsertBatchTurns DEF InsertBatch, Runs, history, Obeyed, Shape
  <1>2. /\ \A k \in Batches : k # b => row'[k] = row[k]
        /\ row'[b].status = "pending" /\ row[b].status = "none"
    BY <1>1 DEF InsertBatch, Obeyed, Unstarted, Shape, TypeOK, NewRow
  <1>3. ASSUME NEW k \in Batches, k # b PROVE Unstarted(k)' /\ Lowered(k)'
    <2>1. Lowered(k) /\ Unstarted(k) /\ run'[k] = run[k] /\ row'[k] = row[k]
      BY <1>1, <1>2, <1>3 DEF Obeyed, Turn
    <2>2. QED
      BY <1>1, <2>1 DEF Unstarted, Lowered
  <1>4. Unstarted(b)' /\ Lowered(b)'
    <2>1. Lowered(b) /\ Unstarted(b) /\ UNCHANGED run[b].host
      BY <1>1 DEF Obeyed, Turn
    <2>2. canceller[b] = None /\ \A p \in Procs : cancel[p].at # "idle" => cancel[p].batch # b
      BY <1>2, <2>1 DEF Unstarted, Lowered, Terminal
    <2>3. QED
      BY <1>1, <1>2, <2>1, <2>2 DEF Unstarted, Lowered
  <1>5. QED
    BY <1>3, <1>4

\* What Obeyed says of a batch survives the read of the row.
LEMMA PickUpObeyed ==
  ASSUME Obeyed, NEW b \in Batches, PickUp(b)
  PROVE  \A k \in Batches : Unstarted(k)' /\ Lowered(k)'
  <1> DEFINE quits == flag[run[b].host][b] = "stop" \/ row[b].status = "cancelled"
  <1>1. /\ Turn(b) /\ run[b].at = "reading"
        /\ run'[b].at = (IF quits THEN "ended" ELSE "marking")
        /\ UNCHANGED <<row, cancel, reap, canceller, late>>
    BY PickUpTurns DEF PickUp, Runs, history, Obeyed, Shape
  <1>2. run[b].host \in Procs
    BY <1>1 DEF Obeyed, Shape, Sound
  <1>3. PICK m \in {"unset", "go"} :
          m = (IF quits THEN "unset" ELSE "go") /\ flag' = [flag EXCEPT ![run[b].host][b] = m]
    BY DEF PickUp, End
  <1>4. \A p \in Procs, k \in Batches :
          flag'[p][k] = IF p = run[b].host /\ k = b THEN m ELSE flag[p][k]
    BY <1>2, <1>3, MarkCleared DEF Obeyed
  <1>5. CASE quits
    BY <1>1, <1>3, <1>4, <1>5, EndObeys DEF Live, Stages
  <1>6. CASE ~quits
    <2>1. ASSUME NEW k \in Batches, k # b PROVE Unstarted(k)' /\ Lowered(k)'
      <3>1. /\ Lowered(k) /\ Unstarted(k) /\ run'[k] = run[k]
            /\ \A p \in Procs : flag'[p][k] = flag[p][k]
        BY <1>1, <1>4, <2>1 DEF Obeyed, Turn
      <3>2. canceller[k] # None => canceller[k] \in Procs
        BY DEF Obeyed, Shape, TypeOK
      <3>3. QED
        BY <1>1, <3>1, <3>2 DEF Unstarted, Lowered
    <2>2. Unstarted(b)' /\ Lowered(b)'
      <3>1. Lowered(b) /\ Unstarted(b) /\ UNCHANGED run[b].host
        BY <1>1 DEF Obeyed, Turn
      <3>2. /\ row[b].status = "pending" /\ flag[run[b].host][b] # "stop"
            /\ run[b].at \in Live
        BY <1>1, <1>6, <3>1 DEF Unstarted, Live, Stages
      <3>3. canceller[b] = None
        BY <3>1, <3>2 DEF Lowered, Terminal
      <3>4. ~\E p \in Procs : cancel[p].at = "writing" /\ cancel[p].batch = b /\ run[b].host = p
        BY <3>1, <3>2 DEF Lowered
      <3>5. QED
        BY <1>1, <1>3, <1>6, <3>1, <3>2, <3>3, <3>4 DEF Unstarted, Lowered
    <2>3. QED
      BY <2>1, <2>2
  <1>7. QED
    BY <1>5, <1>6

\* What Obeyed says of a batch survives the guarded start UPDATE.
LEMMA MarkBatchProcessingObeyed ==
  ASSUME Obeyed, NEW b \in Batches, MarkBatchProcessing(b)
  PROVE  \A k \in Batches : Unstarted(k)' /\ Lowered(k)'
  <1>1. /\ Turn(b) /\ run[b].at = "marking"
        /\ run'[b].at = (IF row[b].status = "cancelled" THEN "ended" ELSE "starting")
        /\ UNCHANGED <<cancel, reap, canceller, late>>
    BY MarkBatchProcessingTurns DEF MarkBatchProcessing, Runs, history, Obeyed, Shape
  <1>2. CASE row[b].status = "cancelled"
    <2>1. run[b].host \in Procs
      BY <1>1 DEF Obeyed, Shape, Sound
    <2>2. UNCHANGED row /\ flag' = [flag EXCEPT ![run[b].host][b] = "unset"]
      BY <1>2 DEF MarkBatchProcessing, End
    <2>3. \A p \in Procs, k \in Batches :
            flag'[p][k] = IF p = run[b].host /\ k = b THEN "unset" ELSE flag[p][k]
      BY <2>1, <2>2, MarkCleared DEF Obeyed
    <2>4. QED
      BY <1>1, <1>2, <2>2, <2>3, EndObeys DEF Live, Stages
  <1>3. CASE row[b].status # "cancelled"
    <2>1. UNCHANGED flag /\ row' = [row EXCEPT ![b].status = "processing"]
      BY <1>3 DEF MarkBatchProcessing
    <2>2. row'[b].status = "processing" /\ \A k \in Batches : k # b => row'[k] = row[k]
      BY <2>1 DEF Obeyed, Shape, TypeOK, Row
    <2>3. ASSUME NEW k \in Batches, k # b PROVE Unstarted(k)' /\ Lowered(k)'
      <3>1. Lowered(k) /\ Unstarted(k) /\ run'[k] = run[k] /\ row'[k] = row[k]
        BY <1>1, <2>2, <2>3 DEF Obeyed, Turn
      <3>2. QED
        BY <1>1, <2>1, <3>1 DEF Unstarted, Lowered
    <2>4. Unstarted(b)' /\ Lowered(b)'
      <3>1. Lowered(b) /\ Unstarted(b) /\ UNCHANGED run[b].host
        BY <1>1 DEF Obeyed, Turn
      <3>2. canceller[b] = None /\ run[b].at \in Live
        BY <1>1, <1>3, <3>1 DEF Unstarted, Lowered, Terminal, Live, Stages
      <3>3. QED
        BY <1>1, <1>3, <2>1, <2>2, <3>1, <3>2 DEF Unstarted, Lowered
    <2>5. QED
      BY <2>3, <2>4
  <1>4. QED
    BY <1>2, <1>3

\* What Obeyed says of a batch survives the end without an engine.
LEMMA FailBatchWithoutEngineObeyed ==
  ASSUME Obeyed, NEW b \in Batches, FailBatchWithoutEngine(b)
  PROVE  \A k \in Batches : Unstarted(k)' /\ Lowered(k)'
  <1>1. /\ Turn(b) /\ run[b].at = "engineless" /\ run'[b].at = "ended"
        /\ UNCHANGED <<cancel, reap, canceller, late>>
    BY FailBatchWithoutEngineTurns DEF FailBatchWithoutEngine, Runs, history, Obeyed, Shape
  <1>2. run[b].host \in Procs
    BY <1>1 DEF Obeyed, Shape, Sound
  <1>3. \A p \in Procs, k \in Batches :
          flag'[p][k] = IF p = run[b].host /\ k = b THEN "unset" ELSE flag[p][k]
    BY <1>2, MarkCleared DEF FailBatchWithoutEngine, End, Obeyed
  <1>4. /\ \A k \in Batches : k # b => row'[k] = row[k]
        /\ row'[b].status \in {"cancelled", "failed"}
    BY DEF FailBatchWithoutEngine, Obeyed, Shape, TypeOK, Row
  <1>5. QED
    BY <1>1, <1>3, <1>4, EndObeys DEF Live, Stages, Terminal

\* What Obeyed says of a batch survives the final UPDATE.
LEMMA FinalizeBatchObeyed ==
  ASSUME Obeyed, NEW b \in Batches, FinalizeBatch(b)
  PROVE  \A k \in Batches : Unstarted(k)' /\ Lowered(k)'
  <1>1. /\ Turn(b) /\ run[b].at = "finishing" /\ run'[b].at = "ended"
        /\ UNCHANGED <<cancel, reap, canceller, late>>
    BY FinalizeBatchTurns DEF FinalizeBatch, Runs, history, Obeyed, Shape
  <1>2. run[b].host \in Procs /\ run[b].verdict \in Terminal /\ run[b] \in Runner
    BY <1>1 DEF Obeyed, Shape, Sound, TypeOK
  <1>3. \A p \in Procs, k \in Batches :
          flag'[p][k] = IF p = run[b].host /\ k = b THEN "unset" ELSE flag[p][k]
    <2>1. flag' = [flag EXCEPT ![run[b].host][b] = "unset"]
      BY <1>2, FinalizeClears
    <2>2. QED
      BY <1>2, <2>1, MarkCleared DEF Obeyed
  <1>4. /\ \A k \in Batches : k # b => row'[k] = row[k]
        /\ row'[b].status = row[b].status \/ row'[b].status \in Terminal
    <2>1. Reckoning(run[b], run[b].verdict, run[b].verdict = "cancelled").status = run[b].verdict
      BY DEF Reckoning
    <2>2. \/ row' = row
          \/ row' = [row EXCEPT ![b] = Reckoning(run[b], run[b].verdict,
                                                 run[b].verdict = "cancelled")]
      BY DEF FinalizeBatch
    <2>3. QED
      BY <1>2, <2>1, <2>2 DEF Obeyed, Shape, TypeOK
  <1>5. QED
    BY <1>1, <1>3, <1>4, EndObeys DEF Live, Stages, Terminal

\* A step that changes no status, no flag and no cancel, and moves no runner.
LEMMA StillObeys ==
  ASSUME Obeyed, Still,
         \A k \in Batches :
           /\ row'[k].status = row[k].status
           /\ run[k].at \in {"unborn", "inserting", "reading", "marking"} =>
                \A p \in Procs : k \notin reap'[p].todo,
         UNCHANGED <<flag, cancel, canceller, late>>
  PROVE  \A k \in Batches : Unstarted(k)' /\ Lowered(k)'
  <1> SUFFICES ASSUME NEW k \in Batches PROVE Unstarted(k)' /\ Lowered(k)'
    OBVIOUS
  <1>1. /\ Unstarted(k) /\ Lowered(k) /\ UNCHANGED <<run[k].at, run[k].host, row[k].status>>
    BY DEF Obeyed, Still
  <1>2. QED
    BY <1>1 DEF Unstarted, Lowered

\* A batch a reaper finds was started.
LEMMA FoundIsProcessing ==
  ASSUME Obeyed, NEW k \in Processing
  PROVE  run[k].at \notin {"unborn", "inserting", "reading", "marking"}
  BY DEF Obeyed, Unstarted, Processing

\* What Obeyed says of a batch survives starts, stops and adoptions.
LEMMA SessionObeyed ==
  ASSUME Obeyed, NEW p \in Procs,
         StartSession(p) \/ StopSession(p) \/ LoseEngine(p) \/ TakeOver(p)
  PROVE  \A k \in Batches : Unstarted(k)' /\ Lowered(k)'
  <1>1. Still
    BY UnchangedIsStill, TearDownIsStill
     DEF StartSession, StopSession, LoseEngine, TakeOver, Obeyed, Shape
  <1>2. /\ UNCHANGED <<row, flag, cancel, canceller, late>>
        /\ UNCHANGED reap \/ reap' = [reap EXCEPT ![p].at = "adopting"]
    BY DEF StartSession, StopSession, LoseEngine, TakeOver, history
  <1>3. \A q \in Procs : reap'[q].todo = reap[q].todo
    <2>1. reap \in [Procs -> Reaper] /\ [reap[p] EXCEPT !.at = "adopting"].todo = reap[p].todo
      BY DEF Obeyed, Shape, TypeOK, Reaper
    <2>2. CASE UNCHANGED reap
      BY <2>2
    <2>3. CASE reap' = [reap EXCEPT ![p].at = "adopting"]
      BY <2>1, <2>3
    <2>4. QED
      BY <1>2, <2>2, <2>3
  <1>4. QED
    BY <1>1, <1>2, <1>3, StillObeys DEF Obeyed, Unstarted

\* What Obeyed says of a batch survives a lapse or a renewal.
LEMMA LeaseObeyed ==
  ASSUME Obeyed, Lapse \/ Renew
  PROVE  \A k \in Batches : Unstarted(k)' /\ Lowered(k)'
  <1>1. Still /\ UNCHANGED <<row, flag, cancel, reap, canceller, late>>
    BY UnchangedIsStill DEF Lapse, Renew, history, Obeyed, Shape
  <1>2. QED
    BY <1>1, StillObeys DEF Obeyed, Unstarted

\* What Obeyed says of a batch survives the read of the reapers.
LEMMA BootObeyed ==
  ASSUME Obeyed, NEW p \in Procs, Boot(p) \/ ReapProcessingBatches(p)
  PROVE  \A k \in Batches : Unstarted(k)' /\ Lowered(k)'
  <1>1. Still /\ UNCHANGED <<row, flag, cancel, canceller, late>>
    BY UnchangedIsStill DEF Boot, ReapProcessingBatches, history, Obeyed, Shape
  <1>2. \A q \in Procs : reap'[q].todo = reap[q].todo \/ reap'[q].todo = Processing
    <2>1. PICK stage : reap' = [reap EXCEPT ![p] = Found(stage, Processing)]
      BY DEF Boot, ReapProcessingBatches
    <2>2. Found(stage, Processing).todo = Processing
      BY DEF Found
    <2>3. QED
      BY <2>1, <2>2 DEF Obeyed, Shape, TypeOK
  <1>3. QED
    BY <1>1, <1>2, StillObeys, FoundIsProcessing DEF Obeyed, Unstarted

\* What Obeyed says of a batch survives the check of ownership, the end of a
\* reap, and an adoption that fails.
LEMMA OwnedByThisNodeObeyed ==
  ASSUME Obeyed, NEW p \in Procs, OwnedByThisNode(p) \/ ReapDone(p) \/ AdoptionFails(p)
  PROVE  \A k \in Batches : Unstarted(k)' /\ Lowered(k)'
  <1>1. Still /\ UNCHANGED <<row, flag, cancel, canceller, late>>
    BY UnchangedIsStill, TearDownIsStill
     DEF OwnedByThisNode, ReapDone, AdoptionFails, history, Obeyed, Shape
  <1>2. \A q \in Procs : reap'[q].todo \subseteq reap[q].todo
    <2>1. /\ [reap[p] EXCEPT !.at = "saving"].todo = reap[p].todo
          /\ [Resting EXCEPT !.at = "saving"].todo = {} /\ Resting.todo = {}
          /\ reap \in [Procs -> Reaper]
      BY DEF Obeyed, Shape, TypeOK, Reaper, Resting
    <2>2. \/ reap' = [reap EXCEPT ![p] = [reap[p] EXCEPT !.at = "saving"]]
          \/ reap' = [reap EXCEPT ![p] = [Resting EXCEPT !.at = "saving"]]
          \/ reap' = [reap EXCEPT ![p] = Resting]
      BY DEF OwnedByThisNode, ReapDone, AdoptionFails
    <2>3. QED
      BY <2>1, <2>2
  <1>3. QED
    BY <1>1, <1>2, StillObeys DEF Obeyed, Unstarted

\* What the save of an orphan makes of the variables it touches.
LEMMA FailOrphanedBatchTurns ==
  ASSUME TypeOK, NEW p \in Procs, NEW b \in Batches, FailOrphanedBatch(p, b)
  PROVE  /\ \A k \in Batches : k # b => row'[k] = row[k]
         /\ row'[b].status = "failed"
         /\ \A q \in Procs : reap'[q].todo \subseteq reap[q].todo /\ reap'[q].at = reap[q].at
         /\ b \in reap[p].todo
         /\ UNCHANGED <<run, flag, cancel, power, engines, owner, expired, canceller, late>>
  <1>1. /\ \A k \in Batches : k # b => row'[k] = row[k]
        /\ row'[b].status = "failed"
    BY DEF FailOrphanedBatch, TypeOK, Reaper, Row
  <1>2. \A q \in Procs : reap'[q].todo \subseteq reap[q].todo /\ reap'[q].at = reap[q].at
    <2>1. reap' = [reap EXCEPT ![p] = [reap[p] EXCEPT !.todo = @ \ {b}, !.seen[b] = NoRow]]
      BY DEF FailOrphanedBatch
    <2>2. reap[p] \in Reaper /\ reap \in [Procs -> Reaper]
      BY DEF TypeOK
    <2>3. reap'[p].todo = reap[p].todo \ {b} /\ reap'[p].at = reap[p].at
      BY <2>1, <2>2 DEF Reaper
    <2>4. \A q \in Procs : q # p => reap'[q] = reap[q]
      BY <2>1, <2>2
    <2>5. QED
      BY <2>3, <2>4
  <1>3. QED
    BY <1>1, <1>2 DEF FailOrphanedBatch, session, history

\* What Obeyed says of a batch survives the save of an orphan.
LEMMA FailOrphanedBatchObeyed ==
  ASSUME Obeyed, NEW p \in Procs, NEW b \in Batches, FailOrphanedBatch(p, b)
  PROVE  \A k \in Batches : Unstarted(k)' /\ Lowered(k)'
  <1>1. /\ \A k \in Batches : k # b => row'[k] = row[k]
        /\ row'[b].status = "failed" /\ b \in reap[p].todo
        /\ \A q \in Procs : reap'[q].todo \subseteq reap[q].todo
        /\ UNCHANGED <<run, flag, cancel, canceller, late>>
    BY FailOrphanedBatchTurns DEF Obeyed, Shape
  <1>2. \A k \in Batches : Unstarted(k)'
    BY <1>1 DEF Obeyed, Unstarted
  <1>3. \A k \in Batches : Lowered(k)'
    BY <1>1 DEF Obeyed, Lowered, Terminal
  <1>4. QED
    BY <1>2, <1>3

\* What Obeyed says of a batch survives the read of a cancel.
LEMMA CancelBatchObeyed ==
  ASSUME Obeyed, NEW p \in Procs, NEW b \in Batches, CancelBatch(p, b)
  PROVE  \A k \in Batches : Unstarted(k)' /\ Lowered(k)'
  <1>1. /\ \A q \in Procs : q # p => cancel'[q] = cancel[q]
        /\ cancel'[p].at = "checking" /\ cancel'[p].batch = b /\ row[b].status # "none"
        /\ UNCHANGED <<row, run, flag, reap, canceller, late>>
    BY DEF CancelBatch, history, Obeyed, Shape, TypeOK
  <1>2. \A k \in Batches : Unstarted(k)'
    BY <1>1 DEF Obeyed, Unstarted
  <1>3. \A k \in Batches : Lowered(k)'
    BY <1>1 DEF Obeyed, Lowered
  <1>4. QED
    BY <1>2, <1>3

\* What Obeyed says of a batch survives the flag of a cancel.
LEMMA RaiseFlagObeyed ==
  ASSUME Obeyed, NEW p \in Procs, RaiseFlag(p)
  PROVE  \A k \in Batches : Unstarted(k)' /\ Lowered(k)'
  <1>1. PICK c \in Batches :
          /\ c = cancel[p].batch
          /\ IF cancel'[p] = Idle THEN flag' = flag ELSE flag' = [flag EXCEPT ![p][c] = "stop"]
    BY RaiseFlagTurns DEF Obeyed
  <1>2. /\ \A q \in Procs : q # p => cancel'[q] = cancel[q]
        /\ cancel'[p] # Idle => cancel'[p].at = "writing" /\ cancel'[p].batch = c
        /\ cancel[p].at # "idle"
        /\ UNCHANGED <<row, run, reap, canceller, late>>
    <2>1. /\ cancel[p].at # "idle"
          /\ UNCHANGED <<row, run, reap, canceller, late>>
      BY DEF RaiseFlag, history
    <2>2. QED
      BY <1>1, <2>1, RaiseFlagTurns DEF Obeyed
  <1>3. \A k \in Batches : Unstarted(k)'
    BY <1>1, <1>2 DEF Obeyed, Unstarted, Idle
  <1>4. \A q \in Procs, k \in Batches : flag'[q][k] = flag[q][k] \/ flag'[q][k] = "stop"
    <2>1. CASE flag' = flag
      BY <2>1
    <2>2. CASE flag' = [flag EXCEPT ![p][c] = "stop"]
      BY <2>2 DEF Obeyed, Shape, TypeOK
    <2>3. QED
      BY <1>1, <2>1, <2>2
  <1>5. cancel'[p].at = "writing" => flag'[p][c] = "stop"
    BY <1>1 DEF Idle, Obeyed, Shape, TypeOK
  <1>6. ASSUME NEW k \in Batches PROVE Lowered(k)'
    <2>1. Lowered(k)
      BY DEF Obeyed
    <2>2. \A q \in Procs : cancel'[q].at = "writing" /\ cancel'[q].batch = k =>
            flag'[q][k] = "stop" \/ (cancel[q].at = "writing" /\ cancel[q].batch = k)
      <3>1. cancel'[p].at = "writing" => cancel'[p].batch = c
        BY <1>2 DEF Idle
      <3>2. QED
        BY <1>2, <1>5, <3>1
    <2>3. canceller[k] # None => canceller[k] \in Procs
      BY DEF Obeyed, Shape, TypeOK
    <2>4. QED
      BY <1>2, <1>4, <2>1, <2>2, <2>3 DEF Lowered
  <1>7. QED
    BY <1>3, <1>6

\* What the UPDATE of a cancel makes of the variables it touches.
LEMMA WriteCancelTurns ==
  ASSUME Shape, NEW p \in Procs, WriteCancel(p)
  PROVE  /\ cancel[p].at = "writing" /\ cancel'[p] = Idle
         /\ \A q \in Procs : q # p => cancel'[q] = cancel[q]
         /\ UNCHANGED <<run, flag, inFlight, reap, power, session, bounds, delivered, late>>
         /\ \E c \in Batches :
              /\ c = cancel[p].batch
              /\ \A k \in Batches : k # c => row'[k] = row[k] /\ canceller'[k] = canceller[k]
              /\ IF row[c].status \in {"pending", "processing"}
                   THEN /\ row'[c] = [cancel[p].seen EXCEPT !.status = "cancelled", !.pending = 0,
                                                            !.cancelled = cancel[p].seen.pending]
                        /\ canceller'[c] = p
                   ELSE row'[c] = row[c] /\ canceller'[c] = canceller[c]
  <1>1. PICK c \in Batches : c = cancel[p].batch
    BY DEF WriteCancel, Shape, Aimed
  <1>2. IF row[c].status \in {"pending", "processing"}
          THEN /\ row' = [row EXCEPT ![c] = [cancel[p].seen EXCEPT !.status = "cancelled",
                                               !.pending = 0, !.cancelled = cancel[p].seen.pending]]
               /\ canceller' = [canceller EXCEPT ![c] = p]
          ELSE row' = row /\ canceller' = canceller
    BY <1>1 DEF WriteCancel
  <1>3. cancel[p].at = "writing" /\ cancel' = [cancel EXCEPT ![p] = Idle]
        /\ UNCHANGED <<run, flag, inFlight, reap, power, session, bounds, delivered, late>>
    BY DEF WriteCancel
  <1>4. QED
    BY <1>1, <1>2, <1>3 DEF Shape, TypeOK

\* A cancel writes the status CANCELLED.
LEMMA CancelledStatus ==
  ASSUME NEW r \in Row
  PROVE  [r EXCEPT !.status = "cancelled", !.pending = 0, !.cancelled = r.pending].status
           = "cancelled"
  BY DEF Row

\* What Obeyed says of a batch survives the UPDATE of a cancel.
LEMMA WriteCancelObeyed ==
  ASSUME Obeyed, NEW p \in Procs, WriteCancel(p)
  PROVE  \A k \in Batches : Unstarted(k)' /\ Lowered(k)'
  <1>1. PICK c \in Batches :
          /\ c = cancel[p].batch
          /\ \A k \in Batches : k # c => row'[k] = row[k] /\ canceller'[k] = canceller[k]
          /\ IF row[c].status \in {"pending", "processing"}
               THEN /\ row'[c] = [cancel[p].seen EXCEPT !.status = "cancelled", !.pending = 0,
                                                        !.cancelled = cancel[p].seen.pending]
                    /\ canceller'[c] = p
               ELSE row'[c] = row[c] /\ canceller'[c] = canceller[c]
    BY WriteCancelTurns DEF Obeyed
  <1>2. /\ cancel[p].at = "writing" /\ cancel'[p] = Idle
        /\ \A q \in Procs : q # p => cancel'[q] = cancel[q]
        /\ UNCHANGED <<run, flag, reap, late>>
    BY WriteCancelTurns DEF Obeyed
  <1>3. row[c].status \in {"pending", "processing"} => row'[c].status = "cancelled"
    <2>1. cancel[p].seen \in Row
      BY DEF Obeyed, Shape, TypeOK, Cancel
    <2>2. QED
      BY <1>1, <2>1, CancelledStatus
  <1>4. ASSUME NEW k \in Batches, k # c PROVE Unstarted(k)' /\ Lowered(k)'
    <2>1. Unstarted(k) /\ Lowered(k) /\ row'[k] = row[k] /\ canceller'[k] = canceller[k]
      BY <1>1, <1>4 DEF Obeyed
    <2>2. QED
      BY <1>2, <2>1 DEF Unstarted, Lowered, Idle
  <1>5. Unstarted(c)' /\ Lowered(c)'
    <2>1. Unstarted(c) /\ Lowered(c)
      BY DEF Obeyed
    <2>2. Unstarted(c)'
      BY <1>1, <1>2, <1>3, <2>1 DEF Unstarted, Idle
    <2>3. CASE row[c].status \in {"pending", "processing"}
      <3>1. canceller[c] = None /\ late[c] = 0
        BY <2>1, <2>3 DEF Lowered, Terminal
      <3>2. run[c].host = p /\ run[c].at \in Live => flag[p][c] = "stop"
        BY <1>1, <1>2, <2>1 DEF Lowered
      <3>3. canceller'[c] = p /\ row'[c].status = "cancelled" /\ p # None
        BY <1>1, <1>3, <2>3, BulkAssumption
      <3>4. QED
        BY <1>2, <2>1, <2>2, <3>1, <3>2, <3>3 DEF Lowered, Terminal, Idle
    <2>4. CASE row[c].status \notin {"pending", "processing"}
      BY <1>1, <1>2, <2>1, <2>2, <2>4 DEF Lowered, Idle
    <2>5. QED
      BY <2>3, <2>4
  <1>6. QED
    BY <1>4, <1>5

\* What Obeyed says of a batch survives createBatch.
LEMMA CreateBatchObeyed ==
  ASSUME Obeyed, NEW p \in Procs, NEW b \in Batches, CreateBatch(p, b)
  PROVE  \A k \in Batches : Unstarted(k)' /\ Lowered(k)'
  <1>1. /\ \A c \in Batches : c # b => run'[c] = run[c]
        /\ run'[b].at = "inserting" /\ run'[b].host = p /\ run[b].at = "unborn"
        /\ UNCHANGED <<row, flag, cancel, reap, canceller, late>>
    BY CreateBatchTurns DEF CreateBatch, Runs, history, Obeyed, Shape
  <1>2. ASSUME NEW k \in Batches, k # b PROVE Unstarted(k)' /\ Lowered(k)'
    <2>1. Unstarted(k) /\ Lowered(k) /\ run'[k] = run[k]
      BY <1>1, <1>2 DEF Obeyed
    <2>2. QED
      BY <1>1, <2>1 DEF Unstarted, Lowered
  <1>3. Unstarted(b)' /\ Lowered(b)'
    <2>1. Unstarted(b) /\ Lowered(b)
      BY DEF Obeyed
    <2>2. row[b].status = "none" /\ \A q \in Procs : cancel[q].at # "idle" => cancel[q].batch # b
      BY <1>1, <2>1 DEF Unstarted
    <2>3. canceller[b] = None
      BY <2>1, <2>2 DEF Lowered, Terminal
    <2>4. QED
      BY <1>1, <2>1, <2>2, <2>3 DEF Unstarted, Lowered
  <1>4. QED
    BY <1>2, <1>3

\* What Obeyed says of a batch survives a crash.
LEMMA CrashObeyed ==
  ASSUME Obeyed, NEW p \in Procs, Crash(p)
  PROVE  \A k \in Batches : Unstarted(k)' /\ Lowered(k)'
  <1>1. \A k \in Batches :
          /\ run'[k].host = run[k].host
          /\ run'[k].at = IF run[k].host = p /\ run[k].at \in Live THEN "dead" ELSE run[k].at
    BY CrashTurns DEF Obeyed, Shape
  <1>2. /\ UNCHANGED <<row, canceller, late>>
        /\ \A q \in Procs : q # p => flag'[q] = flag[q] /\ cancel'[q] = cancel[q]
                                     /\ reap'[q] = reap[q]
        /\ cancel'[p] = Idle /\ reap'[p].todo = {}
    BY DEF Crash, history, Obeyed, Shape, TypeOK, Resting
  <1>3. ASSUME NEW k \in Batches PROVE Unstarted(k)' /\ Lowered(k)'
    <2>1. Unstarted(k) /\ Lowered(k) /\ run'[k].host = run[k].host
      BY <1>1 DEF Obeyed
    <2>2. run'[k].at = run[k].at \/ run'[k].at = "dead"
      BY <1>1
    <2>3. Unstarted(k)'
      BY <1>2, <2>1, <2>2 DEF Unstarted, Idle
    <2>4. run'[k].at \in Live => run[k].host # p /\ run'[k].at = run[k].at
      BY <1>1 DEF Live
    <2>5. canceller[k] # None => canceller[k] \in Procs
      BY DEF Obeyed, Shape, TypeOK
    <2>6. late[k] \in Nat
      BY BulkAssumption DEF Obeyed, Shape, TypeOK
    <2>7. Lowered(k)'
      BY <1>2, <2>1, <2>2, <2>4, <2>5, <2>6 DEF Lowered, Idle
    <2>8. QED
      BY <2>3, <2>7
  <1>4. QED
    BY <1>3

\* Obeyed holds of every reachable state, whatever crashes and reapers do.
THEOREM BulkObeyed == Spec => []Obeyed
  <1>1. Init => Obeyed
    <2>1. Init => \A b \in Batches : Unstarted(b) /\ Lowered(b)
      BY DEF Init, NoRunner, NoRow, Idle, Resting, Unstarted, Lowered
    <2>2. QED
      BY <2>1, ShapeInit DEF Obeyed
  <1>2. Obeyed /\ Shape' /\ [Next]_vars => Obeyed'
    <2> SUFFICES ASSUME Obeyed, [Next]_vars
                 PROVE  \A k \in Batches : Unstarted(k)' /\ Lowered(k)'
      BY DEF Obeyed
    <2>1. CASE \E p \in Procs : StartSession(p) \/ StopSession(p) \/ LoseEngine(p) \/ TakeOver(p)
      BY <2>1, SessionObeyed
    <2>9. CASE \E p \in Procs : AdoptionFails(p)
      BY <2>9, OwnedByThisNodeObeyed
    <2>2. CASE \E p \in Procs : RaiseFlag(p) \/ WriteCancel(p) \/ Crash(p) \/ Boot(p)
      BY <2>2, RaiseFlagObeyed, WriteCancelObeyed, CrashObeyed, BootObeyed
    <2>3. CASE \E p \in Procs : ReaperStep(p)
      BY <2>3, OwnedByThisNodeObeyed, BootObeyed, FailOrphanedBatchObeyed DEF ReaperStep
    <2>4. CASE \E p \in Procs, b \in Batches : CreateBatch(p, b) \/ CancelBatch(p, b)
      BY <2>4, CreateBatchObeyed, CancelBatchObeyed
    <2>5. CASE Lapse \/ Renew
      BY <2>5, LeaseObeyed
    <2>6. CASE \E b \in Batches : InsertFails(b) \/ RunnerStep(b)
      BY <2>6, InsertFailsObeyed, InsertBatchObeyed, PickUpObeyed, MarkBatchProcessingObeyed,
         FindEngineObeyed, FailBatchWithoutEngineObeyed, NextMessageObeyed, SendMessageObeyed,
         MessageFailsObeyed, SaveProgressObeyed, ReadFinalStatusObeyed, SettleObeyed,
         FinalizeBatchObeyed DEF RunnerStep
    <2>7. CASE UNCHANGED vars
      BY <2>7, UnchangedIsStill, StillObeys
       DEF vars, history, Obeyed, Shape, Unstarted
    <2>8. QED
      BY <2>1, <2>2, <2>3, <2>4, <2>5, <2>6, <2>7, <2>9 DEF Next
  <1>3. QED
    BY <1>1, <1>2, BulkShape, PTL DEF Spec

\* After a cancel was answered, the process that answered it sends at most the
\* message already under way, with crashes, adoptions and reapers or without.
THEOREM BulkHomeCancelStops == Spec => []HomeCancelStops
  <1>1. Obeyed => HomeCancelStops
    <2> SUFFICES ASSUME Obeyed, NEW b \in Batches, canceller[b] # None,
                        canceller[b] = run[b].host
                 PROVE  late[b] <= 1
      BY DEF HomeCancelStops
    <2>1. late[b] <= IF run[b].at = "sending" THEN 0 ELSE 1
      BY DEF Obeyed, Lowered
    <2>2. late[b] \in Nat
      BY BulkAssumption DEF Obeyed, Shape, TypeOK
    <2>3. QED
      BY <2>1, <2>2
  <1>2. QED
    BY <1>1, BulkObeyed, PTL

-------------------------------------------------------------------------------
(* Checkpoints.                                                            *)

\* Less than Cadence messages lie between two checkpoints.
LEMMA SinceBound ==
  ASSUME NEW i \in Nat
  PROVE  Since(i) \in Nat /\ Since(i) < Cadence
  BY BulkAssumption DEF Since

\* The only multiple of c between -c and c is 0.
LEMMA SmallMultiple ==
  ASSUME NEW c \in Nat, NEW d \in Int, NEW m \in Int, m = c * d, m < c, -c < m
  PROVE  m = 0
  <1>1. CASE d >= 1
    <2>1. c * d >= c
      BY <1>1
    <2>2. QED
      BY <2>1
  <1>2. CASE d <= -1
    <2>1. c * d <= -c
      BY <1>2
    <2>2. QED
      BY <2>1
  <1>3. CASE d = 0
    BY <1>3
  <1>4. QED
    BY <1>1, <1>2, <1>3

\* After a message that is no checkpoint, one more lies behind.
LEMMA SinceNext ==
  ASSUME NEW i \in Nat, i % Cadence # 0
  PROVE  Since(i + 1) = Since(i) + 1
  <1>1. Cadence \in Nat /\ Cadence > 0
    BY BulkAssumption
  <1>2. i # 0
    BY <1>1
  <1> DEFINE q == i \div Cadence   r == i % Cadence
             u == (i - 1) \div Cadence   s == (i - 1) % Cadence
  <1>3. /\ i = Cadence * q + r /\ q \in Int /\ r \in Nat /\ r < Cadence /\ r # 0
        /\ i - 1 = Cadence * u + s /\ u \in Int /\ s \in Nat /\ s < Cadence
    BY <1>1, <1>2
  <1>4. Since(i + 1) = r /\ Since(i) = s
    BY <1>1, <1>2 DEF Since
  <1> HIDE DEF q, r, u, s
  <1>5. s - r + 1 = Cadence * (q - u)
    BY <1>1, <1>3
  <1>6. s - r + 1 = 0
    BY <1>1, <1>3, <1>5, SmallMultiple
  <1>7. QED
    BY <1>3, <1>4, <1>6

-------------------------------------------------------------------------------
(* Where no process reaps, what a row says of its runner.                  *)

\* A step of one runner is nothing to the other batches.
LEMMA Elsewhere ==
  ASSUME NEW k \in Batches, Report(k), Sound(k),
         run'[k] = run[k], row'[k] = row[k], late'[k] = late[k], canceller'[k] = canceller[k],
         \A p \in Procs : flag'[p][k] = flag[p][k],
         UNCHANGED cancel
  PROVE  Report(k)'
  <1>1. Checked(k)'
    BY DEF Report, Checked
  <1>2. Recorded(k)'
    BY DEF Report, Recorded, Behind
  <1>3. Finished(k)'
    BY DEF Report, Finished, Sound
  <1>4. Settled(k)'
    BY DEF Report, Settled
  <1>5. QED
    BY <1>1, <1>2, <1>3, <1>4 DEF Report

\* What is known of one batch.
LEMMA Facts ==
  ASSUME Obeyed, Reported, NEW b \in Batches
  PROVE  /\ Sound(b) /\ Unstarted(b) /\ Lowered(b)
         /\ Checked(b) /\ Recorded(b) /\ Finished(b) /\ Settled(b)
         /\ run[b] \in Runner /\ row[b] \in Row
         /\ run[b].sent \in Nat /\ run[b].failed \in Nat /\ late[b] \in Nat
         /\ run[b].dbCancel \in BOOLEAN /\ run[b].stopped \in BOOLEAN /\ run[b].kept \in BOOLEAN
         /\ row[b].sent \in Nat /\ row[b].failed \in Nat
         /\ row[b].pending \in Nat /\ row[b].cancelled \in Nat
  BY BulkAssumption DEF Obeyed, Reported, Report, Shape, TypeOK, Runner, Row

\* A step in the loop that leaves every row, flag and cancel alone.
LEMMA LoopReports ==
  ASSUME Obeyed, Reported, NEW b \in Batches, Turn(b),
         run[b].at \in Running, run'[b].at \in Running, run[b].sent <= run'[b].sent,
         run[b].failed <= run'[b].failed, run'[b].sent \in Nat, run'[b].failed \in Nat,
         UNCHANGED <<row, flag, cancel, canceller>>,
         \A k \in Batches : k # b => late'[k] = late[k],
         late'[b] <= IF run'[b].at \in Looping THEN Since(run'[b].sent + run'[b].failed)
                     ELSE Cadence,
         Finished(b)'
  PROVE  \A k \in Batches : Report(k)'
  <1>1. ASSUME NEW k \in Batches, k # b PROVE Report(k)'
    BY <1>1, Elsewhere, Facts DEF Reported, Turn
  <1>2. Checked(b)'
    BY Facts DEF Checked, Running, Live, Stages
  <1>3. Recorded(b)'
    <2>1. Behind(row[b], b)'
      BY Facts DEF Recorded, Behind
    <2>2. ASSUME NEW p \in Procs, cancel[p].at # "idle", cancel[p].batch = b
          PROVE  Behind(cancel[p].seen, b)'
      <3>1. cancel[p].seen.sent \in Nat /\ cancel[p].seen.failed \in Nat
        BY BulkAssumption DEF Obeyed, Shape, TypeOK, Cancel, Row
      <3>2. QED
        BY <2>2, <3>1, Facts DEF Recorded, Behind
    <2>3. QED
      BY <2>1, <2>2, Facts DEF Recorded
  <1>4. Settled(b)'
    BY DEF Settled, Running
  <1>5. QED
    BY <1>1, <1>2, <1>3, <1>4 DEF Report

\* What Reported says of a batch survives the lookup of the engine.
LEMMA FindEngineReports ==
  ASSUME Obeyed, Reported, NEW b \in Batches, FindEngine(b)
  PROVE  \A k \in Batches : Report(k)'
  <1>1. /\ Turn(b) /\ run[b].at = "starting" /\ run'[b].at \in {"next", "engineless"}
        /\ UNCHANGED <<run[b].sent, run[b].failed, row, flag, cancel, canceller, late>>
    BY FindEngineTurns DEF FindEngine, Runs, history, Obeyed, Shape
  <1>2. late[b] = 0 /\ run[b].sent + run[b].failed = 0
    BY <1>1, Facts DEF Sound, Early
  <1>3. Finished(b)'
    BY <1>1 DEF Finished
  <1>4. QED
    BY <1>1, <1>2, <1>3, LoopReports, Facts, BulkAssumption DEF Running, Since

\* What Reported says of a batch survives the head of the loop.
LEMMA NextMessageReports ==
  ASSUME Obeyed, Reported, NEW b \in Batches, NextMessage(b)
  PROVE  \A k \in Batches : Report(k)'
  <1>1. /\ Turn(b) /\ run[b].at = "next"
        /\ run'[b].at = (IF run[b].sent + run[b].failed < Total /\ flag[run[b].host][b] = "go"
                         THEN "sending" ELSE "rereading")
        /\ UNCHANGED <<run[b].sent, run[b].failed, row, flag, cancel, canceller, late>>
    BY NextMessageTurns DEF NextMessage, Runs, history, Obeyed, Shape
  <1>2. run[b].sent + run[b].failed \in Nat /\ run[b].sent + run[b].failed <= Total
    BY Facts DEF Sound
  <1>3. late[b] <= Since(run[b].sent + run[b].failed)
    BY <1>1, Facts DEF Checked, Looping
  <1>4. Since(run[b].sent + run[b].failed) \in Nat /\ Since(run[b].sent + run[b].failed) < Cadence
    BY <1>2, SinceBound
  <1>5. Finished(b)'
    BY <1>1, <1>2, BulkAssumption DEF Finished, Turn
  <1>6. QED
    BY <1>1, <1>3, <1>4, <1>5, LoopReports, Facts, BulkAssumption DEF Running

\* A message that was handled, sent or not.
LEMMA MessageReports ==
  ASSUME Obeyed, Reported, NEW b \in Batches, SendMessage(b) \/ MessageFails(b)
  PROVE  \A k \in Batches : Report(k)'
  <1> DEFINE i == run[b].sent + run[b].failed
  <1>1. /\ Turn(b) /\ run[b].at = "sending"
        /\ \/ run'[b].sent = run[b].sent + 1 /\ run'[b].failed = run[b].failed
           \/ run'[b].sent = run[b].sent /\ run'[b].failed = run[b].failed + 1
        /\ run'[b].at = AfterMessage(i) \/ (run'[b].at = "rereading" /\ run'[b].stopped)
        /\ UNCHANGED <<row, flag, cancel, canceller>>
    <2>1. CASE SendMessage(b)
      BY <2>1, SendMessageTurns DEF SendMessage, Runs, Obeyed
    <2>2. CASE MessageFails(b)
      BY <2>2, MessageFailsTurns DEF MessageFails, Runs, history, Obeyed
    <2>3. QED
      BY <2>1, <2>2
  <1>2. /\ i \in Nat /\ i < Total /\ late[b] \in Nat /\ late[b] <= Since(i)
        /\ run[b].sent \in Nat /\ run[b].failed \in Nat
    BY <1>1, Facts DEF Sound, Checked, Looping
  <1>3. /\ late'[b] \in {late[b], late[b] + 1}
        /\ \A k \in Batches : k # b => late'[k] = late[k]
    <2>1. late \in [Batches -> 0 .. Total]
      BY DEF Obeyed, Shape, TypeOK
    <2>2. CASE SendMessage(b)
      BY <2>1, <2>2 DEF SendMessage
    <2>3. CASE MessageFails(b)
      BY <2>3 DEF MessageFails, history
    <2>4. QED
      BY <2>2, <2>3
  <1>4. run'[b].sent + run'[b].failed = i + 1 /\ run'[b].sent \in Nat /\ run'[b].failed \in Nat
    BY <1>1, <1>2
  <1>5. Since(i) \in Nat /\ Since(i) < Cadence /\ late'[b] \in Nat /\ late'[b] <= Since(i) + 1
    BY <1>2, <1>3, SinceBound
  <1>6. run'[b].at \in {"next", "saving", "rereading"}
    BY <1>1 DEF AfterMessage
  <1>7. late'[b] <= IF run'[b].at \in Looping THEN Since(run'[b].sent + run'[b].failed)
                    ELSE Cadence
    <2>1. CASE run'[b].at = "next"
      <3>1. i % Cadence # 0
        BY <1>1, <2>1 DEF AfterMessage, AtCheckpoint
      <3>2. Since(i + 1) = Since(i) + 1
        BY <1>2, <3>1, SinceNext
      <3>3. QED
        BY <1>4, <1>5, <2>1, <3>2 DEF Looping
    <2>2. CASE run'[b].at # "next"
      BY <1>5, <1>6, <2>2, BulkAssumption DEF Looping
    <2>3. QED
      BY <2>1, <2>2
  <1>8. Finished(b)'
    BY <1>1, <1>6 DEF Finished, AfterMessage
  <1>9. run[b].sent <= run'[b].sent /\ run[b].failed <= run'[b].failed
    BY <1>1, <1>2
  <1>10. run[b].at \in Running /\ run'[b].at \in Running
    BY <1>1, <1>6 DEF Running
  <1> HIDE DEF i
  <1>11. QED
    BY <1>1, <1>3, <1>4, <1>7, <1>8, <1>9, <1>10, LoopReports

\* What Reported says of a batch survives the last read of the row.
LEMMA ReadFinalStatusReports ==
  ASSUME Obeyed, Reported, NEW b \in Batches, ReadFinalStatus(b)
  PROVE  \A k \in Batches : Report(k)'
  <1>1. /\ Turn(b) /\ run[b].at = "rereading" /\ run'[b].at = "settling"
        /\ run[b].dbCancel => run'[b].dbCancel
        /\ UNCHANGED <<run[b].sent, run[b].failed, run[b].stopped, row, flag, cancel,
                       canceller, late>>
    BY ReadFinalStatusTurns, Facts DEF ReadFinalStatus, Runs, history, Obeyed, Shape
  <1>2. Finished(b)'
    BY <1>1, Facts DEF Finished, Turn
  <1>3. late[b] <= Cadence
    BY <1>1, Facts DEF Checked, Looping
  <1>4. QED
    BY <1>1, <1>2, <1>3, LoopReports, Facts DEF Running, Looping

\* What Reported says of a batch survives the verdict.
LEMMA SettleReports ==
  ASSUME Obeyed, Reported, NEW b \in Batches, Settle(b)
  PROVE  \A k \in Batches : Report(k)'
  <1>1. /\ Turn(b) /\ run[b].at = "settling" /\ run'[b].at = "finishing"
        /\ run'[b].verdict = "completed" =>
             /\ ~run[b].dbCancel /\ ~run[b].stopped /\ flag[run[b].host][b] = "go"
        /\ UNCHANGED <<run[b].sent, run[b].failed, row, flag, cancel, canceller, late>>
    <2>1. /\ Turn(b) /\ run'[b].at = "finishing"
          /\ run'[b].verdict = ResolveFinalBatchStatus(run[b].dbCancel \/ flag[run[b].host][b] # "go",
                                                       run[b])
          /\ UNCHANGED <<run[b].sent, run[b].failed>>
      BY SettleTurns DEF Obeyed, Shape
    <2>2. run'[b].verdict = "completed" =>
            /\ ~run[b].dbCancel /\ ~run[b].stopped /\ flag[run[b].host][b] = "go"
      BY <2>1, Facts DEF ResolveFinalBatchStatus
    <2>3. QED
      BY <2>1, <2>2 DEF Settle, Runs, history
  <1>2. Finished(b)'
    BY <1>1, Facts DEF Finished
  <1>3. late[b] <= Cadence
    BY <1>1, Facts DEF Checked, Looping
  <1>4. QED
    BY <1>1, <1>2, <1>3, LoopReports, Facts DEF Running, Looping

\* What Reported says of a batch survives a checkpoint.
LEMMA SaveProgressReports ==
  ASSUME Obeyed, Reported, NEW b \in Batches, SaveProgress(b)
  PROVE  \A k \in Batches : Report(k)'
  <1>1. /\ Turn(b) /\ run[b].at = "saving"
        /\ run'[b].at = (IF row[b].status = "cancelled" THEN "rereading" ELSE "next")
        /\ run'[b].dbCancel = (IF row[b].status = "cancelled" THEN TRUE ELSE run[b].dbCancel)
        /\ UNCHANGED <<run[b].sent, run[b].failed, flag, cancel, canceller, late>>
    BY SaveProgressTurns DEF SaveProgress, Runs, history, Obeyed, Shape
  <1>2. CASE row[b].status = "cancelled"
    <2>1. UNCHANGED row
      BY <1>2 DEF SaveProgress
    <2>2. Finished(b)'
      BY <1>1, <1>2 DEF Finished
    <2>3. late[b] <= Cadence
      BY <1>1, Facts DEF Checked, Looping
    <2>4. QED
      BY <1>1, <1>2, <2>1, <2>2, <2>3, LoopReports, Facts DEF Running, Looping
  <1>3. CASE row[b].status # "cancelled"
    <2>1. row' = [row EXCEPT ![b] = Reckoning(run[b], row[b].status, FALSE)]
      BY <1>3 DEF SaveProgress
    <2>2. /\ \A k \in Batches : k # b => row'[k] = row[k]
          /\ row'[b].status = row[b].status
          /\ row'[b].sent = run[b].sent /\ row'[b].failed = run[b].failed
          /\ row'[b].pending = Total - run[b].sent - run[b].failed /\ row'[b].cancelled = 0
      BY <2>1 DEF Reckoning, Obeyed, Shape, TypeOK
    <2>3. ASSUME NEW k \in Batches, k # b PROVE Report(k)'
      BY <1>1, <2>2, <2>3, Elsewhere, Facts DEF Reported, Turn
    <2>4. canceller[b] = None /\ late[b] = 0
      BY <1>1, <1>3, Facts DEF Checked, Lowered, Live, Stages
    <2>5. Checked(b)'
      <3>1. late'[b] <= IF run'[b].at \in Looping THEN Since(run'[b].sent + run'[b].failed)
                        ELSE Cadence
        BY <1>1, <1>3, <2>4, SinceBound, Facts DEF Looping
      <3>2. row[b].status = "processing"
        BY <1>1, <1>3, Facts DEF Checked, Running
      <3>3. QED
        BY <1>1, <1>3, <2>2, <2>4, <3>1, <3>2 DEF Checked
    <2>6. Recorded(b)'
      BY <1>1, <1>3, <2>2, Facts, BulkAssumption DEF Recorded, Behind
    <2>7. Finished(b)' /\ Settled(b)'
      BY <1>1, <1>3 DEF Finished, Settled
    <2>8. QED
      BY <2>3, <2>5, <2>6, <2>7 DEF Report
  <1>4. QED
    BY <1>2, <1>3

\* What Reported says of a batch survives a failed insert.
LEMMA InsertFailsReports ==
  ASSUME Obeyed, Reported, NEW b \in Batches, InsertFails(b)
  PROVE  \A k \in Batches : Report(k)'
  <1>1. /\ Turn(b) /\ run[b].at = "inserting" /\ run'[b].at = "ended"
        /\ UNCHANGED <<run[b].sent, run[b].failed, row, flag, cancel, canceller, late>>
    BY InsertFailsTurns DEF InsertFails, Runs, history, Obeyed, Shape
  <1>2. ASSUME NEW k \in Batches, k # b PROVE Report(k)'
    BY <1>1, <1>2, Elsewhere, Facts DEF Reported, Turn
  <1>3. row[b].status = "none" /\ late[b] <= Cadence
    BY <1>1, Facts DEF Unstarted, Checked, Looping
  <1>4. Checked(b)'
    BY <1>1, <1>3 DEF Checked, Running, Live, Looping
  <1>5. Recorded(b)'
    BY <1>1, Facts DEF Recorded, Behind
  <1>6. Finished(b)' /\ Settled(b)'
    BY <1>1, <1>3 DEF Finished, Settled
  <1>7. QED
    BY <1>2, <1>4, <1>5, <1>6 DEF Report

\* What Reported says of a batch survives the insert.
LEMMA InsertBatchReports ==
  ASSUME Obeyed, Reported, NEW b \in Batches, InsertBatch(b)
  PROVE  \A k \in Batches : Report(k)'
  <1>1. /\ Turn(b) /\ run[b].at = "inserting" /\ run'[b].at = "reading"
        /\ UNCHANGED <<run[b].sent, run[b].failed, flag, cancel, canceller, late>>
    BY InsertBatchTurns DEF InsertBatch, Runs, history, Obeyed, Shape
  <1>2. \A k \in Batches : row'[k] = IF k = b THEN NewRow ELSE row[k]
    BY DEF InsertBatch, Obeyed, Shape, TypeOK
  <1>3. ASSUME NEW k \in Batches, k # b PROVE Report(k)'
    BY <1>1, <1>2, <1>3, Elsewhere, Facts DEF Reported, Turn
  <1>4. /\ row[b].status = "none" /\ canceller[b] = None
        /\ \A p \in Procs : cancel[p].at # "idle" => cancel[p].batch # b
    BY <1>1, Facts DEF Unstarted, Lowered, Terminal
  <1>5. \A p \in Procs : flag[p][b] # "stop"
    BY <1>4, Facts DEF Recorded, Terminal
  <1>6. Checked(b)'
    BY <1>1, <1>4, Facts DEF Checked, Running, Looping
  <1>7. Recorded(b)'
    <2>1. Behind(row[b], b)'
      BY <1>1, <1>2, Facts, BulkAssumption DEF NewRow, Behind
    <2>2. QED
      BY <1>1, <1>2, <1>4, <1>5, <2>1 DEF Recorded, NewRow
  <1>8. Finished(b)' /\ Settled(b)'
    BY <1>1 DEF Finished, Settled
  <1>9. QED
    BY <1>3, <1>6, <1>7, <1>8 DEF Report

\* A run that ends before its first message.
LEMMA EarlyEndReports ==
  ASSUME Obeyed, Reported, NEW b \in Batches, Turn(b), run[b].at \in Early,
         run'[b].at = "ended", UNCHANGED <<run[b].sent, run[b].failed, cancel, canceller, late>>,
         \A k \in Batches : k # b => row'[k] = row[k],
         UNCHANGED <<row[b].sent, row[b].failed, row[b].pending, row[b].cancelled>>,
         row'[b].status # row[b].status => row'[b].status = "failed" /\ row[b].status # "none",
         row[b].status \in Terminal => row'[b].status = row[b].status,
         row'[b].status \notin Terminal =>
           \E p \in Procs : cancel[p].at = "writing" /\ cancel[p].batch = b,
         row[b].status # "completed",
         \A p \in Procs, k \in Batches : flag'[p][k] = flag[p][k] \/ (k = b /\ flag'[p][k] = "unset")
  PROVE  \A k \in Batches : Report(k)'
  <1>1. ASSUME NEW k \in Batches, k # b PROVE Report(k)'
    BY <1>1, Elsewhere, Facts DEF Reported, Turn
  <1>2. run[b].sent = 0 /\ run[b].failed = 0
    BY Facts DEF Sound
  <1>3. Checked(b)'
    BY <1>2, Facts, SinceBound DEF Checked, Running, Live, Looping, Early
  <1>4. row[b].sent = 0 /\ row[b].failed = 0
    BY <1>2, Facts DEF Recorded, Behind
  <1>5. Recorded(b)'
    <2>1. Behind(row[b], b)'
      BY <1>2, Facts DEF Recorded, Behind
    <2>2. \A p \in Procs : cancel[p].at # "idle" /\ cancel[p].batch = b => Behind(cancel[p].seen, b)'
      BY Facts DEF Recorded, Behind
    <2>3. row'[b].status = "cancelled" => row'[b].pending = 0
      BY Facts DEF Recorded
    <2>4. row[b].status \in Terminal => row'[b].status \in Terminal
      OBVIOUS
    <2>5. QED
      BY <2>1, <2>2, <2>3, <2>4, Facts DEF Recorded
  <1>6. Finished(b)' /\ Settled(b)'
    BY <1>2, <1>4, Facts DEF Finished, Settled, Recorded
  <1>7. QED
    BY <1>1, <1>3, <1>5, <1>6 DEF Report

\* What Reported says of a batch survives the read of the row.
LEMMA PickUpReports ==
  ASSUME Obeyed, Reported, NEW b \in Batches, PickUp(b)
  PROVE  \A k \in Batches : Report(k)'
  <1> DEFINE quits == flag[run[b].host][b] = "stop" \/ row[b].status = "cancelled"
  <1>1. /\ Turn(b) /\ run[b].at = "reading"
        /\ run'[b].at = (IF quits THEN "ended" ELSE "marking")
        /\ UNCHANGED <<run[b].sent, run[b].failed, row, cancel, canceller, late>>
    BY PickUpTurns DEF PickUp, Runs, history, Obeyed, Shape
  <1>2. run[b].host \in Procs
    BY <1>1, Facts DEF Sound
  <1>3. PICK m \in {"unset", "go"} :
          m = (IF quits THEN "unset" ELSE "go") /\ flag' = [flag EXCEPT ![run[b].host][b] = m]
    BY DEF PickUp, End
  <1>4. \A p \in Procs, k \in Batches :
          flag'[p][k] = IF p = run[b].host /\ k = b THEN m ELSE flag[p][k]
    BY <1>2, <1>3, MarkCleared DEF Obeyed
  <1>5. row[b].status \in {"pending", "cancelled"}
    BY <1>1, Facts DEF Unstarted
  <1>6. CASE quits
    <2>1. row[b].status \notin Terminal =>
            \E p \in Procs : cancel[p].at = "writing" /\ cancel[p].batch = b
      BY <1>2, <1>5, <1>6, Facts DEF Recorded, Terminal
    <2>2. \A p \in Procs, k \in Batches :
            flag'[p][k] = flag[p][k] \/ (k = b /\ flag'[p][k] = "unset")
      BY <1>3, <1>4, <1>6
    <2>3. QED
      BY <1>1, <1>5, <1>6, <2>1, <2>2, EarlyEndReports DEF Early
  <1>7. CASE ~quits
    <2>1. ASSUME NEW k \in Batches, k # b PROVE Report(k)'
      BY <1>1, <1>4, <2>1, Elsewhere, Facts DEF Reported, Turn
    <2>2. row[b].status = "pending" /\ canceller[b] = None
      BY <1>5, <1>7, Facts DEF Lowered, Terminal
    <2>3. Checked(b)'
      BY <1>1, <1>7, <2>2, Facts DEF Checked, Running, Looping
    <2>4. Recorded(b)'
      <3>1. \A p \in Procs : flag'[p][b] = "stop" => flag[p][b] = "stop"
        BY <1>4
      <3>2. QED
        BY <1>1, <3>1, Facts DEF Recorded, Behind
    <2>5. Finished(b)' /\ Settled(b)'
      BY <1>1, <1>7 DEF Finished, Settled
    <2>6. QED
      BY <2>1, <2>3, <2>4, <2>5 DEF Report
  <1>8. QED
    BY <1>6, <1>7

\* What Reported says of a batch survives the guarded start UPDATE.
LEMMA MarkBatchProcessingReports ==
  ASSUME Obeyed, Reported, NEW b \in Batches, MarkBatchProcessing(b)
  PROVE  \A k \in Batches : Report(k)'
  <1>1. /\ Turn(b) /\ run[b].at = "marking"
        /\ run'[b].at = (IF row[b].status = "cancelled" THEN "ended" ELSE "starting")
        /\ UNCHANGED <<run[b].sent, run[b].failed, cancel, canceller, late>>
    BY MarkBatchProcessingTurns DEF MarkBatchProcessing, Runs, history, Obeyed, Shape
  <1>2. CASE row[b].status = "cancelled"
    <2>1. run[b].host \in Procs
      BY <1>1, Facts DEF Sound
    <2>2. UNCHANGED row /\ flag' = [flag EXCEPT ![run[b].host][b] = "unset"]
      BY <1>2 DEF MarkBatchProcessing, End
    <2>3. \A p \in Procs, k \in Batches :
            flag'[p][k] = IF p = run[b].host /\ k = b THEN "unset" ELSE flag[p][k]
      BY <2>1, <2>2, MarkCleared DEF Obeyed
    <2>4. QED
      BY <1>1, <1>2, <2>2, <2>3, EarlyEndReports DEF Early, Terminal
  <1>3. CASE row[b].status # "cancelled"
    <2>1. UNCHANGED flag /\ row' = [row EXCEPT ![b].status = "processing"]
      BY <1>3 DEF MarkBatchProcessing
    <2>2. /\ \A k \in Batches : k # b => row'[k] = row[k]
          /\ row'[b].status = "processing"
          /\ UNCHANGED <<row[b].sent, row[b].failed, row[b].pending, row[b].cancelled>>
      BY <2>1 DEF Obeyed, Shape, TypeOK, Row
    <2>3. ASSUME NEW k \in Batches, k # b PROVE Report(k)'
      BY <1>1, <2>1, <2>2, <2>3, Elsewhere, Facts DEF Reported, Turn
    <2>4. row[b].status = "pending" /\ canceller[b] = None
      BY <1>1, <1>3, Facts DEF Unstarted, Lowered, Terminal
    <2>5. Checked(b)'
      BY <1>1, <1>3, <2>2, <2>4, Facts DEF Checked, Looping
    <2>6. Recorded(b)'
      <3>1. Behind(row[b], b)'
        BY <1>1, <2>2, <2>4, Facts DEF Recorded, Behind
      <3>2. \A p \in Procs : flag[p][b] = "stop" =>
              cancel[p].at = "writing" /\ cancel[p].batch = b
        BY <2>4, Facts DEF Recorded, Terminal
      <3>3. \A p \in Procs : cancel[p].at # "idle" /\ cancel[p].batch = b =>
              Behind(cancel[p].seen, b)'
        BY <1>1, Facts DEF Recorded, Behind
      <3>4. QED
        BY <1>1, <2>1, <2>2, <3>1, <3>2, <3>3 DEF Recorded
    <2>7. Finished(b)' /\ Settled(b)'
      BY <1>1, <1>3 DEF Finished, Settled
    <2>8. QED
      BY <2>3, <2>5, <2>6, <2>7 DEF Report
  <1>4. QED
    BY <1>2, <1>3

\* What Reported says of a batch survives the end without an engine.
LEMMA FailBatchWithoutEngineReports ==
  ASSUME Obeyed, Reported, NEW b \in Batches, FailBatchWithoutEngine(b)
  PROVE  \A k \in Batches : Report(k)'
  <1>1. /\ Turn(b) /\ run[b].at = "engineless" /\ run'[b].at = "ended"
        /\ UNCHANGED <<run[b].sent, run[b].failed, cancel, canceller, late>>
    BY FailBatchWithoutEngineTurns DEF FailBatchWithoutEngine, Runs, history, Obeyed, Shape
  <1>2. run[b].host \in Procs /\ row[b].status \in {"processing", "cancelled"}
    BY <1>1, Facts DEF Sound, Checked, Running
  <1>3. \A p \in Procs, k \in Batches :
          flag'[p][k] = IF p = run[b].host /\ k = b THEN "unset" ELSE flag[p][k]
    BY <1>2, MarkCleared DEF FailBatchWithoutEngine, End, Obeyed
  <1>4. /\ \A k \in Batches : k # b => row'[k] = row[k]
        /\ UNCHANGED <<row[b].sent, row[b].failed, row[b].pending, row[b].cancelled>>
        /\ row'[b].status = IF row[b].status = "cancelled" THEN "cancelled" ELSE "failed"
    BY DEF FailBatchWithoutEngine, Obeyed, Shape, TypeOK, Row
  <1>5. QED
    BY <1>1, <1>2, <1>3, <1>4, EarlyEndReports DEF Early, Terminal

\* What Reported says of a batch survives the final UPDATE.
LEMMA FinalizeBatchReports ==
  ASSUME Obeyed, Reported, NEW b \in Batches, FinalizeBatch(b)
  PROVE  \A k \in Batches : Report(k)'
  <1> DEFINE keep == run[b].verdict = "cancelled" \/ row[b].status # "cancelled"
  <1>1. /\ Turn(b) /\ run[b].at = "finishing" /\ run'[b].at = "ended"
        /\ run'[b].kept = keep
        /\ UNCHANGED <<run[b].sent, run[b].failed, cancel, canceller, late>>
    BY FinalizeBatchTurns DEF FinalizeBatch, Runs, history, Obeyed, Shape
  <1>2. run[b].host \in Procs /\ run[b].verdict \in Terminal
    BY <1>1, Facts DEF Sound
  <1>3. \A p \in Procs, k \in Batches :
          flag'[p][k] = IF p = run[b].host /\ k = b THEN "unset" ELSE flag[p][k]
    <2>1. flag' = [flag EXCEPT ![run[b].host][b] = "unset"]
      BY Facts, FinalizeClears
    <2>2. QED
      BY <1>2, <2>1, MarkCleared DEF Obeyed
  <1>4. late[b] <= Cadence
    BY <1>1, Facts DEF Checked, Looping
  <1>5. CASE ~keep
    <2>1. UNCHANGED row
      BY <1>5 DEF FinalizeBatch
    <2>2. ASSUME NEW k \in Batches, k # b PROVE Report(k)'
      BY <1>1, <1>3, <2>1, <2>2, Elsewhere, Facts DEF Reported, Turn
    <2>3. Checked(b)'
      BY <1>1, <1>4 DEF Checked, Running, Live, Looping
    <2>4. Recorded(b)'
      BY <1>1, <1>3, <2>1, Facts DEF Recorded, Behind
    <2>5. Finished(b)' /\ Settled(b)'
      BY <1>1, <1>5 DEF Finished, Settled
    <2>6. QED
      BY <2>2, <2>3, <2>4, <2>5 DEF Report
  <1>6. CASE keep
    <2>1. row' = [row EXCEPT ![b] = Reckoning(run[b], run[b].verdict,
                                              run[b].verdict = "cancelled")]
      BY <1>6 DEF FinalizeBatch
    <2>2. /\ \A k \in Batches : k # b => row'[k] = row[k]
          /\ row'[b].status = run[b].verdict
          /\ row'[b].sent = run[b].sent /\ row'[b].failed = run[b].failed
          /\ row'[b].pending = (IF run[b].verdict = "cancelled" THEN 0
                                ELSE Total - run[b].sent - run[b].failed)
          /\ row'[b].cancelled = (IF run[b].verdict = "cancelled"
                                  THEN Total - run[b].sent - run[b].failed ELSE 0)
      BY <2>1 DEF Reckoning, Obeyed, Shape, TypeOK
    <2>3. ASSUME NEW k \in Batches, k # b PROVE Report(k)'
      BY <1>1, <1>3, <2>2, <2>3, Elsewhere, Facts DEF Reported, Turn
    <2>4. Checked(b)'
      BY <1>1, <1>4 DEF Checked, Running, Live, Looping
    <2>5. Recorded(b)'
      <3>1. Behind(row[b], b)'
        BY <1>1, <1>2, <2>2, Facts, BulkAssumption DEF Behind, Terminal
      <3>2. \A p \in Procs : cancel[p].at # "idle" /\ cancel[p].batch = b =>
              Behind(cancel[p].seen, b)'
        BY <1>1, Facts DEF Recorded, Behind
      <3>3. QED
        BY <1>1, <1>2, <2>2, <3>1, <3>2 DEF Recorded
    <2>6. Finished(b)'
      BY <1>1 DEF Finished
    <2>7. Settled(b)'
      <3>1. run[b].verdict = "completed" => run[b].sent + run[b].failed = Total
        BY <1>1, Facts DEF Finished
      <3>2. QED
        BY <1>1, <1>2, <2>2, <3>1, Facts, BulkAssumption DEF Settled
    <2>8. QED
      BY <2>3, <2>4, <2>5, <2>6, <2>7 DEF Report
  <1>7. QED
    BY <1>5, <1>6

\* A step that changes no row, flag or cancel, and moves no runner.
LEMMA StillReports ==
  ASSUME Obeyed, Reported, Still, UNCHANGED <<row, flag, cancel, canceller, late>>
  PROVE  \A k \in Batches : Report(k)'
  <1> SUFFICES ASSUME NEW k \in Batches PROVE Report(k)'
    OBVIOUS
  <1>1. UNCHANGED <<run[k].at, run[k].host, run[k].sent, run[k].failed, run[k].stopped,
                    run[k].dbCancel, run[k].verdict, run[k].kept>>
    BY DEF Still
  <1>2. Checked(k)'
    BY <1>1, Facts DEF Checked
  <1>3. Recorded(k)'
    BY <1>1, Facts DEF Recorded, Behind
  <1>4. Finished(k)'
    BY <1>1, Facts DEF Finished
  <1>5. Settled(k)'
    BY <1>1, Facts DEF Settled
  <1>6. QED
    BY <1>2, <1>3, <1>4, <1>5 DEF Report

\* Starts, stops and lost or lapsed claims.
LEMMA SessionReports ==
  ASSUME Obeyed, Reported,
         Lapse \/ Renew \/ \E p \in Procs : StartSession(p) \/ StopSession(p) \/ LoseEngine(p)
  PROVE  /\ \A k \in Batches : Report(k)'
         /\ UNCHANGED <<cancel, reap, power>>
  <1>1. Still
    BY UnchangedIsStill, TearDownIsStill
     DEF Lapse, Renew, StartSession, StopSession, LoseEngine, Obeyed, Shape
  <1>2. UNCHANGED <<row, flag, cancel, reap, power, canceller, late>>
    BY DEF Lapse, Renew, StartSession, StopSession, LoseEngine, history
  <1>3. QED
    BY <1>1, <1>2, StillReports

\* What Reported says of a batch survives createBatch.
LEMMA CreateBatchReports ==
  ASSUME Obeyed, Reported, NEW p \in Procs, NEW b \in Batches, CreateBatch(p, b)
  PROVE  \A k \in Batches : Report(k)'
  <1>1. /\ \A k \in Batches : k # b => run'[k] = run[k]
        /\ run'[b].at = "inserting" /\ run'[b].sent = 0 /\ run'[b].failed = 0
        /\ run[b].at = "unborn"
        /\ UNCHANGED <<row, flag, cancel, canceller, late>>
    BY CreateBatchTurns DEF CreateBatch, Runs, history, Obeyed, Shape
  <1>2. ASSUME NEW k \in Batches, k # b PROVE Report(k)'
    BY <1>1, <1>2, Elsewhere, Facts DEF Reported
  <1>3. /\ run[b].sent = 0 /\ run[b].failed = 0 /\ row[b].status = "none"
        /\ canceller[b] = None /\ late[b] = 0
    BY <1>1, Facts DEF Sound, Early, Unstarted, Lowered, Terminal
  <1>4. Checked(b)'
    BY <1>1, <1>3, BulkAssumption DEF Checked, Running, Looping
  <1>5. Recorded(b)'
    BY <1>1, <1>3, Facts DEF Recorded, Behind
  <1>6. Finished(b)' /\ Settled(b)'
    BY <1>1 DEF Finished, Settled
  <1>7. QED
    BY <1>2, <1>4, <1>5, <1>6 DEF Report

\* What Reported says of a batch survives the read of a cancel.
LEMMA CancelBatchReports ==
  ASSUME Obeyed, Reported, NEW p \in Procs, NEW b \in Batches, CancelBatch(p, b)
  PROVE  /\ \A k \in Batches : Report(k)'
         /\ \A q \in Procs : Asked(q)'
  <1>1. /\ \A q \in Procs : q # p => cancel'[q] = cancel[q]
        /\ cancel'[p].at = "checking" /\ cancel'[p].batch = b /\ cancel'[p].seen = row[b]
        /\ cancel[p].at = "idle" /\ row[b].status # "none"
        /\ UNCHANGED <<row, run, flag, canceller, late>>
    BY DEF CancelBatch, history, Obeyed, Shape, TypeOK
  <1>2. ASSUME NEW k \in Batches PROVE Report(k)'
    <2>1. Checked(k)' /\ Finished(k)'
      BY <1>1, Facts DEF Checked, Finished
    <2>2. Recorded(k)'
      <3>1. \A q \in Procs : cancel'[q].at # "idle" /\ cancel'[q].batch = k =>
              Behind(cancel'[q].seen, k)
        BY <1>1, Facts DEF Recorded
      <3>2. \A q \in Procs : cancel[q].at = "writing" => cancel'[q] = cancel[q]
        BY <1>1
      <3>3. QED
        BY <1>1, <3>1, <3>2, Facts DEF Recorded, Behind
    <2>3. Settled(k)'
      <3>1. \A q \in Procs : cancel[q].at = "writing" => cancel'[q] = cancel[q]
        BY <1>1
      <3>2. QED
        BY <1>1, <3>1, Facts DEF Settled
    <2>4. QED
      BY <2>1, <2>2, <2>3 DEF Report
  <1>3. \A q \in Procs : Asked(q)'
    BY <1>1 DEF Reported, Asked
  <1>4. QED
    BY <1>2, <1>3

\* What Reported says of a batch survives the flag of a cancel.
LEMMA RaiseFlagReports ==
  ASSUME Obeyed, Reported, NEW p \in Procs, RaiseFlag(p)
  PROVE  /\ \A k \in Batches : Report(k)'
         /\ \A q \in Procs : Asked(q)'
  <1>1. PICK c \in Batches :
          /\ c = cancel[p].batch
          /\ IF cancel'[p] = Idle THEN flag' = flag ELSE flag' = [flag EXCEPT ![p][c] = "stop"]
    BY RaiseFlagTurns DEF Obeyed
  <1>2. /\ \A q \in Procs : q # p => cancel'[q] = cancel[q]
        /\ cancel'[p] = Idle \/
             /\ cancel[p].seen.status \notin Terminal
             /\ cancel'[p].at = "writing" /\ cancel'[p].batch = cancel[p].batch
             /\ cancel'[p].seen = cancel[p].seen
        /\ cancel[p].at = "checking"
        /\ UNCHANGED <<row, run, canceller, late>>
    <2>1. cancel[p].at = "checking" /\ UNCHANGED <<row, run, canceller, late>>
      BY DEF RaiseFlag, history
    <2>2. QED
      BY <2>1, RaiseFlagTurns DEF Obeyed
  <1>3. \A q \in Procs, k \in Batches :
          \/ flag'[q][k] = flag[q][k]
          \/ flag'[q][k] = "stop" /\ q = p /\ k = c /\ cancel'[p].at = "writing"
             /\ cancel'[p].batch = c
    <2>1. CASE cancel'[p] = Idle
      BY <1>1, <2>1
    <2>2. CASE cancel'[p] # Idle
      BY <1>1, <1>2, <2>2 DEF Obeyed, Shape, TypeOK
    <2>3. QED
      BY <2>1, <2>2
  <1>4. \A q \in Procs : cancel[q].at = "writing" => cancel'[q] = cancel[q]
    BY <1>2
  <1>5. ASSUME NEW k \in Batches PROVE Report(k)'
    <2>1. Checked(k)'
      BY <1>2, Facts DEF Checked
    <2>2. Recorded(k)'
      <3>1. \A q \in Procs : cancel'[q].at # "idle" /\ cancel'[q].batch = k =>
              Behind(cancel'[q].seen, k)
        BY <1>1, <1>2, Facts DEF Recorded, Idle
      <3>2. \A q \in Procs : flag'[q][k] = "stop" =>
              row[k].status \in Terminal \/ (cancel'[q].at = "writing" /\ cancel'[q].batch = k)
        BY <1>3, <1>4, Facts DEF Recorded
      <3>3. QED
        BY <1>2, <3>1, <3>2, Facts DEF Recorded, Behind
    <2>3. Finished(k)'
      <3>1. run[k].at # "unborn" => run[k].host \in Procs
        BY Facts DEF Sound
      <3>2. QED
        BY <1>2, <1>3, <3>1, Facts DEF Finished
    <2>4. Settled(k)'
      BY <1>2, <1>4, Facts DEF Settled
    <2>5. QED
      BY <2>1, <2>2, <2>3, <2>4 DEF Report
  <1>6. ASSUME NEW q \in Procs PROVE Asked(q)'
    <2>1. Asked(q) /\ Asked(p)
      BY DEF Reported
    <2>2. cancel[p].seen.status \in Statuses \cup {"none"}
      BY DEF Obeyed, Shape, TypeOK, Cancel, Row
    <2>3. QED
      BY <1>2, <2>1, <2>2 DEF Asked, Idle, Statuses, Terminal
  <1>7. QED
    BY <1>5, <1>6

\* ... and these counters.
LEMMA CancelledColumns ==
  ASSUME NEW r \in Row
  PROVE  /\ [r EXCEPT !.status = "cancelled", !.pending = 0, !.cancelled = r.pending].sent = r.sent
         /\ [r EXCEPT !.status = "cancelled", !.pending = 0, !.cancelled = r.pending].failed = r.failed
         /\ [r EXCEPT !.status = "cancelled", !.pending = 0, !.cancelled = r.pending].pending = 0
         /\ [r EXCEPT !.status = "cancelled", !.pending = 0, !.cancelled = r.pending].cancelled = r.pending
  BY DEF Row

\* What Reported says of a batch survives the UPDATE of a cancel.
LEMMA WriteCancelReports ==
  ASSUME Obeyed, Reported, NEW p \in Procs, WriteCancel(p)
  PROVE  /\ \A k \in Batches : Report(k)'
         /\ \A q \in Procs : Asked(q)'
  <1> DEFINE seen == cancel[p].seen
  <1>1. PICK c \in Batches :
          /\ c = cancel[p].batch
          /\ \A k \in Batches : k # c => row'[k] = row[k] /\ canceller'[k] = canceller[k]
          /\ IF row[c].status \in {"pending", "processing"}
               THEN /\ row'[c] = [seen EXCEPT !.status = "cancelled", !.pending = 0,
                                              !.cancelled = seen.pending]
                    /\ canceller'[c] = p
               ELSE row'[c] = row[c] /\ canceller'[c] = canceller[c]
    BY WriteCancelTurns DEF Obeyed
  <1>2. /\ cancel[p].at = "writing" /\ cancel'[p] = Idle
        /\ \A q \in Procs : q # p => cancel'[q] = cancel[q]
        /\ UNCHANGED <<run, flag, late>>
    BY WriteCancelTurns DEF Obeyed
  <1>3. /\ seen \in Row /\ seen.sent \in Nat /\ seen.failed \in Nat /\ seen.pending \in Nat
        /\ seen.cancelled \in Nat
    BY BulkAssumption DEF Obeyed, Shape, TypeOK, Cancel, Row
  <1>4. row[c].status \in {"pending", "processing"} =>
          /\ row'[c].status = "cancelled" /\ row'[c].pending = 0
          /\ row'[c].sent = seen.sent /\ row'[c].failed = seen.failed
          /\ row'[c].cancelled = seen.pending
    <2>1. row[c].status \in {"pending", "processing"} =>
            row'[c] = [seen EXCEPT !.status = "cancelled", !.pending = 0,
                                   !.cancelled = seen.pending]
      BY <1>1
    <2> HIDE DEF seen
    <2>2. QED
      BY <1>3, <2>1, CancelledStatus, CancelledColumns
  <1>5. Behind(seen, c) /\ seen.status \in {"pending", "processing"}
    BY <1>1, <1>2, Facts DEF Recorded, Reported, Asked
  <1> HIDE DEF seen
  <1>6. ASSUME NEW k \in Batches, k # c PROVE Report(k)'
    <2>1. Checked(k)' /\ Finished(k)'
      BY <1>1, <1>2, <1>6, Facts DEF Checked, Finished
    <2>2. \A q \in Procs : cancel[q].at = "writing" /\ cancel[q].batch = k => cancel'[q] = cancel[q]
      BY <1>1, <1>2, <1>6
    <2>3. Recorded(k)'
      <3>1. \A q \in Procs : cancel'[q].at # "idle" /\ cancel'[q].batch = k =>
              Behind(cancel'[q].seen, k)
        BY <1>2, Facts DEF Recorded, Idle
      <3>2. QED
        BY <1>1, <1>2, <1>6, <2>2, <3>1, Facts DEF Recorded, Behind
    <2>4. Settled(k)'
      BY <1>1, <1>2, <1>6, <2>2, Facts DEF Settled
    <2>5. QED
      BY <2>1, <2>3, <2>4 DEF Report
  <1>7. \A q \in Procs : cancel'[q].at # "idle" /\ cancel'[q].batch = c => Behind(cancel'[q].seen, c)
    BY <1>2, Facts DEF Recorded, Idle
  <1>8. ASSUME row[c].status \in {"pending", "processing"} PROVE Report(c)'
    <2>1. Checked(c)'
      BY <1>2, <1>4, <1>8, Facts DEF Checked
    <2>2. Recorded(c)'
      <3>1. Behind(row[c], c)'
        BY <1>2, <1>3, <1>4, <1>5, <1>8 DEF Behind
      <3>2. QED
        BY <1>2, <1>4, <1>7, <1>8, <3>1 DEF Recorded, Behind, Terminal
    <2>3. Finished(c)'
      BY <1>2, Facts DEF Finished
    <2>4. Settled(c)'
      <3>1. run[c].at = "ended" /\ run[c].kept => run[c].sent = 0 /\ run[c].failed = 0
        BY <1>8, Facts DEF Settled, Terminal
      <3>2. run[c].at = "ended" /\ run[c].kept => seen.sent = 0 /\ seen.failed = 0
        BY <1>3, <1>5, <3>1, Facts DEF Behind
      <3>3. QED
        BY <1>2, <1>4, <1>8, <3>1, <3>2 DEF Settled, Terminal
    <2>5. QED
      BY <2>1, <2>2, <2>3, <2>4 DEF Report
  <1>9. ASSUME row[c].status \notin {"pending", "processing"} PROVE Report(c)'
    <2>1. row[c].status \in Terminal
      <3>1. row[c].status # "none"
        BY <1>1, <1>2, Facts DEF Unstarted
      <3>2. row[c].status \in Statuses \cup {"none"}
        BY Facts DEF Row
      <3>3. QED
        BY <1>9, <3>1, <3>2 DEF Statuses, Terminal
    <2>2. row'[c] = row[c] /\ canceller'[c] = canceller[c]
      BY <1>1, <1>9
    <2>3. Checked(c)' /\ Finished(c)'
      BY <1>2, <2>2, Facts DEF Checked, Finished
    <2>4. Recorded(c)'
      BY <1>2, <1>7, <2>1, <2>2, Facts DEF Recorded, Behind
    <2>5. Settled(c)'
      BY <1>2, <2>1, <2>2, Facts DEF Settled
    <2>6. QED
      BY <2>3, <2>4, <2>5 DEF Report
  <1>10. \A q \in Procs : Asked(q)'
    BY <1>2 DEF Reported, Asked, Idle
  <1>11. QED
    BY <1>6, <1>8, <1>9, <1>10

\* What no step can do where no process reaps.
LEMMA NobodyReaps ==
  ASSUME NoReaper, Obeyed, Reported, NEW p \in Procs
  PROVE  ~Crash(p) /\ ~Boot(p) /\ ~TakeOver(p) /\ ~AdoptionFails(p) /\ ~ReaperStep(p)
  <1>1. power[p] = "up" /\ reap[p].at = "idle" /\ crashes \in Nat
    BY DEF Obeyed, Shape, TypeOK, Reported, Alone
  <1>2. ~Crash(p) /\ ~Boot(p) /\ ~TakeOver(p) /\ ~AdoptionFails(p)
    <2>1. ~Crash(p)
      <3>1. ~(crashes < MaxCrashes)
        BY <1>1 DEF NoReaper
      <3>2. QED
        BY <3>1 DEF Crash
    <2>2. ~Boot(p)
      BY <1>1 DEF Boot
    <2>3. ~TakeOver(p)
      BY Zenon DEF NoReaper, TakeOver
    <2>4. ~AdoptionFails(p)
      BY <1>1 DEF AdoptionFails
    <2>5. QED
      BY <2>1, <2>2, <2>3, <2>4
  <1>3. ~ReaperStep(p)
    BY <1>1, Zenon DEF ReaperStep, OwnedByThisNode, ReapProcessingBatches, ReapDone,
       FailOrphanedBatch
  <1>4. QED
    BY <1>2, <1>3

\* A step of a runner leaves every cancel and reaper alone.
LEMMA RunnerReports ==
  ASSUME Obeyed, Reported, NEW b \in Batches, InsertFails(b) \/ RunnerStep(b)
  PROVE  /\ \A k \in Batches : Report(k)'
         /\ UNCHANGED <<cancel, reap, power>>
  <1>1. UNCHANGED <<cancel, reap, power>>
    BY DEF InsertFails, RunnerStep, InsertBatch, PickUp, MarkBatchProcessing, FindEngine,
       FailBatchWithoutEngine, NextMessage, SendMessage, MessageFails, SaveProgress,
       ReadFinalStatus, Settle, FinalizeBatch
  <1>2. QED
    BY <1>1, InsertFailsReports, InsertBatchReports, PickUpReports, MarkBatchProcessingReports,
       FindEngineReports, FailBatchWithoutEngineReports, NextMessageReports, MessageReports,
       SaveProgressReports, ReadFinalStatusReports, SettleReports, FinalizeBatchReports
     DEF RunnerStep

\* Reported holds of every state of a system in which no process reaps.
THEOREM BulkReported == ASSUME NoReaper PROVE Spec => []Reported
  <1>1. Init => Reported
    <2> SUFFICES ASSUME Init PROVE Reported
      OBVIOUS
    <2>1. Alone /\ \A p \in Procs : Asked(p)
      BY DEF Init, Alone, Asked, Resting, Idle
    <2>2. ASSUME NEW b \in Batches PROVE Report(b)
      <3>1. row[b] = NoRow /\ run[b] = NoRunner /\ late[b] = 0 /\ canceller[b] = None
            /\ \A p \in Procs : cancel[p] = Idle /\ flag[p][b] = "unset"
        BY DEF Init
      <3>2. QED
        BY <3>1, BulkAssumption
         DEF Report, Checked, Recorded, Finished, Settled, Behind, NoRow, NoRunner, Idle,
             Running, Looping
    <2>3. QED
      BY <2>1, <2>2 DEF Reported
  <1>2. Reported /\ Obeyed /\ [Next]_vars => Reported'
    <2> SUFFICES ASSUME Reported, Obeyed, [Next]_vars PROVE Reported'
      OBVIOUS
    <2>1. CASE \E p \in Procs : Crash(p) \/ Boot(p) \/ TakeOver(p) \/ AdoptionFails(p) \/ ReaperStep(p)
      BY <2>1, NobodyReaps
    <2>2. CASE \E p \in Procs : RaiseFlag(p) \/ WriteCancel(p)
      <3>1. Alone'
        BY <2>2 DEF RaiseFlag, WriteCancel, Reported, Alone
      <3>2. QED
        BY <2>2, <3>1, RaiseFlagReports, WriteCancelReports DEF Reported
    <2>3. CASE \E p \in Procs, b \in Batches : CancelBatch(p, b)
      <3>1. Alone'
        BY <2>3 DEF CancelBatch, Reported, Alone
      <3>2. QED
        BY <2>3, <3>1, CancelBatchReports DEF Reported
    <2>4. CASE \E p \in Procs, b \in Batches : CreateBatch(p, b)
      <3>1. UNCHANGED <<cancel, reap, power>>
        BY <2>4 DEF CreateBatch
      <3>2. QED
        BY <2>4, <3>1, CreateBatchReports DEF Reported, Alone, Asked
    <2>5. CASE Lapse \/ Renew \/ \E p \in Procs : StartSession(p) \/ StopSession(p) \/ LoseEngine(p)
      BY <2>5, SessionReports DEF Reported, Alone, Asked
    <2>6. CASE \E b \in Batches : InsertFails(b) \/ RunnerStep(b)
      BY <2>6, RunnerReports DEF Reported, Alone, Asked
    <2>7. CASE UNCHANGED vars
      <3>1. Still
        BY <2>7, UnchangedIsStill DEF vars, Obeyed, Shape
      <3>2. QED
        BY <2>7, <3>1, StillReports DEF vars, history, Reported, Alone, Asked
    <2>8. QED
      BY <2>1, <2>2, <2>3, <2>4, <2>5, <2>6, <2>7 DEF Next
  <1>3. QED
    BY <1>1, <1>2, BulkObeyed, PTL DEF Spec

\* Where no process reaps, a cancel stops its batch: at most the message under
\* way at the process that answered it, at the next checkpoint elsewhere.
THEOREM BulkCancelStops == ASSUME NoReaper PROVE Spec => []CancelStops
  <1>1. Obeyed /\ Reported => CancelStops
    <2> SUFFICES ASSUME Obeyed, Reported, NEW b \in Batches
                 PROVE  late[b] <= IF canceller[b] = run[b].host THEN 1 ELSE Cadence
      BY DEF CancelStops
    <2>1. late[b] <= Cadence
      <3>1. run[b].sent + run[b].failed \in Nat
        BY Facts
      <3>2. QED
        BY <3>1, SinceBound, Facts, BulkAssumption DEF Checked
    <2>2. canceller[b] = run[b].host => late[b] <= 1
      <3>1. canceller[b] = None => late[b] = 0
        BY Facts DEF Lowered
      <3>2. canceller[b] # None /\ canceller[b] = run[b].host =>
              late[b] <= IF run[b].at = "sending" THEN 0 ELSE 1
        BY Facts DEF Lowered
      <3>3. QED
        BY <3>1, <3>2, Facts
    <2>3. QED
      BY <2>1, <2>2
  <1>2. QED
    BY <1>1, BulkObeyed, BulkReported, PTL

\* Where no process reaps, the row of a finished batch accounts for every
\* message, unless a cancel committed after the runner's last look at it.
THEOREM BulkReportIsExact == ASSUME NoReaper PROVE Spec => []ReportIsExact
  <1>1. Obeyed /\ Reported => ReportIsExact
    <2> SUFFICES ASSUME Obeyed, Reported, NEW b \in Batches, run[b].at = "ended",
                        run[b].kept, row[b].status # "none"
                 PROVE  /\ row[b].sent = delivered[b] /\ row[b].failed = run[b].failed
                        /\ row[b].sent + row[b].failed + row[b].pending + row[b].cancelled = Total
                        /\ row[b].status \in Terminal \/ \E p \in Procs : cancel[p].at = "writing"
                        /\ row[b].status \in {"completed", "cancelled"} => row[b].pending = 0
      BY DEF ReportIsExact
    <2>1. Settled(b) /\ Behind(row[b], b) /\ delivered[b] = run[b].sent
      BY Facts DEF Recorded, Sound
    <2>2. QED
      BY <2>1 DEF Settled, Behind
  <1>2. QED
    BY <1>1, BulkObeyed, BulkReported, PTL

\* Where no process reaps, a terminal status is never replaced.
THEOREM BulkTerminalIsFinal == ASSUME NoReaper PROVE Spec => TerminalIsFinal
  <1>1. Obeyed /\ Reported /\ [Next]_vars =>
          [\A b \in Batches : row[b].status \in Terminal => row'[b].status = row[b].status]_vars
    <2> SUFFICES ASSUME Obeyed, Reported, Next, NEW b \in Batches, row[b].status \in Terminal
                 PROVE  row'[b].status = row[b].status
      OBVIOUS
    <2>1. CASE \E p \in Procs : Crash(p) \/ Boot(p) \/ TakeOver(p) \/ AdoptionFails(p) \/ ReaperStep(p)
      BY <2>1, NobodyReaps
    <2>2. CASE \E p \in Procs : WriteCancel(p)
      <3>1. row[b].status \notin {"pending", "processing"}
        BY DEF Terminal
      <3>2. QED
        BY <2>2, <3>1, WriteCancelTurns DEF Obeyed
    <2>3. CASE Lapse \/ Renew \/ \E p \in Procs :
                 \/ StartSession(p) \/ StopSession(p) \/ LoseEngine(p) \/ RaiseFlag(p)
                 \/ \E k \in Batches : CreateBatch(p, k) \/ CancelBatch(p, k)
      BY <2>3 DEF Lapse, Renew, StartSession, StopSession, LoseEngine, RaiseFlag, CreateBatch,
         CancelBatch
    <2>4. CASE \E k \in Batches : InsertFails(k) \/ RunnerStep(k)
      <3>1. PICK k \in Batches : InsertFails(k) \/ RunnerStep(k)
        BY <2>4
      <3>2. CASE k # b
        <4>1. \/ row' = row \/ row' = [row EXCEPT ![k] = row'[k]]
          BY <3>1 DEF InsertFails, RunnerStep, InsertBatch, PickUp, MarkBatchProcessing,
             FindEngine, FailBatchWithoutEngine, NextMessage, SendMessage, MessageFails,
             SaveProgress, ReadFinalStatus, Settle, FinalizeBatch, Obeyed, Shape, TypeOK
        <4>2. QED
          BY <3>2, <4>1 DEF Obeyed, Shape, TypeOK
      <3>3. CASE k = b
        <4>1. (run[b].at \in Running /\ row[b].status = "cancelled") \/ run[b].at \notin Running
          BY Facts DEF Checked, Terminal
        <4>2. run[b].at \in {"reading", "marking"} => row[b].status = "cancelled"
          BY Facts DEF Unstarted, Terminal
        <4>3. run[b].at = "inserting" => FALSE
          BY Facts DEF Unstarted, Terminal
        <4>4. ASSUME FinalizeBatch(b) PROVE row'[b].status = "cancelled"
          <5>1. row[b].status = "cancelled"
            BY <4>1, <4>4 DEF FinalizeBatch, Runs, Running
          <5>2. CASE run[b].verdict = "cancelled"
            BY <4>4, <5>1, <5>2 DEF FinalizeBatch, Reckoning, Obeyed, Shape, TypeOK
          <5>3. CASE run[b].verdict # "cancelled"
            BY <4>4, <5>1, <5>3 DEF FinalizeBatch
          <5>4. QED
            BY <5>2, <5>3
        <4>5. CASE FinalizeBatch(b)
          BY <4>1, <4>4, <4>5 DEF FinalizeBatch, Runs, Running
        <4>6. CASE ~FinalizeBatch(b)
          BY <3>1, <3>3, <4>1, <4>2, <4>3, <4>6
           DEF InsertFails, RunnerStep, InsertBatch, PickUp, MarkBatchProcessing, FindEngine,
               FailBatchWithoutEngine, NextMessage, SendMessage, MessageFails, SaveProgress,
               ReadFinalStatus, Settle, Runs, Running
        <4>7. QED
          BY <4>5, <4>6
      <3>4. QED
        BY <3>2, <3>3
    <2>5. QED
      BY <2>1, <2>2, <2>3, <2>4 DEF Next
  <1>2. QED
    BY <1>1, BulkObeyed, BulkReported, PTL DEF Spec, TerminalIsFinal

-------------------------------------------------------------------------------
(* Which batches a reaper finds.                                           *)

\* A step of a runner: the others stay, and it runs where it ran.
LEMMA RunnerTurns ==
  ASSUME Shape, NEW b \in Batches, InsertFails(b) \/ RunnerStep(b)
  PROVE  /\ Turn(b) /\ run[b].at \in Live
         /\ UNCHANGED <<reap, power, owner, expired, engines, lapses, strayed>>
  <1>1. /\ run[b].at \in Live
        /\ UNCHANGED <<reap, power, owner, expired, engines, lapses, strayed>>
    BY DEF InsertFails, RunnerStep, InsertBatch, PickUp, MarkBatchProcessing, FindEngine,
       FailBatchWithoutEngine, NextMessage, SendMessage, MessageFails, SaveProgress,
       ReadFinalStatus, Settle, FinalizeBatch, session, bounds, history, Runs, Live, Stages
  <1>2. Turn(b)
    BY InsertFailsTurns, InsertBatchTurns, PickUpTurns, MarkBatchProcessingTurns,
       FindEngineTurns, FailBatchWithoutEngineTurns, NextMessageTurns, SendMessageTurns,
       MessageFailsTurns, SaveProgressTurns, ReadFinalStatusTurns, SettleTurns,
       FinalizeBatchTurns DEF RunnerStep, Shape
  <1>3. QED
    BY <1>1, <1>2

\* Quiet survives what leaves the reapers and the engines where they are.
LEMMA StillQuiet ==
  ASSUME Quiet, UNCHANGED <<reap, power>>,
         \A p \in Procs : p \in engines' => p \in engines \/ power[p] = "up"
  PROVE  Quiet'
  BY DEF Quiet

\* Attended survives a step of runners, where a new one has its engine and no
\* reaper has its batch.
LEMMA StillAttended ==
  ASSUME Attended, UNCHANGED <<reap, owner, expired, engines>>,
         \A b \in Batches : run'[b].at \in Live =>
           \/ run[b].at \in Live /\ run'[b].host = run[b].host
           \/ run'[b].host \in engines /\ \A p \in Procs : b \notin reap[p].todo
  PROVE  Attended'
  BY DEF Attended

\* What the lease does to the invariant.
LEMMA LeaseReaped ==
  ASSUME Shape, Reaped, Lapse \/ Renew
  PROVE  Reaped'
  <1>1. UNCHANGED <<run, reap, power, owner, engines, strayed>>
    BY DEF Lapse, Renew, history, bounds
  <1>2. Quiet'
    BY <1>1, StillQuiet DEF Reaped
  <1>3. ASSUME Undisturbed' PROVE Attended'
    <2>1. Undisturbed
      <3>1. CASE Lapse
        BY <1>1, <1>3, <3>1 DEF Lapse, Undisturbed, Shape, TypeOK
      <3>2. CASE Renew
        BY <1>1, <1>3, <3>2 DEF Renew, bounds, Undisturbed
      <3>3. QED
        BY <3>1, <3>2
    <2>2. Attended
      BY <2>1 DEF Reaped
    <2>3. CASE Lapse
      <3>1. owner \notin engines
        BY <1>3, <2>1, <2>3 DEF Lapse, Undisturbed
      <3>2. engines = {}
        BY <2>2, <3>1 DEF Attended
      <3>3. QED
        BY <1>1, <2>2, <3>2 DEF Attended
    <2>4. CASE Renew
      BY <1>1, <2>2, <2>4 DEF Renew, Attended
    <2>5. QED
      BY <2>3, <2>4
  <1>4. QED
    BY <1>2, <1>3 DEF Reaped

\* What starts and stops of the session do to the invariant.
LEMMA SessionReaped ==
  ASSUME Shape, Reaped, NEW p \in Procs,
         StartSession(p) \/ StopSession(p) \/ LoseEngine(p)
  PROVE  Reaped'
  <1>1. UNCHANGED <<reap, power, lapses>> /\ Still
    BY UnchangedIsStill, TearDownIsStill
     DEF StartSession, StopSession, LoseEngine, bounds, Shape
  <1>2. Quiet'
    BY <1>1, StillQuiet DEF StartSession, StopSession, LoseEngine, TearDown, Reaped
  <1>3. ASSUME Undisturbed' PROVE Attended'
    <2>1. Undisturbed
      BY <1>1, <1>3 DEF StartSession, StopSession, LoseEngine, history, Undisturbed, Shape, TypeOK
    <2>2. Attended /\ engines \subseteq Procs /\ None \notin Procs
      BY <2>1, BulkAssumption DEF Reaped, Shape, TypeOK
    <2>3. CASE StartSession(p)
      <3>1. owner = p /\ owner' = p /\ ~expired' /\ engines' = engines \cup {p}
        BY <1>3, <2>3 DEF StartSession, Undisturbed, Shape, TypeOK
      <3>2. QED
        BY <1>1, <2>2, <3>1 DEF Attended, Still
    <2>4. CASE StopSession(p)
      <3>1. owner' = None /\ ~expired' /\ engines' = engines \ {p}
        BY <2>4 DEF StopSession, TearDown
      <3>2. engines' = {}
        BY <2>2, <2>4, <3>1 DEF StopSession, Claimable, Attended
      <3>3. QED
        BY <3>1, <3>2 DEF Attended
    <2>5. ~LoseEngine(p)
      BY <2>2 DEF LoseEngine, Attended
    <2>6. QED
      BY <2>3, <2>4, <2>5
  <1>4. QED
    BY <1>2, <1>3 DEF Reaped

\* What an adoption does to the invariant: the lease it takes over had no
\* engine under it any more, so nobody was running a batch.
LEMMA TakeOverReaped ==
  ASSUME Shape, Reaped, NEW p \in Procs, TakeOver(p)
  PROVE  Reaped'
  <1>1. /\ power[p] = "up" /\ owner # None /\ expired
        /\ owner' = p /\ ~expired' /\ engines' = engines \cup {p}
        /\ UNCHANGED <<run, power, lapses, strayed>>
    BY DEF TakeOver, bounds, history
  <1>2. /\ reap'[p].at = "adopting" /\ \A q \in Procs : q # p => reap'[q] = reap[q]
    BY DEF TakeOver, Shape, TypeOK, Reaper
  <1>3. Quiet'
    BY <1>1, <1>2 DEF Reaped, Quiet
  <1>4. ASSUME Undisturbed' PROVE Attended'
    <2>1. Attended
      BY <1>1, <1>4 DEF Undisturbed, Reaped
    <2>2. engines = {} /\ \A b \in Batches : run[b].at \notin Live
      BY <1>1, <2>1 DEF Attended
    <2>3. QED
      BY <1>1, <1>2, <2>1, <2>2 DEF Attended
  <1>5. QED
    BY <1>3, <1>4 DEF Reaped

\* What an adoption that fails does to it.
LEMMA AdoptionFailsReaped ==
  ASSUME Shape, Reaped, NEW p \in Procs, AdoptionFails(p)
  PROVE  Reaped'
  <1>1. /\ engines' \subseteq engines /\ reap'[p].at = "idle" /\ UNCHANGED power /\ strayed'
        /\ \A q \in Procs : q # p => reap'[q] = reap[q]
    BY DEF AdoptionFails, TearDown, Resting, Shape, TypeOK
  <1>2. QED
    BY <1>1 DEF Reaped, Quiet, Undisturbed

\* What a crash does to the invariant.
LEMMA CrashReaped ==
  ASSUME Shape, Reaped, NEW p \in Procs, Crash(p)
  PROVE  Reaped'
  <1>1. \A k \in Batches : run'[k].at \in Live =>
          run[k].at \in Live /\ run[k].host # p /\ run'[k].host = run[k].host
    BY CrashTurns DEF Shape, Live
  <1>2. /\ engines' = engines \ {p} /\ UNCHANGED <<owner, expired, lapses, strayed>>
        /\ power'[p] = "down" /\ reap'[p].at = "idle"
        /\ \A q \in Procs : q # p => power'[q] = power[q] /\ reap'[q] = reap[q]
    BY DEF Crash, history, Shape, TypeOK, Resting
  <1>3. Quiet'
    BY <1>2 DEF Reaped, Quiet
  <1>4. ASSUME Undisturbed' PROVE Attended'
    <2>1. Attended
      BY <1>2, <1>4 DEF Undisturbed, Reaped
    <2>2. QED
      BY <1>1, <1>2, <2>1 DEF Attended
  <1>5. QED
    BY <1>3, <1>4 DEF Reaped

\* A boot reaper keeps the batches it found where nobody holds the claim; an
\* adopting process finds its own.
LEMMA ReaperReaped ==
  ASSUME Shape, Reaped, NEW p \in Procs, Boot(p) \/ ReaperStep(p)
  PROVE  Reaped'
  <1> USE DEF Shape
  <1>1. UNCHANGED <<run, owner, expired, engines, lapses, strayed>>
    BY DEF Boot, ReaperStep, OwnedByThisNode, ReapProcessingBatches, ReapDone,
       FailOrphanedBatch, session, bounds, history
  <1>2. CASE Boot(p)
    <2>1. /\ power[p] = "down" /\ power'[p] = "booting" /\ reap'[p].at = "owning"
          /\ \A q \in Procs : q # p => power'[q] = power[q] /\ reap'[q] = reap[q]
      BY <1>2 DEF Boot, Found, TypeOK
    <2>2. QED
      BY <1>1, <2>1 DEF Reaped, Quiet, Undisturbed, Attended
  <1>3. CASE OwnedByThisNode(p)
    <2>1. /\ reap[p].at = "owning" /\ reap'[p].at = "saving" /\ UNCHANGED power
          /\ ~Claimable(p) => reap'[p].todo = {}
          /\ \A q \in Procs : q # p => reap'[q] = reap[q]
      <3>1. reap[p] \in Reaper /\ reap \in [Procs -> Reaper]
        BY DEF TypeOK
      <3>2. /\ [reap[p] EXCEPT !.at = "saving"].at = "saving"
            /\ [Resting EXCEPT !.at = "saving"].at = "saving"
            /\ [Resting EXCEPT !.at = "saving"].todo = {}
        BY <3>1 DEF Reaper, Resting
      <3>3. /\ Claimable(p) => reap' = [reap EXCEPT ![p] = [reap[p] EXCEPT !.at = "saving"]]
            /\ ~Claimable(p) => reap' = [reap EXCEPT ![p] = [Resting EXCEPT !.at = "saving"]]
        BY <1>3 DEF OwnedByThisNode
      <3>4. reap[p].at = "owning" /\ UNCHANGED power
        BY <1>3 DEF OwnedByThisNode
      <3>5. QED
        BY <3>1, <3>2, <3>3, <3>4
    <2>2. p \notin engines
      BY <2>1 DEF Reaped, Quiet
    <2>3. Quiet'
      BY <1>1, <2>1 DEF Reaped, Quiet
    <2>4. ASSUME Undisturbed' PROVE Attended'
      <3>1. Attended
        BY <1>1, <2>4 DEF Undisturbed, Reaped
      <3>2. Claimable(p) => \A b \in Batches : run[b].at \in Live => owner = None
        BY <2>2, <3>1 DEF Claimable, Attended
      <3>3. QED
        BY <1>1, <2>1, <3>1, <3>2 DEF Attended
    <2>5. QED
      BY <2>3, <2>4 DEF Reaped
  <1>4. CASE ReapProcessingBatches(p)
    <2>1. /\ reap[p].at = "adopting" /\ reap'[p].at = "saving" /\ UNCHANGED power
          /\ \A q \in Procs : q # p => reap'[q] = reap[q]
      BY <1>4 DEF ReapProcessingBatches, Found, TypeOK
    <2>2. Quiet'
      BY <1>1, <2>1 DEF Reaped, Quiet
    <2>3. ASSUME Undisturbed' PROVE Attended'
      <3>1. Attended
        BY <1>1, <2>3 DEF Undisturbed, Reaped
      <3>2. \A b \in Batches : run[b].at \in Live => owner = None \/ run[b].host = p
        BY <2>1, <3>1 DEF Attended
      <3>3. QED
        BY <1>1, <2>1, <3>1, <3>2 DEF Attended
    <2>4. QED
      BY <2>2, <2>3 DEF Reaped
  <1>5. CASE ReapDone(p)
    <2>1. /\ reap'[p].at = "idle" /\ power'[p] = "up"
          /\ \A q \in Procs : q # p => power'[q] = power[q] /\ reap'[q] = reap[q]
      BY <1>5 DEF ReapDone, Resting, TypeOK
    <2>2. QED
      BY <1>1, <2>1 DEF Reaped, Quiet, Undisturbed, Attended
  <1>6. CASE \E b \in Batches : FailOrphanedBatch(p, b)
    <2>1. /\ \A q \in Procs : reap'[q].todo \subseteq reap[q].todo /\ reap'[q].at = reap[q].at
          /\ UNCHANGED power
      BY <1>6, FailOrphanedBatchTurns
    <2>2. QED
      BY <1>1, <2>1 DEF Reaped, Quiet, Undisturbed, Attended
  <1>7. QED
    BY <1>2, <1>3, <1>4, <1>5, <1>6 DEF ReaperStep

\* What a step of runners or cancels does to the invariant.
LEMMA RunnerReaped ==
  ASSUME Reaped, UNCHANGED <<reap, power, owner, expired, engines, lapses, strayed>>,
         \A b \in Batches : run'[b].at \in Live =>
           \/ run[b].at \in Live /\ run'[b].host = run[b].host
           \/ run'[b].host \in engines /\ \A p \in Procs : b \notin reap[p].todo
  PROVE  Reaped'
  BY StillQuiet, StillAttended DEF Reaped, Undisturbed

\* Reaped holds of every reachable state.
THEOREM BulkReaped == Spec => []Reaped
  <1>1. Init => Reaped
    <2> SUFFICES ASSUME Init PROVE Reaped
      OBVIOUS
    <2>1. /\ owner \in Procs /\ engines = {owner} /\ expired = FALSE
          /\ \A b \in Batches : run[b].at = "unborn"
          /\ \A p \in Procs : power[p] = "up" /\ reap[p].at = "idle"
      BY DEF Init, NoRunner, Resting
    <2>2. QED
      BY <2>1 DEF Reaped, Quiet, Attended, Live
  <1>2. Reaped /\ Obeyed /\ [Next]_vars => Reaped'
    <2> SUFFICES ASSUME Reaped, Obeyed, [Next]_vars PROVE Reaped'
      OBVIOUS
    <2> USE DEF Obeyed
    <2>1. CASE \/ Lapse \/ Renew
               \/ \E p \in Procs : \/ StartSession(p) \/ StopSession(p) \/ LoseEngine(p)
                                   \/ TakeOver(p) \/ AdoptionFails(p)
      BY <2>1, LeaseReaped, SessionReaped, TakeOverReaped, AdoptionFailsReaped
    <2>2. CASE \E p \in Procs : Crash(p) \/ Boot(p) \/ ReaperStep(p)
      BY <2>2, CrashReaped, ReaperReaped
    <2>3. CASE \E p \in Procs : RaiseFlag(p) \/ WriteCancel(p) \/ \E b \in Batches : CancelBatch(p, b)
      <3>1. UNCHANGED <<run, reap, power, owner, expired, engines, lapses, strayed>>
        BY <2>3 DEF RaiseFlag, WriteCancel, CancelBatch, session, bounds, history
      <3>2. QED
        BY <3>1, RunnerReaped
    <2>4. CASE \E p \in Procs, b \in Batches : CreateBatch(p, b)
      <3>1. PICK p \in Procs, b \in Batches : CreateBatch(p, b)
        BY <2>4
      <3>2. /\ UNCHANGED <<reap, power, owner, expired, engines, lapses, strayed>>
            /\ p \in engines /\ run[b].at = "unborn"
        BY <3>1 DEF CreateBatch, session, bounds, history, Runs
      <3>3. run'[b].host = p /\ \A k \in Batches : k # b => run'[k] = run[k]
        BY <3>1, CreateBatchTurns DEF Shape
      <3>4. \A q \in Procs : b \notin reap[q].todo
        BY <3>2 DEF Unstarted
      <3>5. QED
        BY <3>2, <3>3, <3>4, RunnerReaped
    <2>5. CASE \E b \in Batches : InsertFails(b) \/ RunnerStep(b)
      <3>1. PICK b \in Batches :
              /\ Turn(b) /\ run[b].at \in Live
              /\ UNCHANGED <<reap, power, owner, expired, engines, lapses, strayed>>
        BY <2>5, RunnerTurns
      <3>2. QED
        BY <3>1, RunnerReaped DEF Turn
    <2>6. CASE UNCHANGED vars
      <3>1. UNCHANGED <<run, reap, power, owner, expired, engines, lapses, strayed>>
        BY <2>6 DEF vars, session, bounds, history
      <3>2. QED
        BY <3>1, RunnerReaped
    <2>7. QED
      BY <2>1, <2>2, <2>3, <2>4, <2>5, <2>6 DEF Next
  <1>3. QED
    BY <1>1, <1>2, BulkObeyed, PTL DEF Spec

\* With operators, sweep, crashes and boots, and for every number of processes
\* and batches: as long as every lease held under its engine and no start() but
\* the sweep's took the session over, a reaper fails no batch that another
\* process can still send.
THEOREM BulkReapsNoLivePeer == Spec => ReapsNoLivePeer
  <1>1. Reaped /\ Obeyed /\ [Next]_vars =>
          [\A p \in Procs, b \in Batches :
             FailOrphanedBatch(p, b) /\ lapses = 0 /\ ~strayed =>
               run[b].at \notin Live \/ run[b].host = p \/ run[b].host \notin engines]_vars
    <2> SUFFICES ASSUME Reaped, Obeyed, NEW p \in Procs, NEW b \in Batches,
                        FailOrphanedBatch(p, b), lapses = 0, ~strayed,
                        run[b].at \in Live, run[b].host # p
                 PROVE  run[b].host \notin engines
      OBVIOUS
    <2>1. Attended
      BY DEF Reaped, Undisturbed
    <2>2. owner = None
      BY <2>1 DEF FailOrphanedBatch, Attended
    <2>3. run[b].host \in Procs
      BY DEF Obeyed, Shape, Sound, Live
    <2>4. QED
      BY <2>1, <2>2, <2>3, BulkAssumption DEF Attended
  <1>2. QED
    BY <1>1, BulkReaped, BulkObeyed, PTL DEF Spec, ReapsNoLivePeer
=============================================================================
