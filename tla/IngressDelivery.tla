--------------------------- MODULE IngressDelivery ---------------------------
(***************************************************************************)
(* Inbound webhook deliveries: the ingress_events row written before the   *)
(* provider is answered, the enqueue that hands it to BullMQ or dispatches *)
(* it inline, the reconciler that replays stranded rows, the worker, the   *)
(* dead letters and their manual redrive.  Sources: modules/integration    *)
(* and modules/queue/processors/ingress.processor.ts.                      *)
(*                                                                         *)
(* One process: the overlap guard of the sweep and the lock of the redrive *)
(* live in its memory, and ordering-lock.ts says "single-node".  One       *)
(* plugin instance; of any other only the rows that no sweep may replay    *)
(* and that hold places in its batch.  Three actors run enqueue(): the     *)
(* request that brought an event in (named by the event), the sweep and    *)
(* the redrive.                                                            *)
(*                                                                         *)
(* A row has its payload exactly while it is pending: every UPDATE that    *)
(* closes it writes payload: null with it.                                 *)
(*                                                                         *)
(* Outside the model: what happens before recordOrSkip() (signature,       *)
(* challenge, size, preflight), the conversation lanes, retention, rows    *)
(* imported without a payload.                                             *)
(***************************************************************************)
EXTENDS Naturals, FiniteSets

CONSTANTS
  Event,        \* deliveries of the provider, by deliveryId
  Foreign,      \* deliveries to instances that are disabled or deleted later
  Sweep,        \* the reconciler
  Redrive,      \* the redrive of the instance
  None,         \* no event
  MaxAttempts,  \* INGRESS_MAX_ATTEMPTS: attempts of a job
  MaxReplays,   \* INGRESS_RECONCILE_MAX_ATTEMPTS: replay budget of a row
  BatchSize,    \* INGRESS_RECONCILE_BATCH_SIZE: rows a sweep reads
  RedriveBatchSize,  \* REDRIVE_BATCH_SIZE: letters a redrive reads
  MaxLetters,   \* bound: dead letters of an event
  MaxFaults,    \* bound: crashes, rejected writes, times the instance is disabled
  MaxRedrives   \* bound: redrives an operator asks for

ASSUME ActorsAssumption ==
  /\ Sweep # Redrive /\ {Sweep, Redrive} \cap Event = {} /\ None \notin Event
  /\ Foreign \cap Event = {}
ASSUME BoundsAssumption ==
  /\ MaxAttempts \in Nat \ {0} /\ MaxReplays \in Nat \ {0}
  /\ BatchSize \in Nat \ {0} /\ RedriveBatchSize \in Nat \ {0}
  /\ MaxLetters \in Nat /\ MaxFaults \in Nat /\ MaxRedrives \in Nat

VARIABLES
  up,         \* the process runs
  enabled,    \* the plugin instance exists and is enabled
  row,        \* dispatchState of an event's row
  tries,      \* its dispatchAttempts
  young,      \* rows created inside the grace window
  fresh,      \* rows last tried inside the grace window
  elders,     \* the pending rows an event's row found, all created before it
  stranded,   \* pending rows of instances disabled or deleted since
  letters,    \* dead letters of an event, numbered as they were saved
  jobs,       \* BullMQ jobs: 0 is the one named deliveryId, l > 0 redrive:<l>
  work,       \* where an actor is
  target,     \* the event the sweep or the redrive is at
  letter,     \* the dead letter the redrive is at
  todo,       \* rows of the sweep still to visit
  seen,       \* dispatchAttempts of those rows when it read them
  batch,      \* <<event, letter>> pairs of the redrive still to visit
  handled,    \* events a plugin handler accepted
  unlettered, \* events whose job failed for good and left no letter
  mistaken,   \* events whose last letter the sweep closed, nobody having them
  faults, redrives

rowVars   == <<row, tries, young, fresh, elders, stranded>>
sweepVars == <<todo, seen>>
factVars  == <<handled, unlettered, mistaken>>
counters  == <<faults, redrives>>
vars == <<up, enabled, rowVars, letters, jobs, work, target, letter, sweepVars,
          batch, factVars, counters>>

Actor  == Event \cup {Sweep, Redrive}
Letter == 1..MaxLetters
Slot   == 0..MaxLetters
NoJob  == [stage |-> "none", made |-> 0, stalls |-> 0]
\* Stages of a job that will still be delivered or lettered, and of one BullMQ
\* only retains.
Owed     == {"waiting", "active", "lettering"}
Retained == {"completed", "failed"}
Stages == {"idle", "adding", "inline", "queued", "delivered", "refused",
           "touching", "lettering", "retiring", "retiringQueued", "marking"}

Init ==
  /\ up = TRUE /\ enabled = TRUE
  /\ row = [e \in Event |-> "none"]
  /\ tries = [e \in Event |-> 0]
  /\ young = {} /\ fresh = {}
  /\ elders = [e \in Event |-> {}]
  /\ stranded = {}
  /\ letters = [e \in Event |-> [l \in Letter |-> "none"]]
  /\ jobs = [e \in Event |-> [j \in Slot |-> NoJob]]
  /\ work = [a \in Actor |-> "idle"]
  /\ target = [a \in {Sweep, Redrive} |-> None]
  /\ letter = 0
  /\ todo = {} /\ seen = [e \in Event |-> 0] /\ batch = {}
  /\ handled = {} /\ unlettered = {} /\ mistaken = {}
  /\ faults = 0 /\ redrives = 0

-----------------------------------------------------------------------------
(* Operators.                                                              *)

\* The event an actor works on, and the job id it uses.
On(a)    == IF a \in Event THEN a ELSE target[a]
JobOf(a) == IF a = Redrive THEN letter ELSE 0

Move(a, from, to) ==
  /\ up /\ work[a] \in from
  /\ work' = [work EXCEPT ![a] = to]

Open(e) == {l \in Letter : letters[e][l] = "open"}

\* failures.save(): one more open letter.
SaveLetter(e) ==
  \E l \in Letter :
    /\ letters[e][l] = "none" /\ \A k \in 1..(l - 1) : letters[e][k] # "none"
    /\ letters' = [letters EXCEPT ![e][l] = "open"]

\* lastDispatchAt is written: a row that is pending cools down.
Touch(e) == fresh' = IF row[e] = "pending" THEN fresh \cup {e} ELSE fresh

\* UPDATE ... SET dispatchState = s, payload = NULL.
Close(e, s) ==
  /\ row' = [row EXCEPT ![e] = s]
  /\ young' = young \ {e} /\ fresh' = fresh \ {e}

\* The rows that are still to be replayed, of both kinds.
Pending == {e \in Event : row[e] = "pending"} \cup stranded

Retire(e, closed) ==
  letters' = [letters EXCEPT ![e] = [l \in Letter |-> IF l \in closed THEN "redriven" ELSE @[l]]]

\* One more thing goes wrong.
Fault == faults < MaxFaults /\ faults' = faults + 1

-----------------------------------------------------------------------------
(* IngressService.handle(): the row first.  A duplicate delivery finds the *)
(* row and changes nothing.                                                *)

Receive(e) ==
  /\ enabled /\ row[e] = "none"
  /\ row' = [row EXCEPT ![e] = "pending"]
  /\ young' = young \cup {e}
  /\ elders' = [elders EXCEPT ![e] = Pending]
  /\ Move(e, {"idle"}, "adding")
  /\ UNCHANGED <<up, enabled, tries, fresh, stranded, letters, jobs, target, letter,
                 sweepVars, batch, factVars, counters>>

-----------------------------------------------------------------------------
(* IngressEnqueueService.enqueue().                                        *)

\* add() of an id BullMQ still knows, finished jobs it retains included,
\* returns that job and adds nothing.
AddSucceeds(a) ==
  /\ Move(a, {"adding"}, "queued")
  /\ jobs' = [jobs EXCEPT ![On(a)][JobOf(a)] =
                IF @.stage = "none" THEN [NoJob EXCEPT !.stage = "waiting"] ELSE @]
  /\ UNCHANGED <<up, enabled, rowVars, letters, target, letter, sweepVars, batch,
                 factVars, counters>>

\* Redis is out of reach, or the queue is off.
AddFails(a) ==
  /\ Move(a, {"adding"}, "inline")
  /\ UNCHANGED <<up, enabled, rowVars, letters, jobs, target, letter, sweepVars,
                 batch, factVars, counters>>

InlineDelivers(a) ==
  /\ Move(a, {"inline"}, "delivered")
  /\ handled' = handled \cup {On(a)}
  /\ UNCHANGED <<up, enabled, rowVars, letters, jobs, target, letter, sweepVars,
                 batch, unlettered, mistaken, counters>>

InlineFails(a) ==
  /\ Move(a, {"inline"}, "refused")
  /\ UNCHANGED <<up, enabled, rowVars, letters, jobs, target, letter, sweepVars,
                 batch, factVars, counters>>

Enqueue(a) == AddSucceeds(a) \/ AddFails(a) \/ InlineDelivers(a) \/ InlineFails(a)

-----------------------------------------------------------------------------
(* The request: mark the outcome, then, if it failed, a dead letter.  Both *)
(* writes are best-effort.                                                 *)

LiveCloses(e) ==
  /\ Move(e, {"queued", "delivered"}, "idle")
  /\ Close(e, "dispatched")
  /\ UNCHANGED <<up, enabled, tries, elders, stranded, letters, jobs, target, letter,
                 sweepVars, batch, factVars, counters>>

\* markDispatchOutcome('failed') is two writes: the count, then the time.
LiveCounts(e) ==
  /\ Move(e, {"refused"}, "touching")
  /\ tries' = [tries EXCEPT ![e] = @ + 1]
  /\ UNCHANGED <<up, enabled, row, young, fresh, elders, stranded, letters, jobs,
                 target, letter, sweepVars, batch, factVars, counters>>

LiveTouches(e) ==
  /\ Move(e, {"touching"}, "lettering")
  /\ Touch(e)
  /\ UNCHANGED <<up, enabled, row, tries, young, elders, stranded, letters, jobs,
                 target, letter, sweepVars, batch, factVars, counters>>

LiveLetters(e) ==
  /\ Move(e, {"lettering"}, "idle")
  /\ SaveLetter(e)
  /\ UNCHANGED <<up, enabled, rowVars, jobs, target, letter, sweepVars, batch,
                 factVars, counters>>

LiveWriteFails(e) ==
  /\ \/ Move(e, {"queued", "delivered", "lettering"}, "idle")
     \/ Move(e, {"refused", "touching"}, "lettering")
  /\ Fault
  /\ UNCHANGED <<up, enabled, rowVars, letters, jobs, target, letter, sweepVars,
                 batch, factVars, redrives>>

-----------------------------------------------------------------------------
(* IngressReconcilerService.sweep(): a snapshot of the BatchSize oldest    *)
(* pending rows past the grace window, visited one by one.                 *)

\* A row is among them if fewer were created before it.  One that was tried in
\* the grace window, or may not be sent, keeps its place and is passed over.
InBatch(e) ==
  /\ row[e] = "pending" /\ e \notin young
  /\ Cardinality(elders[e] \cap Pending) < BatchSize

Stale == {e \in Event : InBatch(e) /\ e \notin fresh}

SweepReads ==
  /\ up /\ work[Sweep] = "idle" /\ todo = {} /\ Stale # {}
  /\ todo' = Stale
  /\ seen' = [e \in Event |-> IF e \in Stale THEN tries[e] ELSE 0]
  /\ UNCHANGED <<up, enabled, rowVars, letters, jobs, work, target, letter, batch,
                 factVars, counters>>

SweepVisits(e) ==
  /\ enabled /\ e \in todo
  /\ todo' = todo \ {e}
  /\ target' = [target EXCEPT ![Sweep] = e]
  /\ Move(Sweep, {"idle"}, "adding")
  /\ UNCHANGED <<up, enabled, rowVars, letters, jobs, letter, seen, batch,
                 factVars, counters>>

\* A disabled or deleted instance is sent nothing.
SweepSkips(e) ==
  /\ up /\ work[Sweep] = "idle" /\ ~enabled /\ e \in todo
  /\ todo' = todo \ {e}
  /\ seen' = [seen EXCEPT ![e] = 0]
  /\ UNCHANGED <<up, enabled, rowVars, letters, jobs, work, target, letter, batch,
                 factVars, counters>>

SweepRests ==
  /\ target' = [target EXCEPT ![Sweep] = None]
  /\ seen' = [seen EXCEPT ![target[Sweep]] = 0]

\* reconcileRow(): the replay was accepted.  The UPDATE matches the row's id
\* whatever its state is now.
SweepCloses ==
  /\ \/ Move(Sweep, {"delivered"}, "retiring")
     \/ Move(Sweep, {"queued"}, "retiringQueued")
  /\ Close(target[Sweep], "dispatched")
  /\ UNCHANGED <<up, enabled, tries, elders, stranded, letters, jobs, target,
                 letter, sweepVars, batch, factVars, counters>>

SweepRetires ==
  LET e == target[Sweep] IN
  /\ Move(Sweep, {"retiring", "retiringQueued"}, "idle")
  /\ Retire(e, Open(e))
  /\ mistaken' = IF Open(e) # {} /\ e \notin handled /\ ~\E j \in Slot : jobs[e][j].stage \in Owed
                 THEN mistaken \cup {e} ELSE mistaken
  /\ SweepRests
  /\ UNCHANGED <<up, enabled, rowVars, jobs, letter, todo, batch, handled,
                 unlettered, counters>>

\* The replay failed; the count starts from the snapshot.
Terminal == seen[target[Sweep]] + 1 >= MaxReplays

SweepCounts ==
  LET e == target[Sweep] IN
  /\ Move(Sweep, {"refused"}, "idle") /\ ~Terminal
  /\ tries' = [tries EXCEPT ![e] = seen[e] + 1]
  /\ Touch(e)
  /\ SweepRests
  /\ UNCHANGED <<up, enabled, row, young, elders, stranded, letters, jobs, letter, todo,
                 batch, factVars, counters>>

\* Mutant: the row is marked without looking for a letter.
SkipsLetter ==
  /\ up /\ work[Sweep] = "refused" /\ Terminal
  /\ work' = [work EXCEPT ![Sweep] = "marking"]
  /\ UNCHANGED <<up, enabled, rowVars, letters, jobs, target, letter, sweepVars,
                 batch, factVars, counters>>

\* ensureDeadLetterRow(): count, then save.
SweepLooks ==
  /\ up /\ work[Sweep] = "refused" /\ Terminal
  /\ work' = [work EXCEPT ![Sweep] =
                IF \A l \in Letter : letters[target[Sweep]][l] = "none"
                THEN "lettering" ELSE "marking"]
  /\ UNCHANGED <<up, enabled, rowVars, letters, jobs, target, letter, sweepVars,
                 batch, factVars, counters>>

SweepLetters ==
  /\ Move(Sweep, {"lettering"}, "marking")
  /\ SaveLetter(target[Sweep])
  /\ UNCHANGED <<up, enabled, rowVars, jobs, target, letter, sweepVars, batch,
                 factVars, counters>>

SweepMarks ==
  LET e == target[Sweep] IN
  /\ Move(Sweep, {"marking"}, "idle")
  /\ Close(e, "failed")
  /\ tries' = [tries EXCEPT ![e] = seen[e] + 1]
  /\ SweepRests
  /\ UNCHANGED <<up, enabled, elders, stranded, letters, jobs, letter, todo, batch,
                 factVars, counters>>

\* A rejected write ends the visit, not the sweep.
SweepWriteFails ==
  /\ Move(Sweep, {"queued", "delivered", "retiring", "retiringQueued", "refused",
                  "lettering", "marking"}, "idle")
  /\ Fault
  /\ SweepRests
  /\ UNCHANGED <<up, enabled, rowVars, letters, jobs, letter, todo, batch,
                 factVars, redrives>>

SweepStep ==
  \/ Enqueue(Sweep) \/ SweepCloses \/ SweepRetires \/ SweepCounts \/ SweepLooks
  \/ SweepLetters \/ SweepMarks
  \/ \E e \in Event : SweepVisits(e) \/ SweepSkips(e)

-----------------------------------------------------------------------------
(* RedriveService.redriveBatch().                                          *)

\* At most RedriveBatchSize open letters, least retried first, which is left
\* open here: so are the sessions the caller's key may see.
RedriveReads ==
  /\ up /\ work[Redrive] = "idle" /\ batch = {} /\ redrives < MaxRedrives
  /\ \E found \in SUBSET {p \in Event \X Letter : letters[p[1]][p[2]] = "open"} :
       /\ found # {} /\ Cardinality(found) <= RedriveBatchSize
       /\ batch' = found
  /\ redrives' = redrives + 1
  /\ UNCHANGED <<up, enabled, rowVars, letters, jobs, work, target, letter,
                 sweepVars, factVars, faults>>

RedriveVisits(e, l) ==
  /\ <<e, l>> \in batch
  /\ batch' = batch \ {<<e, l>>}
  /\ target' = [target EXCEPT ![Redrive] = e]
  /\ letter' = l
  /\ Move(Redrive, {"idle"}, "adding")
  /\ UNCHANGED <<up, enabled, rowVars, letters, jobs, sweepVars, factVars, counters>>

\* Mutant: the row is left pending.
KeepsRow ==
  /\ Move(Redrive, {"queued", "delivered"}, "retiring")
  /\ UNCHANGED <<up, enabled, rowVars, letters, jobs, target, letter, sweepVars,
                 batch, factVars, counters>>

\* The row first, and only if it is still pending.
RedriveCloses ==
  LET e == target[Redrive] IN
  /\ Move(Redrive, {"queued", "delivered"}, "retiring")
  /\ IF row[e] = "pending" THEN Close(e, "dispatched") ELSE UNCHANGED <<row, young, fresh>>
  /\ UNCHANGED <<up, enabled, tries, elders, stranded, letters, jobs, target, letter,
                 sweepVars, batch, factVars, counters>>

RedriveRests ==
  /\ target' = [target EXCEPT ![Redrive] = None]
  /\ letter' = 0

RedriveRetires ==
  /\ Move(Redrive, {"retiring"}, "idle")
  /\ Retire(target[Redrive], {letter})
  /\ RedriveRests
  /\ UNCHANGED <<up, enabled, rowVars, jobs, sweepVars, batch, factVars, counters>>

\* Mutant: a swallowed failure closes the letter too.
RetiresAnyway ==
  /\ Move(Redrive, {"refused"}, "idle")
  /\ Retire(target[Redrive], {letter})
  /\ RedriveRests
  /\ UNCHANGED <<up, enabled, rowVars, jobs, sweepVars, batch, factVars, counters>>

\* A failed replay leaves the letter open.
RedriveKeeps ==
  /\ Move(Redrive, {"refused"}, "idle")
  /\ RedriveRests
  /\ UNCHANGED <<up, enabled, rowVars, letters, jobs, sweepVars, batch, factVars,
                 counters>>

\* A rejected write ends the whole batch.
RedriveWriteFails ==
  /\ Move(Redrive, {"queued", "delivered", "retiring", "refused"}, "idle")
  /\ Fault
  /\ batch' = {}
  /\ RedriveRests
  /\ UNCHANGED <<up, enabled, rowVars, letters, jobs, sweepVars, factVars,
                 redrives>>

RedriveStep ==
  \/ Enqueue(Redrive) \/ RedriveCloses \/ RedriveRetires \/ RedriveKeeps
  \/ \E e \in Event, l \in Letter : RedriveVisits(e, l)

-----------------------------------------------------------------------------
(* IngressProcessor.process().                                             *)

Become(e, j, from, job) ==
  /\ up /\ jobs[e][j].stage = from
  /\ jobs' = [jobs EXCEPT ![e][j] = job]

JobStarts(e, j) ==
  /\ Become(e, j, "waiting", [jobs[e][j] EXCEPT !.stage = "active"])
  /\ UNCHANGED <<up, enabled, rowVars, letters, work, target, letter, sweepVars,
                 batch, factVars, counters>>

JobDelivers(e, j) ==
  /\ Become(e, j, "active", [NoJob EXCEPT !.stage = "completed"])
  /\ handled' = handled \cup {e}
  /\ UNCHANGED <<up, enabled, rowVars, letters, work, target, letter, sweepVars,
                 batch, unlettered, mistaken, counters>>

\* Mutant: the final attempt is not recognised.
FailsSilently(e, j) ==
  LET made == jobs[e][j].made + 1 IN
  /\ Become(e, j, "active",
            IF made < MaxAttempts
            THEN [jobs[e][j] EXCEPT !.stage = "waiting", !.made = made]
            ELSE [NoJob EXCEPT !.stage = "failed"])
  /\ UNCHANGED <<up, enabled, rowVars, letters, work, target, letter, sweepVars,
                 batch, factVars, counters>>

\* Retried with a backoff, or, on the final attempt, on to the dead letter.
JobFails(e, j) ==
  LET made == jobs[e][j].made + 1 IN
  /\ Become(e, j, "active",
            IF made < MaxAttempts
            THEN [jobs[e][j] EXCEPT !.stage = "waiting", !.made = made]
            ELSE [jobs[e][j] EXCEPT !.stage = "lettering"])
  /\ UNCHANGED <<up, enabled, rowVars, letters, work, target, letter, sweepVars,
                 batch, factVars, counters>>

JobLetters(e, j) ==
  /\ Become(e, j, "lettering", [jobs[e][j] EXCEPT !.stage = "lettered"])
  /\ SaveLetter(e)
  /\ UNCHANGED <<up, enabled, rowVars, work, target, letter, sweepVars, batch,
                 factVars, counters>>

\* The rethrow reaches BullMQ, which moves the job to failed.
JobEnds(e, j) ==
  /\ Become(e, j, "lettered", [NoJob EXCEPT !.stage = "failed"])
  /\ UNCHANGED <<up, enabled, rowVars, letters, work, target, letter, sweepVars,
                 batch, factVars, counters>>

\* The ingress:error hook or the save rejects: failed, without a letter.
JobWriteFails(e, j) ==
  /\ Become(e, j, "lettering", [NoJob EXCEPT !.stage = "failed"])
  /\ Fault
  /\ unlettered' = unlettered \cup {e}
  /\ UNCHANGED <<up, enabled, rowVars, letters, work, target, letter, sweepVars,
                 batch, handled, mistaken, redrives>>

\* removeOnComplete and removeOnFail: BullMQ forgets a finished job.
JobExpires(e, j) ==
  /\ jobs[e][j].stage \in Retained
  /\ jobs' = [jobs EXCEPT ![e][j] = NoJob]
  /\ UNCHANGED <<up, enabled, rowVars, letters, work, target, letter, sweepVars,
                 batch, factVars, counters>>

JobStep(e, j) ==
  JobStarts(e, j) \/ JobDelivers(e, j) \/ JobFails(e, j) \/ JobLetters(e, j) \/ JobEnds(e, j)

-----------------------------------------------------------------------------
(* The process and its surroundings.                                       *)

\* A job that was being processed stalls: once it is put back, the second
\* time BullMQ fails it without calling the processor.
Stall(job) ==
  IF job.stage \notin {"active", "lettering", "lettered"} THEN job
  ELSE IF job.stalls = 0 THEN [job EXCEPT !.stage = "waiting", !.stalls = 1]
  ELSE [NoJob EXCEPT !.stage = "failed"]

Crash ==
  /\ up /\ up' = FALSE
  /\ Fault
  /\ jobs' = [e \in Event |-> [j \in Slot |-> Stall(jobs[e][j])]]
  /\ unlettered' = unlettered \cup
       {e \in Event : \E j \in Slot : jobs[e][j].stage \in {"active", "lettering"}
                                        /\ jobs[e][j].stalls = 1}
  /\ work' = [a \in Actor |-> "idle"]
  /\ target' = [a \in {Sweep, Redrive} |-> None]
  /\ letter' = 0 /\ todo' = {} /\ batch' = {}
  /\ seen' = [e \in Event |-> 0]
  /\ UNCHANGED <<enabled, rowVars, letters, handled, mistaken, redrives>>

Boot ==
  /\ ~up /\ up' = TRUE
  /\ UNCHANGED <<enabled, rowVars, letters, jobs, work, target, letter, sweepVars,
                 batch, factVars, counters>>

\* INGRESS_RECONCILE_GRACE_MS (60 s) go by since the row was created.  The
\* request is over by then: its one inline dispatch has 5 s.
Matures(e) ==
  /\ e \in young /\ elders[e] \cap young = {} /\ work[e] = "idle"
  /\ young' = young \ {e}
  /\ UNCHANGED <<up, enabled, row, tries, fresh, elders, stranded, letters, jobs, work,
                 target, letter, sweepVars, batch, factVars, counters>>

\* They go by since it was last tried.
Ages(e) ==
  /\ e \in fresh \ young
  /\ fresh' = fresh \ {e}
  /\ UNCHANGED <<up, enabled, row, tries, young, elders, stranded, letters, jobs, work,
                 target, letter, sweepVars, batch, factVars, counters>>

\* Another instance is disabled or deleted with a delivery pending.  Behind the
\* last event its row would be in nobody's way.
Strands(f) ==
  /\ f \notin stranded /\ \E e \in Event : row[e] = "none"
  /\ stranded' = stranded \cup {f}
  /\ UNCHANGED <<up, enabled, row, tries, young, fresh, elders, letters, jobs, work,
                 target, letter, sweepVars, batch, factVars, counters>>

\* It is enabled again and served, or retention prunes the row.
Leaves(f) ==
  /\ f \in stranded
  /\ stranded' = stranded \ {f}
  /\ elders' = [e \in Event |-> elders[e] \ {f}]
  /\ UNCHANGED <<up, enabled, row, tries, young, fresh, letters, jobs, work, target,
                 letter, sweepVars, batch, factVars, counters>>

\* An operator disables the plugin instance, and enables it again.
Disable ==
  /\ up /\ enabled /\ enabled' = FALSE
  /\ Fault
  /\ UNCHANGED <<up, rowVars, letters, jobs, work, target, letter, sweepVars,
                 batch, factVars, redrives>>

Enable ==
  /\ up /\ ~enabled /\ enabled' = TRUE
  /\ UNCHANGED <<up, rowVars, letters, jobs, work, target, letter, sweepVars,
                 batch, factVars, counters>>

LiveStep(e) ==
  Enqueue(e) \/ LiveCloses(e) \/ LiveCounts(e) \/ LiveTouches(e) \/ LiveLetters(e)

Next ==
  \/ \E e \in Event : Receive(e) \/ LiveStep(e) \/ LiveWriteFails(e) \/ Matures(e) \/ Ages(e)
  \/ \E f \in Foreign : Strands(f) \/ Leaves(f)
  \/ SweepReads \/ SweepStep \/ SweepWriteFails
  \/ RedriveReads \/ RedriveStep \/ RedriveWriteFails
  \/ \E e \in Event, j \in Slot : JobStep(e, j) \/ JobWriteFails(e, j) \/ JobExpires(e, j)
  \/ Crash \/ Boot \/ Disable \/ Enable

Spec == Init /\ [][Next]_vars

\* Promises settle, the worker and the interval timer run, a dead process is
\* restarted.  Nothing is assumed of providers, operators, faults, of what
\* Redis and the plugins answer, or of what BullMQ forgets.
Fairness ==
  /\ WF_vars(Boot) /\ WF_vars(SweepReads) /\ WF_vars(SweepStep) /\ WF_vars(RedriveStep)
  /\ \A e \in Event :
       /\ WF_vars(LiveStep(e)) /\ WF_vars(Matures(e)) /\ WF_vars(Ages(e))
       /\ \A j \in Slot : WF_vars(JobStep(e, j))

FairSpec == Spec /\ Fairness

-----------------------------------------------------------------------------
(* Properties.                                                             *)

\* The failure of the request counts, but does not end the budget.
MostTries == IF MaxReplays = 1 THEN 2 ELSE MaxReplays

\* Every variable keeps to its values; the attempts of a row stay inside the
\* replay budget (reconcileRow: terminal).
TypeOK ==
  /\ up \in BOOLEAN /\ enabled \in BOOLEAN
  /\ row \in [Event -> {"none", "pending", "dispatched", "failed"}]
  /\ tries \in [Event -> 0..MostTries]
  /\ young \subseteq Event /\ fresh \subseteq Event /\ todo \subseteq Event
  /\ elders \in [Event -> SUBSET (Event \cup Foreign)]
  /\ stranded \subseteq Foreign
  /\ letters \in [Event -> [Letter -> {"none", "open", "redriven"}]]
  /\ jobs \in [Event -> [Slot -> [stage : Owed \cup Retained \cup {"none", "lettered"},
                                  made : 0..(MaxAttempts - 1), stalls : 0..1]]]
  /\ work \in [Actor -> Stages]
  /\ target \in [{Sweep, Redrive} -> Event \cup {None}] /\ letter \in Slot
  /\ seen \in [Event -> 0..(MostTries - 1)]
  /\ batch \subseteq Event \X Letter
  /\ handled \subseteq Event /\ unlettered \subseteq Event /\ mistaken \subseteq Event
  /\ faults \in 0..MaxFaults /\ redrives \in 0..MaxRedrives

\* An event that was answered 202 is always somebody's: its row is pending
\* with the payload, a plugin handled it, BullMQ still holds a job, or a dead
\* letter is open for redrive; but for a job that failed without a letter
\* (JobWriteFails, a second stall) and the letter of a failed job, closed by a
\* sweep whose add() had found that very job.
Accounted ==
  \A e \in Event :
    row[e] \in {"none", "pending"} \/ e \in handled \cup unlettered \cup mistaken
      \/ Open(e) # {} \/ \E j \in Slot : jobs[e][j].stage \in Owed

\* A row marked failed has given its payload to a dead letter before
\* (reconcileRow: "DLQ BEFORE the terminal mark").
FailedHasLetter ==
  \A e \in Event : row[e] = "failed" => \E l \in Letter : letters[e][l] # "none"

\* A delivery with a letter that was redriven is not replayed by a later sweep
\* as well (redriveBatch: "Retire the matching ingress_events row FIRST").
RedrivenIsNotStale ==
  \A e \in Event, l \in Letter : letters[e][l] = "redriven" => row[e] # "pending"

\* The sweep closes letters only of a delivery that a plugin got or that BullMQ
\* is still to make (reconcileRow: "the replay just delivered it").
RetiredIsDelivered == mistaken = {}

\* The sweep replays pending rows only (class comment: "'failed'/'dispatched'
\* rows are never re-queued").
ReplaysOnlyPending ==
  [][\A e \in Event : SweepVisits(e) => row[e] = "pending"]_vars

\* The row is closed, and a plugin or the operator has the event.
Answered(e) ==
  row[e] # "pending" /\ (e \in handled \cup unlettered \cup mistaken \/ Open(e) # {})

\* The batch of every sweep is full before it comes to e.
Crowded(e) == Cardinality(elders[e] \cap stranded) >= BatchSize

\* An event that was answered 202 is handled, or left to the operator in a
\* dead letter, with the two exceptions of Accounted; and its row does not stay
\* pending.  A disabled instance is the operator's word to wait.  A batch full
\* of older rows that no sweep may replay starves the event: nothing is
\* promised before one of them is gone.
EventuallyAnswered ==
  \A e \in Event :
    row[e] = "pending" /\ ~Crowded(e) ~> Answered(e) \/ ~enabled

\* The same with a sweep that reaches every row in the end (class comment of
\* the reconciler: "Closes the last silent-loss window").
NeverStarved ==
  \A e \in Event : row[e] = "pending" ~> Answered(e) \/ ~enabled
=============================================================================
