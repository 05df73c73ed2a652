---------------------- MODULE WebhookDelivery_proofs ----------------------
(***************************************************************************)
(* Proofs about WebhookDelivery, for every number of deliveries, processes *)
(* and crashes and for both delivery modes: its types, that a row closed *)
(* as dispatched always has somebody answering for it, that a row given up *)
(* on has too, and what the replay budget bounds.                          *)
(***************************************************************************)
EXTENDS WebhookDelivery, FiniteSets, FiniteSetTheorems, TLAPS

-----------------------------------------------------------------------------
(* Types.                                                                  *)

\* An actor that is not idle works on a delivery.
LEMMA OnIsDelivery ==
  ASSUME TypeOK, NEW a \in Actor, work[a] # "idle"
  PROVE  On(a) \in Delivery
  BY ActorsAssumption DEF TypeOK, On, Actor

\* The initial states are typed.
LEMMA InitTypeOK == Init => TypeOK
  BY ActorsAssumption, BoundsAssumption
  DEF Init, TypeOK, Actor, Rows, Phases, Stages, Outcomes, Owned, JobStages, Job, JobNumber

\* A move between two statements of deliverOne().
LEMMA MoveTypes ==
  ASSUME TypeOK, NEW a \in Actor, NEW from \in Stages, NEW to \in Stages,
         from # "idle", to # "idle", Move(a, from, to)
  PROVE  /\ work' \in [Actor -> Stages]
         /\ \A b \in Actor : work'[b] = "idle" <=> work[b] = "idle"
  BY DEF TypeOK, Move

\* Such a move keeps the types if it leaves the rest of the state typed.
LEMMA MovedTypes ==
  ASSUME TypeOK, NEW a \in Actor, NEW from \in Stages, NEW to \in Stages,
         from # "idle", to # "idle", Move(a, from, to),
         UNCHANGED <<outboxVars, liveVars, sweepVars, crashes>>,
         letters' \in [Delivery -> Nat], received' \subseteq Delivery,
         cancelled' \subseteq Delivery,
         jobs' \in [Delivery -> [JobNumber -> Job]]
  PROVE  TypeOK'
  <1>1. /\ work' \in [Actor -> Stages]
        /\ \A b \in Actor : work'[b] = "idle" <=> work[b] = "idle"
    BY MoveTypes
  <1>2. QED
    BY <1>1 DEF TypeOK, Actor, outboxVars, liveVars, sweepVars

\* A worker's step on one job.
LEMMA JobMoveTypes ==
  ASSUME TypeOK, NEW d \in Delivery, NEW j \in JobNumber, NEW from,
         NEW to \in JobStages, NEW p \in Proc \cup {None}, JobMove(d, j, from, to, p)
  PROVE  jobs' \in [Delivery -> [JobNumber -> Job]]
  <1> DEFINE moved == [stage |-> to, at |-> p, stalls |-> jobs[d][j].stalls]
  <1>1. jobs \in [Delivery -> [JobNumber -> Job]]
    BY DEF TypeOK
  <1>2. moved \in Job
    <2>1. jobs[d][j] \in Job
      BY <1>1
    <2>2. QED
      BY <2>1 DEF Job
  <1>3. [jobs[d] EXCEPT ![j] = moved] \in [JobNumber -> Job]
    BY <1>1, <1>2
  <1>4. jobs' = [jobs EXCEPT ![d] = [jobs[d] EXCEPT ![j] = moved]]
    BY DEF JobMove
  <1>5. QED
    BY <1>1, <1>3, <1>4

\* The process of a job is a process or none.
LEMMA JobAtTypes ==
  ASSUME TypeOK, NEW d \in Delivery, NEW j \in JobNumber
  PROVE  jobs[d][j].at \in Proc \cup {None}
  BY DEF TypeOK, Job

\* Nothing but the jobs, the dead letters and the receiver changes.
LEMMA JobStepTypes ==
  ASSUME TypeOK, jobs' \in [Delivery -> [JobNumber -> Job]],
         letters' \in [Delivery -> Nat], received' \subseteq Delivery,
         UNCHANGED <<outboxVars, cancelled, liveVars, work, sweepVars, crashes>>
  PROVE  TypeOK'
  BY DEF TypeOK, outboxVars, liveVars, sweepVars

\* Dispatch keeps the types.
LEMMA DispatchTypes ==
  ASSUME TypeOK, NEW d \in Delivery, NEW p \in Proc, Dispatch(d, p)
  PROVE  TypeOK'
  BY ActorsAssumption
  DEF Dispatch, TypeOK, Rows, Phases, factVars, sweepVars

\* LimiterAdmits keeps the types.
LEMMA LimiterAdmitsTypes ==
  ASSUME TypeOK, NEW d \in Delivery, LimiterAdmits(d)
  PROVE  TypeOK'
  BY ActorsAssumption
  DEF LimiterAdmits, Move, TypeOK, Actor, Phases, Stages, outboxVars, factVars, sweepVars

\* LimiterRefuses keeps the types.
LEMMA LimiterRefusesTypes ==
  ASSUME TypeOK, NEW d \in Delivery, LimiterRefuses(d)
  PROVE  TypeOK'
  BY ActorsAssumption
  DEF LimiterRefuses, Move, TypeOK, Actor, Phases, Stages, outboxVars, factVars, sweepVars

\* RefusedEnds keeps the types.
LEMMA RefusedEndsTypes ==
  ASSUME TypeOK, NEW d \in Delivery, RefusedEnds(d)
  PROVE  TypeOK'
  BY ActorsAssumption
  DEF RefusedEnds, Ended, TypeOK, Actor, Phases, Stages, outboxVars, factVars, sweepVars

\* LiveCloses keeps the types.
LEMMA LiveClosesTypes ==
  ASSUME TypeOK, NEW d \in Delivery, LiveCloses(d)
  PROVE  TypeOK'
  BY ActorsAssumption
  DEF LiveCloses, Ended, Close, TypeOK, Actor, Rows, Phases, Stages, factVars, sweepVars

\* PreflightCancels keeps the types.
LEMMA PreflightCancelsTypes ==
  ASSUME TypeOK, NEW a \in Actor, PreflightCancels(a)
  PROVE  TypeOK'
  <1>1. Move(a, "preflight", "cancelled")
    BY DEF PreflightCancels
  <1>2. work[a] # "idle" /\ On(a) \in Delivery
    BY <1>1, OnIsDelivery DEF Move
  <1>3. /\ letters' \in [Delivery -> Nat]
        /\ received' \subseteq Delivery /\ cancelled' \subseteq Delivery
        /\ jobs' \in [Delivery -> [JobNumber -> Job]]
        /\ UNCHANGED <<outboxVars, liveVars, sweepVars, crashes>>
    BY <1>2 DEF TypeOK, PreflightCancels, factVars
  <1>4. QED
    BY <1>1, <1>3, MovedTypes DEF Stages, Outcomes

\* PreflightFails keeps the types.
LEMMA PreflightFailsTypes ==
  ASSUME TypeOK, NEW a \in Actor, PreflightFails(a)
  PROVE  TypeOK'
  <1>1. Move(a, "preflight", "checking")
    BY DEF PreflightFails
  <1>2. work[a] # "idle" /\ On(a) \in Delivery
    BY <1>1, OnIsDelivery DEF Move
  <1>3. /\ letters' \in [Delivery -> Nat]
        /\ received' \subseteq Delivery /\ cancelled' \subseteq Delivery
        /\ jobs' \in [Delivery -> [JobNumber -> Job]]
        /\ UNCHANGED <<outboxVars, liveVars, sweepVars, crashes>>
    BY <1>2 DEF TypeOK, PreflightFails, factVars
  <1>4. QED
    BY <1>1, <1>3, MovedTypes DEF Stages, Outcomes

\* PreflightPasses keeps the types.
LEMMA PreflightPassesTypes ==
  ASSUME TypeOK, NEW a \in Actor, PreflightPasses(a)
  PROVE  TypeOK'
  <1>1. Move(a, "preflight", IF QueueEnabled THEN "adding" ELSE "posting")
    BY DEF PreflightPasses
  <1>2. work[a] # "idle" /\ On(a) \in Delivery
    BY <1>1, OnIsDelivery DEF Move
  <1>3. /\ letters' \in [Delivery -> Nat]
        /\ received' \subseteq Delivery /\ cancelled' \subseteq Delivery
        /\ jobs' \in [Delivery -> [JobNumber -> Job]]
        /\ UNCHANGED <<outboxVars, liveVars, sweepVars, crashes>>
    BY <1>2 DEF TypeOK, PreflightPasses, factVars
  <1>4. QED
    BY <1>1, <1>3, MovedTypes DEF Stages, Outcomes

\* AddReplies keeps the types.
LEMMA AddRepliesTypes ==
  ASSUME TypeOK, NEW a \in Actor, AddReplies(a)
  PROVE  TypeOK'
  <1>1. Move(a, "added", "enqueued")
    BY DEF AddReplies
  <1>2. work[a] # "idle" /\ On(a) \in Delivery
    BY <1>1, OnIsDelivery DEF Move
  <1>3. /\ letters' \in [Delivery -> Nat]
        /\ received' \subseteq Delivery /\ cancelled' \subseteq Delivery
        /\ jobs' \in [Delivery -> [JobNumber -> Job]]
        /\ UNCHANGED <<outboxVars, liveVars, sweepVars, crashes>>
    BY <1>2 DEF TypeOK, AddReplies, factVars
  <1>4. QED
    BY <1>1, <1>3, MovedTypes DEF Stages, Outcomes

\* Posted keeps the types.
LEMMA PostedTypes ==
  ASSUME TypeOK, NEW a \in Actor, Posted(a)
  PROVE  TypeOK'
  <1>1. Move(a, "posting", "delivered")
    BY DEF Posted
  <1>2. work[a] # "idle" /\ On(a) \in Delivery
    BY <1>1, OnIsDelivery DEF Move
  <1>3. /\ letters' \in [Delivery -> Nat]
        /\ received' \subseteq Delivery /\ cancelled' \subseteq Delivery
        /\ jobs' \in [Delivery -> [JobNumber -> Job]]
        /\ UNCHANGED <<outboxVars, liveVars, sweepVars, crashes>>
    BY <1>2 DEF TypeOK, Posted, factVars
  <1>4. QED
    BY <1>1, <1>3, MovedTypes DEF Stages, Outcomes

\* PostFails keeps the types.
LEMMA PostFailsTypes ==
  ASSUME TypeOK, NEW a \in Actor, PostFails(a)
  PROVE  TypeOK'
  <1>1. Move(a, "posting", "checking")
    BY DEF PostFails
  <1>2. work[a] # "idle" /\ On(a) \in Delivery
    BY <1>1, OnIsDelivery DEF Move
  <1>3. /\ letters' \in [Delivery -> Nat]
        /\ received' \subseteq Delivery /\ cancelled' \subseteq Delivery
        /\ jobs' \in [Delivery -> [JobNumber -> Job]]
        /\ UNCHANGED <<outboxVars, liveVars, sweepVars, crashes>>
    BY <1>2 DEF TypeOK, PostFails, factVars
  <1>4. QED
    BY <1>1, <1>3, MovedTypes DEF Stages, Outcomes

\* RecordChecks keeps the types.
LEMMA RecordChecksTypes ==
  ASSUME TypeOK, NEW a \in Actor, RecordChecks(a)
  PROVE  TypeOK'
  <1>1. Move(a, "checking", IF letters[On(a)] > 0 THEN "failed" ELSE "inserting")
    BY DEF RecordChecks
  <1>2. work[a] # "idle" /\ On(a) \in Delivery
    BY <1>1, OnIsDelivery DEF Move
  <1>3. /\ letters' \in [Delivery -> Nat]
        /\ received' \subseteq Delivery /\ cancelled' \subseteq Delivery
        /\ jobs' \in [Delivery -> [JobNumber -> Job]]
        /\ UNCHANGED <<outboxVars, liveVars, sweepVars, crashes>>
    BY <1>2 DEF TypeOK, RecordChecks, factVars
  <1>4. QED
    BY <1>1, <1>3, MovedTypes DEF Stages, Outcomes

\* RecordInserts keeps the types.
LEMMA RecordInsertsTypes ==
  ASSUME TypeOK, NEW a \in Actor, RecordInserts(a)
  PROVE  TypeOK'
  <1>1. Move(a, "inserting", "failed")
    BY DEF RecordInserts
  <1>2. work[a] # "idle" /\ On(a) \in Delivery
    BY <1>1, OnIsDelivery DEF Move
  <1>3. /\ letters' \in [Delivery -> Nat]
        /\ received' \subseteq Delivery /\ cancelled' \subseteq Delivery
        /\ jobs' \in [Delivery -> [JobNumber -> Job]]
        /\ UNCHANGED <<outboxVars, liveVars, sweepVars, crashes>>
    BY <1>2 DEF TypeOK, RecordInserts, factVars
  <1>4. QED
    BY <1>1, <1>3, MovedTypes DEF Stages, Outcomes

\* AddFails keeps the types.
LEMMA AddFailsTypes ==
  ASSUME TypeOK, NEW a \in Actor, AddFails(a)
  PROVE  TypeOK'
  <1>1. /\ letters' \in [Delivery -> Nat]
        /\ received' \subseteq Delivery /\ cancelled' \subseteq Delivery
        /\ jobs' \in [Delivery -> [JobNumber -> Job]]
        /\ UNCHANGED <<outboxVars, liveVars, sweepVars, crashes>>
    BY DEF TypeOK, AddFails, factVars
  <1>2. CASE Move(a, "adding", "posting")
    BY <1>1, <1>2, MovedTypes DEF Stages, Outcomes
  <1>3. CASE Move(a, "added", "posting")
    BY <1>1, <1>3, MovedTypes DEF Stages, Outcomes
  <1>4. QED
    BY <1>2, <1>3 DEF AddFails

\* JobAdded keeps the types.
LEMMA JobAddedTypes ==
  ASSUME TypeOK, NEW a \in Actor, JobAdded(a)
  PROVE  TypeOK'
  <1> DEFINE d == On(a)
  <1>1. Move(a, "adding", "added")
    BY DEF JobAdded
  <1>2. work[a] # "idle" /\ d \in Delivery
    BY <1>1, OnIsDelivery DEF Move
  <1> HIDE DEF d
  <1>3. PICK j \in JobNumber :
          jobs' = [jobs EXCEPT ![d][j] = [@ EXCEPT !.stage = "waiting"]]
    BY DEF JobAdded, d
  <1> DEFINE moved == [jobs[d][j] EXCEPT !.stage = "waiting"]
  <1>4. jobs \in [Delivery -> [JobNumber -> Job]]
    BY DEF TypeOK
  <1>5. moved \in Job
    <2>1. jobs[d][j] \in Job
      BY <1>2, <1>4
    <2>2. moved = [stage |-> "waiting", at |-> jobs[d][j].at, stalls |-> jobs[d][j].stalls]
      BY <2>1 DEF Job
    <2>3. QED
      BY <2>1, <2>2 DEF Job, JobStages, Owned
  <1>6. [jobs[d] EXCEPT ![j] = moved] \in [JobNumber -> Job]
    BY <1>2, <1>4, <1>5
  <1>7. jobs' \in [Delivery -> [JobNumber -> Job]]
    BY <1>2, <1>3, <1>4, <1>6
  <1>8. /\ letters' \in [Delivery -> Nat]
        /\ received' \subseteq Delivery /\ cancelled' \subseteq Delivery
        /\ UNCHANGED <<outboxVars, liveVars, sweepVars, crashes>>
    BY DEF TypeOK, JobAdded, factVars
  <1>9. QED
    BY <1>1, <1>7, <1>8, MovedTypes DEF Stages, Outcomes

\* SweepScans keeps the types.
LEMMA SweepScansTypes ==
  ASSUME TypeOK, NEW p \in Proc, SweepScans(p)
  PROVE  TypeOK'
  BY ActorsAssumption
  DEF SweepScans, Scans, Stale, TypeOK, outboxVars, factVars, liveVars

\* SweepRetires keeps the types.
LEMMA SweepRetiresTypes ==
  ASSUME TypeOK, NEW p \in Proc, NEW d \in Delivery, SweepRetires(p, d)
  PROVE  TypeOK'
  BY ActorsAssumption
  DEF SweepRetires, Takes, Close, TypeOK, Rows, factVars, liveVars

\* SweepReplays keeps the types.
LEMMA SweepReplaysTypes ==
  ASSUME TypeOK, NEW p \in Proc, NEW d \in Delivery, SweepReplays(p, d)
  PROVE  TypeOK'
  BY ActorsAssumption
  DEF SweepReplays, Replays, Takes, TypeOK, Actor, Stages, factVars, liveVars

\* SweepSettles keeps the types.
LEMMA SweepSettlesTypes ==
  ASSUME TypeOK, NEW p \in Proc, SweepSettles(p)
  PROVE  TypeOK'
  <1>1. p \in Actor /\ p \notin Delivery /\ work[p] # "idle"
    BY ActorsAssumption DEF Actor, SweepSettles, Outcomes
  <1>2. target[p] \in Delivery
    BY <1>1, OnIsDelivery DEF On
  <1>3. row' \in [Delivery -> Rows]
    BY <1>2 DEF TypeOK, SweepSettles, Close, Rows
  <1>4. /\ work' \in [Actor -> Stages]
        /\ target' \in [Proc -> Delivery \cup {None}]
        /\ \A q \in Proc : work'[q] = "idle" <=> target'[q] = None
        /\ \A d \in Delivery : work'[d] = work[d]
    BY <1>1 DEF TypeOK, SweepSettles, Stages, Actor
  <1>5. QED
    BY <1>3, <1>4 DEF TypeOK, SweepSettles, factVars, liveVars

\* JobStarts keeps the types.
LEMMA JobStartsTypes ==
  ASSUME TypeOK, NEW d \in Delivery, NEW j \in JobNumber, NEW p \in Proc, JobStarts(d, j, p)
  PROVE  TypeOK'
  <1>1. jobs' \in [Delivery -> [JobNumber -> Job]]
    <2>1. JobMove(d, j, "waiting", "active", p)
      BY DEF JobStarts
    <2>2. QED
      BY <2>1, JobMoveTypes, JobAtTypes DEF JobStages, Owned
  <1>2. /\ letters' \in [Delivery -> Nat] /\ received' \subseteq Delivery
        /\ UNCHANGED <<outboxVars, cancelled, liveVars, work, sweepVars, crashes>>
    BY DEF TypeOK, JobStarts, factVars
  <1>3. QED
    BY <1>1, <1>2, JobStepTypes

\* JobDelivers keeps the types.
LEMMA JobDeliversTypes ==
  ASSUME TypeOK, NEW d \in Delivery, NEW j \in JobNumber, JobDelivers(d, j)
  PROVE  TypeOK'
  <1>1. jobs' \in [Delivery -> [JobNumber -> Job]]
    <2>1. JobMove(d, j, "active", "delivered", None)
      BY DEF JobDelivers
    <2>2. QED
      BY <2>1, JobMoveTypes, JobAtTypes DEF JobStages, Owned
  <1>2. /\ letters' \in [Delivery -> Nat] /\ received' \subseteq Delivery
        /\ UNCHANGED <<outboxVars, cancelled, liveVars, work, sweepVars, crashes>>
    BY DEF TypeOK, JobDelivers, factVars
  <1>3. QED
    BY <1>1, <1>2, JobStepTypes

\* JobFails keeps the types.
LEMMA JobFailsTypes ==
  ASSUME TypeOK, NEW d \in Delivery, NEW j \in JobNumber, JobFails(d, j)
  PROVE  TypeOK'
  <1>1. jobs' \in [Delivery -> [JobNumber -> Job]]
    <2>1. JobMove(d, j, "active", "checking", jobs[d][j].at)
      BY DEF JobFails
    <2>2. QED
      BY <2>1, JobMoveTypes, JobAtTypes DEF JobStages, Owned
  <1>2. /\ letters' \in [Delivery -> Nat] /\ received' \subseteq Delivery
        /\ UNCHANGED <<outboxVars, cancelled, liveVars, work, sweepVars, crashes>>
    BY DEF TypeOK, JobFails, factVars
  <1>3. QED
    BY <1>1, <1>2, JobStepTypes

\* JobStallFails keeps the types.
LEMMA JobStallFailsTypes ==
  ASSUME TypeOK, NEW d \in Delivery, NEW j \in JobNumber, NEW p \in Proc, JobStallFails(d, j, p)
  PROVE  TypeOK'
  <1>1. jobs' \in [Delivery -> [JobNumber -> Job]]
    <2>1. JobMove(d, j, "stalled", "checking", p)
      BY DEF JobStallFails
    <2>2. QED
      BY <2>1, JobMoveTypes, JobAtTypes DEF JobStages, Owned
  <1>2. /\ letters' \in [Delivery -> Nat] /\ received' \subseteq Delivery
        /\ UNCHANGED <<outboxVars, cancelled, liveVars, work, sweepVars, crashes>>
    BY DEF TypeOK, JobStallFails, factVars
  <1>3. QED
    BY <1>1, <1>2, JobStepTypes

\* JobInserts keeps the types.
LEMMA JobInsertsTypes ==
  ASSUME TypeOK, NEW d \in Delivery, NEW j \in JobNumber, JobInserts(d, j)
  PROVE  TypeOK'
  <1>1. jobs' \in [Delivery -> [JobNumber -> Job]]
    <2>1. JobMove(d, j, "inserting", "dead", None)
      BY DEF JobInserts
    <2>2. QED
      BY <2>1, JobMoveTypes, JobAtTypes DEF JobStages, Owned
  <1>2. /\ letters' \in [Delivery -> Nat] /\ received' \subseteq Delivery
        /\ UNCHANGED <<outboxVars, cancelled, liveVars, work, sweepVars, crashes>>
    BY DEF TypeOK, JobInserts, factVars
  <1>3. QED
    BY <1>1, <1>2, JobStepTypes

\* JobChecks keeps the types.
LEMMA JobChecksTypes ==
  ASSUME TypeOK, NEW d \in Delivery, NEW j \in JobNumber, JobChecks(d, j)
  PROVE  TypeOK'
  <1>1. jobs' \in [Delivery -> [JobNumber -> Job]]
    <2>1. \/ JobMove(d, j, "checking", "dead", None)
          \/ JobMove(d, j, "checking", "inserting", jobs[d][j].at)
      BY DEF JobChecks
    <2>2. QED
      BY <2>1, JobMoveTypes, JobAtTypes DEF JobStages, Owned
  <1>2. /\ letters' \in [Delivery -> Nat] /\ received' \subseteq Delivery
        /\ UNCHANGED <<outboxVars, cancelled, liveVars, work, sweepVars, crashes>>
    BY DEF TypeOK, JobChecks, factVars
  <1>3. QED
    BY <1>1, <1>2, JobStepTypes

\* Crash keeps the types.
LEMMA CrashTypes ==
  ASSUME TypeOK, NEW p \in Proc, Crash(p)
  PROVE  TypeOK'
  BY ActorsAssumption, BoundsAssumption
  DEF Crash, AfterStall, TypeOK, Actor, Phases, Stages, Owned, JobStages, Job, outboxVars, factVars

\* Ages keeps the types.
LEMMA AgesTypes ==
  ASSUME TypeOK, NEW d \in Delivery, Ages(d)
  PROVE  TypeOK'
  BY ActorsAssumption
  DEF Ages, TypeOK, factVars, liveVars, sweepVars

\* Deactivated keeps the types.
LEMMA DeactivatedTypes ==
  ASSUME TypeOK, NEW d \in Delivery, Deactivated(d)
  PROVE  TypeOK'
  BY ActorsAssumption
  DEF Deactivated, TypeOK, factVars, liveVars, sweepVars

\* Prune keeps the types.
LEMMA PruneTypes ==
  ASSUME TypeOK, NEW d \in Delivery, Prune(d)
  PROVE  TypeOK'
  BY ActorsAssumption
  DEF Prune, TypeOK, Rows, factVars, liveVars, sweepVars

\* Every step keeps the types.
LEMMA NextTypeOK == TypeOK /\ [Next]_vars => TypeOK'
  <1> SUFFICES ASSUME TypeOK, [Next]_vars PROVE TypeOK'
    OBVIOUS
  <1>1. ASSUME NEW a \in Actor, Attempt(a) PROVE TypeOK'
    BY <1>1, PreflightCancelsTypes, PreflightFailsTypes, PreflightPassesTypes,
       JobAddedTypes, AddRepliesTypes, AddFailsTypes, PostedTypes, PostFailsTypes,
       RecordChecksTypes, RecordInsertsTypes DEF Attempt
  <1>2. ASSUME NEW d \in Delivery, LiveStep(d) PROVE TypeOK'
    BY <1>1, <1>2, LimiterAdmitsTypes, LimiterRefusesTypes, RefusedEndsTypes,
       LiveClosesTypes DEF LiveStep, Actor
  <1>3. ASSUME NEW p \in Proc, SweepStep(p) PROVE TypeOK'
    BY <1>1, <1>3, SweepScansTypes, SweepSettlesTypes, SweepRetiresTypes,
       SweepReplaysTypes DEF SweepStep, Actor
  <1>4. ASSUME NEW d \in Delivery, NEW j \in JobNumber, JobStep(d, j) PROVE TypeOK'
    BY <1>4, JobStartsTypes, JobDeliversTypes, JobFailsTypes, JobStallFailsTypes,
       JobChecksTypes, JobInsertsTypes DEF JobStep
  <1>5. CASE UNCHANGED vars
    BY <1>5 DEF TypeOK, outboxVars, factVars, liveVars, sweepVars, vars
  <1>6. QED
    BY <1>2, <1>3, <1>4, <1>5, DispatchTypes, CrashTypes, AgesTypes,
       DeactivatedTypes, PruneTypes DEF Next

\* The variables of WebhookDelivery have their types in every reachable state,
\* a reconciler has a target exactly while it replays, and a live delivery a
\* process exactly while it runs.
THEOREM WebhookTypeOK == Spec => []TypeOK
  <1>1. TypeOK /\ [Next]_vars => TypeOK'
    BY NextTypeOK
  <1>2. QED
    BY InitTypeOK, <1>1, PTL DEF Spec

-----------------------------------------------------------------------------
(* Who answers for a delivery.                                             *)

\* Somebody has had it: the facts the receiver, the plugins, the dead letters
\* and BullMQ keep.  None of them is ever taken back.
Held(d) == Answered(d) \/ \E j \in JobNumber : jobs[d][j].stage # "none"

\* What an actor's outcome, and a finished job, say about the delivery.
OutcomesHold ==
  \A a \in Actor, d \in Delivery :
    On(a) = d /\ work[a] \in Outcomes \cup {"added"} => Held(d)
JobsHold ==
  \A d \in Delivery, j \in JobNumber :
    /\ jobs[d][j].stage = "dead" => letters[d] > 0
    /\ jobs[d][j].stage = "delivered" => d \in received
DispatchedHolds == \A d \in Delivery : row[d] = "dispatched" => Held(d)
Holds == TypeOK /\ OutcomesHold /\ JobsHold /\ DispatchedHolds

-----------------------------------------------------------------------------
(* The facts only grow.                                                    *)

\* What a step may not take back.
Grows ==
  /\ \A d \in Delivery : letters[d] > 0 => letters'[d] > 0
  /\ received \subseteq received' /\ cancelled \subseteq cancelled'
  /\ \A d \in Delivery, j \in JobNumber :
       jobs[d][j].stage # "none" => jobs'[d][j].stage # "none"

\* A worker's step on a job leaves the stage of every other job.
LEMMA JobMoveStages ==
  ASSUME TypeOK, NEW d \in Delivery, NEW j \in JobNumber, NEW from, NEW to, NEW p,
         JobMove(d, j, from, to, p)
  PROVE  /\ jobs[d][j].stage = from /\ jobs'[d][j].stage = to
         /\ \A e \in Delivery, i \in JobNumber :
              e # d \/ i # j => jobs'[e][i] = jobs[e][i]
  BY DEF TypeOK, JobMove

\* No step of deliverOne() takes a fact back.
LEMMA AttemptGrows ==
  ASSUME TypeOK, NEW a \in Actor, Attempt(a)
  PROVE  Grows
  <1>1. work[a] # "idle"
    BY DEF Attempt, PreflightCancels, PreflightFails, PreflightPasses, JobAdded,
           AddReplies, AddFails, Posted, PostFails, RecordChecks, RecordInserts, Move
  <1>2. On(a) \in Delivery
    BY <1>1, OnIsDelivery
  <1>3. CASE JobAdded(a)
    <2> DEFINE d == On(a)
    <2>1. PICK j \in JobNumber :
            /\ jobs[d][j].stage = "none"
            /\ jobs' = [jobs EXCEPT ![d][j] = [@ EXCEPT !.stage = "waiting"]]
      BY <1>3 DEF JobAdded
    <2>2. jobs[d][j] \in Job
      BY <1>2 DEF TypeOK
    <2>3. jobs'[d][j].stage = "waiting"
      BY <1>2, <2>1, <2>2 DEF TypeOK, Job
    <2>4. \A e \in Delivery, i \in JobNumber :
            e # d \/ i # j => jobs'[e][i] = jobs[e][i]
      BY <1>2, <2>1 DEF TypeOK
    <2>5. UNCHANGED <<letters, received, cancelled>>
      BY <1>3 DEF JobAdded, factVars
    <2>6. QED
      BY <2>3, <2>4, <2>5 DEF Grows
  <1>4. CASE RecordInserts(a)
    BY <1>2, <1>4 DEF RecordInserts, Grows, TypeOK
  <1>5. CASE ~JobAdded(a) /\ ~RecordInserts(a)
    BY <1>5 DEF Attempt, Grows, PreflightCancels, PreflightFails, PreflightPasses,
       AddReplies, AddFails, Posted, PostFails, RecordChecks, factVars
  <1>6. QED
    BY <1>3, <1>4, <1>5

\* Neither does a worker.
LEMMA JobStepGrows ==
  ASSUME TypeOK, NEW d \in Delivery, NEW j \in JobNumber, JobStep(d, j)
  PROVE  Grows
  <1>1. /\ \A e \in Delivery : letters[e] > 0 => letters'[e] > 0
        /\ received \subseteq received' /\ cancelled \subseteq cancelled'
    <2>1. CASE JobInserts(d, j)
      BY <2>1 DEF JobInserts, TypeOK
    <2>2. CASE ~JobInserts(d, j)
      BY <2>2 DEF JobStep, JobStarts, JobDelivers, JobFails, JobStallFails, JobChecks, factVars
    <2>3. QED
      BY <2>1, <2>2
  <1>2. PICK from, to, p : JobMove(d, j, from, to, p) /\ to # "none"
    BY DEF JobStep, JobStarts, JobDelivers, JobFails, JobStallFails, JobChecks, JobInserts
  <1>3. QED
    BY <1>1, <1>2, JobMoveStages DEF Grows

\* Neither does a crash.
LEMMA CrashGrows ==
  ASSUME TypeOK, NEW p \in Proc, Crash(p)
  PROVE  Grows
  <1>1. \A d \in Delivery, j \in JobNumber :
          jobs'[d][j] = IF jobs[d][j].at = p THEN AfterStall(jobs[d][j]) ELSE jobs[d][j]
    BY DEF Crash
  <1>2. \A d \in Delivery, j \in JobNumber : AfterStall(jobs[d][j]).stage # "none"
    BY DEF AfterStall
  <1>3. QED
    BY <1>1, <1>2 DEF Grows, Crash, factVars

\* No step takes a fact back.
LEMMA NextGrows ==
  ASSUME TypeOK, [Next]_vars
  PROVE  Grows
  <1>1. ASSUME NEW d \in Delivery, LiveStep(d) PROVE Grows
    <2>1. CASE Attempt(d)
      BY <2>1, AttemptGrows DEF Actor
    <2>2. CASE ~Attempt(d)
      BY <1>1, <2>2 DEF LiveStep, LimiterAdmits, LimiterRefuses, RefusedEnds, LiveCloses,
         Grows, factVars
    <2>3. QED
      BY <2>1, <2>2
  <1>2. ASSUME NEW p \in Proc, SweepStep(p) PROVE Grows
    <2>1. CASE Attempt(p)
      BY <2>1, AttemptGrows DEF Actor
    <2>2. CASE ~Attempt(p)
      BY <1>2, <2>2 DEF SweepStep, SweepScans, Scans, SweepSettles, SweepRetires,
         SweepReplays, Replays, Grows, factVars
    <2>3. QED
      BY <2>1, <2>2
  <1>3. ASSUME NEW d \in Delivery, NEW p \in Proc, Dispatch(d, p) PROVE Grows
    BY <1>3 DEF Dispatch, Grows, factVars
  <1>4. ASSUME NEW d \in Delivery, Ages(d) \/ Deactivated(d) \/ Prune(d) PROVE Grows
    BY <1>4 DEF Ages, Deactivated, Prune, Grows, factVars
  <1>5. CASE UNCHANGED vars
    BY <1>5 DEF Grows, vars, factVars
  <1>6. QED
    BY <1>1, <1>2, <1>3, <1>4, <1>5, JobStepGrows, CrashGrows DEF Next

\* So a delivery somebody has stays somebody's.
LEMMA HeldStays ==
  ASSUME Grows, NEW d \in Delivery, Held(d)
  PROVE  Held(d)'
  BY DEF Grows, Held, Answered

-----------------------------------------------------------------------------
(* Outcomes.                                                               *)

\* An actor that moves, with its own outcome accounted for, disturbs no other.
LEMMA MovedOutcomes ==
  ASSUME Holds, Grows, NEW a \in Actor, NEW from, NEW to,
         Move(a, from, to), UNCHANGED target,
         to \in Outcomes \cup {"added"} =>
           \A d \in Delivery : On(a) = d => Held(d)'
  PROVE  OutcomesHold'
  <1> SUFFICES ASSUME NEW b \in Actor, NEW d \in Delivery, On(b) = d,
                      work'[b] \in Outcomes \cup {"added"}
               PROVE  Held(d)'
    BY DEF OutcomesHold, On
  <1>1. CASE b = a
    BY <1>1 DEF Move, Holds, TypeOK
  <1>2. CASE b # a
    <2>1. work'[b] = work[b]
      BY <1>2 DEF Move, Holds, TypeOK
    <2>2. QED
      BY <2>1, HeldStays DEF Holds, OutcomesHold
  <1>3. QED
    BY <1>1, <1>2

\* Nor does a step that only ends work, or begins some.
LEMMA SettledOutcomes ==
  ASSUME Holds, Grows,
         \A b \in Actor : \/ work'[b] \in {"idle", "preflight", "checking"}
                          \/ work'[b] = work[b] /\ On(b)' = On(b)
  PROVE  OutcomesHold'
  <1> SUFFICES ASSUME NEW b \in Actor, NEW d \in Delivery, On(b)' = d,
                      work'[b] \in Outcomes \cup {"added"}
               PROVE  Held(d)'
    BY DEF OutcomesHold
  <1>1. work'[b] = work[b] /\ On(b) = d
    BY DEF Outcomes
  <1>2. QED
    BY <1>1, HeldStays DEF Holds, OutcomesHold

\* A dead letter, a 2xx, a plugin or a job answers for every outcome of
\* deliverOne().
LEMMA AttemptOutcomes ==
  ASSUME Holds, NEW a \in Actor, Attempt(a)
  PROVE  OutcomesHold'
  <1>1. TypeOK /\ Grows
    BY AttemptGrows DEF Holds
  <1>2. UNCHANGED target
    BY DEF Attempt, PreflightCancels, PreflightFails, PreflightPasses, JobAdded,
       AddReplies, AddFails, Posted, PostFails, RecordChecks, RecordInserts, sweepVars
  <1>3. CASE PreflightCancels(a)
    <2>1. Move(a, "preflight", "cancelled")
      BY <1>3 DEF PreflightCancels
    <2>2. \A d \in Delivery : On(a) = d => Held(d)'
      BY <1>3 DEF PreflightCancels, Held, Answered
    <2>3. QED
      BY <1>1, <1>2, <2>1, <2>2, MovedOutcomes
  <1>4. CASE PreflightFails(a)
    <2>1. Move(a, "preflight", "checking")
      BY <1>4 DEF PreflightFails
    <2>2. QED
      BY <1>1, <1>2, <2>1, MovedOutcomes DEF Outcomes
  <1>5. CASE PreflightPasses(a)
    <2>1. Move(a, "preflight", "adding") \/ Move(a, "preflight", "posting")
      BY <1>5 DEF PreflightPasses
    <2>2. QED
      BY <1>1, <1>2, <2>1, MovedOutcomes DEF Outcomes
  <1>6. CASE JobAdded(a)
    <2>1. Move(a, "adding", "added")
      BY <1>6 DEF JobAdded
    <2>2. ASSUME NEW d \in Delivery, On(a) = d PROVE Held(d)'
      <3>1. PICK j \in JobNumber :
              jobs' = [jobs EXCEPT ![d][j] = [@ EXCEPT !.stage = "waiting"]]
        BY <1>6, <2>2 DEF JobAdded
      <3>2. jobs[d][j] \in Job
        BY <1>1 DEF TypeOK
      <3>3. jobs'[d][j].stage = "waiting"
        BY <1>1, <3>1, <3>2 DEF TypeOK, Job
      <3>4. QED
        BY <3>3 DEF Held
    <2>3. QED
      BY <1>1, <1>2, <2>1, <2>2, MovedOutcomes
  <1>7. CASE AddReplies(a)
    <2>1. Move(a, "added", "enqueued")
      BY <1>7 DEF AddReplies
    <2>2. \A d \in Delivery : On(a) = d => Held(d)'
      BY <1>1, <2>1, HeldStays DEF Move, Holds, OutcomesHold
    <2>3. QED
      BY <1>1, <1>2, <2>1, <2>2, MovedOutcomes
  <1>8. CASE AddFails(a)
    <2>1. Move(a, "adding", "posting") \/ Move(a, "added", "posting")
      BY <1>8 DEF AddFails
    <2>2. QED
      BY <1>1, <1>2, <2>1, MovedOutcomes DEF Outcomes
  <1>9. CASE Posted(a)
    <2>1. Move(a, "posting", "delivered")
      BY <1>9 DEF Posted
    <2>2. \A d \in Delivery : On(a) = d => Held(d)'
      BY <1>9 DEF Posted, Held, Answered
    <2>3. QED
      BY <1>1, <1>2, <2>1, <2>2, MovedOutcomes
  <1>10. CASE PostFails(a)
    <2>1. Move(a, "posting", "checking")
      BY <1>10 DEF PostFails
    <2>2. QED
      BY <1>1, <1>2, <2>1, MovedOutcomes DEF Outcomes
  <1>11. CASE RecordChecks(a)
    <2>1. CASE letters[On(a)] > 0
      <3>1. Move(a, "checking", "failed")
        BY <1>11, <2>1 DEF RecordChecks
      <3>2. \A d \in Delivery : On(a) = d => Held(d)'
        BY <1>1, <2>1 DEF Grows, Held, Answered
      <3>3. QED
        BY <1>1, <1>2, <3>1, <3>2, MovedOutcomes
    <2>2. CASE ~(letters[On(a)] > 0)
      <3>1. Move(a, "checking", "inserting")
        BY <1>11, <2>2 DEF RecordChecks
      <3>2. QED
        BY <1>1, <1>2, <3>1, MovedOutcomes DEF Outcomes
    <2>3. QED
      BY <2>1, <2>2
  <1>12. CASE RecordInserts(a)
    <2>1. Move(a, "inserting", "failed")
      BY <1>12 DEF RecordInserts
    <2>2. \A d \in Delivery : On(a) = d => Held(d)'
      BY <1>1, <1>12 DEF RecordInserts, Held, Answered, TypeOK
    <2>3. QED
      BY <1>1, <1>2, <2>1, <2>2, MovedOutcomes
  <1>13. QED
    BY <1>3, <1>4, <1>5, <1>6, <1>7, <1>8, <1>9, <1>10, <1>11, <1>12 DEF Attempt

\* No step makes an outcome out of nothing.
LEMMA NextOutcomes ==
  ASSUME Holds, [Next]_vars
  PROVE  OutcomesHold'
  <1>1. TypeOK /\ Grows
    BY NextGrows DEF Holds
  <1>2. ASSUME NEW d \in Delivery, LiveStep(d) PROVE OutcomesHold'
    <2>1. CASE Attempt(d)
      BY <2>1, AttemptOutcomes DEF Actor
    <2>2. CASE ~Attempt(d)
      <3>1. \A b \in Actor : /\ On(b)' = On(b)
                             /\ work'[b] \in {"idle", "preflight", "checking"} \/ work'[b] = work[b]
        BY <1>1, <1>2, <2>2 DEF LiveStep, LimiterAdmits, LimiterRefuses, RefusedEnds,
           LiveCloses, Ended, Move, On, TypeOK, sweepVars
      <3>2. QED
        BY <1>1, <3>1, SettledOutcomes
    <2>3. QED
      BY <2>1, <2>2
  <1>3. ASSUME NEW p \in Proc, SweepStep(p) PROVE OutcomesHold'
    <2>1. CASE Attempt(p)
      BY <2>1, AttemptOutcomes DEF Actor
    <2>2. CASE ~Attempt(p)
      <3>1. \A b \in Actor : \/ work'[b] \in {"idle", "preflight", "checking"}
                             \/ work'[b] = work[b] /\ On(b)' = On(b)
        BY <1>1, <1>3, <2>2 DEF SweepStep, SweepScans, Scans, SweepSettles, SweepRetires,
           SweepReplays, Replays, On, TypeOK, Actor
      <3>2. QED
        BY <1>1, <3>1, SettledOutcomes
    <2>3. QED
      BY <2>1, <2>2
  <1>4. ASSUME NEW p \in Proc, Crash(p) PROVE OutcomesHold'
    <2>1. \A b \in Actor : \/ work'[b] \in {"idle", "preflight", "checking"}
                           \/ work'[b] = work[b] /\ On(b)' = On(b)
      BY <1>1, <1>4 DEF Crash, On, TypeOK, Actor
    <2>2. QED
      BY <1>1, <2>1, SettledOutcomes
  <1>5. CASE UNCHANGED <<work, target>>
    BY <1>1, <1>5, SettledOutcomes DEF On
  <1>6. ASSUME NEW d \in Delivery, NEW j \in JobNumber, JobStep(d, j)
        PROVE  UNCHANGED <<work, target>>
    BY <1>6 DEF JobStep, JobStarts, JobDelivers, JobFails, JobStallFails, JobChecks,
       JobInserts, sweepVars
  <1>7. QED
    BY <1>2, <1>3, <1>4, <1>5, <1>6 DEF Next, Dispatch, Ages, Deactivated, Prune,
       vars, sweepVars

-----------------------------------------------------------------------------
(* Jobs and rows.                                                          *)

\* A job ends with a delivery or a dead letter.
LEMMA NextJobs ==
  ASSUME Holds, [Next]_vars
  PROVE  JobsHold'
  <1>1. TypeOK /\ Grows /\ JobsHold
    BY NextGrows DEF Holds
  <1>2. CASE UNCHANGED jobs
    BY <1>1, <1>2 DEF JobsHold, Grows
  <1>3. ASSUME NEW a \in Actor, JobAdded(a) PROVE JobsHold'
    <2>1. Move(a, "adding", "added")
      BY <1>3 DEF JobAdded
    <2>2. On(a) \in Delivery
      BY <1>1, <2>1, OnIsDelivery DEF Move
    <2> DEFINE d == On(a)
    <2>3. PICK j \in JobNumber :
            jobs' = [jobs EXCEPT ![d][j] = [@ EXCEPT !.stage = "waiting"]]
      BY <1>3 DEF JobAdded
    <2>4. jobs[d][j] \in Job
      BY <1>1, <2>2 DEF TypeOK
    <2>5. jobs'[d][j].stage = "waiting"
      BY <1>1, <2>2, <2>3, <2>4 DEF TypeOK, Job
    <2>6. \A e \in Delivery, i \in JobNumber :
            e # d \/ i # j => jobs'[e][i] = jobs[e][i]
      BY <1>1, <2>2, <2>3 DEF TypeOK
    <2>7. QED
      BY <1>1, <2>5, <2>6 DEF JobsHold, Grows
  <1>4. ASSUME NEW d \in Delivery, NEW j \in JobNumber, JobStep(d, j) PROVE JobsHold'
    <2>1. PICK from, to, p :
            /\ JobMove(d, j, from, to, p)
            /\ to = "dead" => letters'[d] > 0
            /\ to = "delivered" => d \in received'
      <3>1. CASE \E p \in Proc : JobStarts(d, j, p) \/ JobStallFails(d, j, p)
        BY <3>1 DEF JobStarts, JobStallFails
      <3>2. CASE JobDelivers(d, j)
        BY <3>2 DEF JobDelivers
      <3>3. CASE JobFails(d, j)
        BY <3>3 DEF JobFails
      <3>4. CASE JobChecks(d, j)
        BY <3>4 DEF JobChecks, factVars
      <3>5. CASE JobInserts(d, j)
        <4>1. letters'[d] > 0
          BY <1>1, <3>5 DEF JobInserts, TypeOK
        <4>2. QED
          BY <3>5, <4>1 DEF JobInserts
      <3>6. QED
        BY <1>4, <3>1, <3>2, <3>3, <3>4, <3>5 DEF JobStep
    <2>2. QED
      BY <1>1, <2>1, JobMoveStages DEF JobsHold, Grows
  <1>5. ASSUME NEW p \in Proc, Crash(p) PROVE JobsHold'
    <2>1. \A d \in Delivery, j \in JobNumber :
            jobs'[d][j] = IF jobs[d][j].at = p THEN AfterStall(jobs[d][j]) ELSE jobs[d][j]
      BY <1>5 DEF Crash
    <2>2. \A d \in Delivery, j \in JobNumber :
            AfterStall(jobs[d][j]).stage \notin {"dead", "delivered"}
      BY DEF AfterStall
    <2>3. QED
      BY <1>1, <2>1, <2>2 DEF JobsHold, Grows
  <1>6. ASSUME NEW a \in Actor, Attempt(a), ~JobAdded(a) PROVE UNCHANGED jobs
    BY <1>6 DEF Attempt, PreflightCancels, PreflightFails, PreflightPasses, AddReplies,
       AddFails, Posted, PostFails, RecordChecks, RecordInserts
  <1>7. ASSUME NEW d \in Delivery, LiveStep(d), ~Attempt(d) PROVE UNCHANGED jobs
    BY <1>7 DEF LiveStep, LimiterAdmits, LimiterRefuses, RefusedEnds, LiveCloses
  <1>8. ASSUME NEW p \in Proc, SweepStep(p), ~Attempt(p) PROVE UNCHANGED jobs
    BY <1>8 DEF SweepStep, SweepScans, Scans, SweepSettles, SweepRetires, SweepReplays, Replays
  <1>9. ASSUME NEW d \in Delivery, LiveStep(d) PROVE JobsHold'
    BY <1>2, <1>3, <1>6, <1>7, <1>9 DEF Actor
  <1>10. ASSUME NEW p \in Proc, SweepStep(p) PROVE JobsHold'
    BY <1>2, <1>3, <1>6, <1>8, <1>10 DEF Actor
  <1>11. QED
    BY <1>2, <1>4, <1>5, <1>9, <1>10 DEF Next, Dispatch, Ages, Deactivated, Prune, vars

\* A row is closed as dispatched on an outcome only.
LEMMA NextDispatched ==
  ASSUME Holds, [Next]_vars
  PROVE  DispatchedHolds'
  <1>1. TypeOK /\ Grows /\ DispatchedHolds
    BY NextGrows DEF Holds
  <1>2. CASE \A d \in Delivery : row'[d] = "dispatched" => row[d] = "dispatched"
    BY <1>1, <1>2, HeldStays DEF DispatchedHolds
  <1>3. ASSUME NEW d \in Delivery, Close(d, "dispatched"), Held(d) PROVE DispatchedHolds'
    <2>1. \A e \in Delivery : row'[e] = "dispatched" => row[e] = "dispatched" \/ e = d
      BY <1>1, <1>3 DEF Close, TypeOK
    <2>2. QED
      BY <1>1, <1>3, <2>1, HeldStays DEF DispatchedHolds
  <1>4. ASSUME NEW d \in Delivery, LiveCloses(d) PROVE DispatchedHolds'
    <2>1. On(d) = d /\ work[d] \in Outcomes /\ d \in Actor
      BY <1>4 DEF LiveCloses, On, Actor
    <2>2. Held(d)
      BY <2>1 DEF Holds, OutcomesHold
    <2>3. QED
      BY <1>3, <1>4, <2>2 DEF LiveCloses
  <1>5. ASSUME NEW p \in Proc, SweepSettles(p), work[p] # "failed" PROVE DispatchedHolds'
    <2>1. work[p] \in Outcomes /\ work[p] # "idle" /\ p \in Actor
      BY <1>5 DEF SweepSettles, Actor, Outcomes
    <2>2. On(p) = target[p] /\ target[p] \in Delivery
      BY <1>1, <2>1, OnIsDelivery, ActorsAssumption DEF On
    <2>3. Held(target[p])
      BY <2>1, <2>2 DEF Holds, OutcomesHold
    <2>4. QED
      BY <1>3, <1>5, <2>2, <2>3 DEF SweepSettles
  <1>6. ASSUME NEW a \in Actor, Attempt(a) PROVE row' = row
    BY <1>6 DEF Attempt, PreflightCancels, PreflightFails, PreflightPasses, JobAdded,
       AddReplies, AddFails, Posted, PostFails, RecordChecks, RecordInserts, outboxVars
  <1>7. ASSUME NEW d \in Delivery, LiveStep(d) PROVE DispatchedHolds'
    <2>1. CASE LiveCloses(d)
      BY <1>4, <2>1
    <2>2. CASE Attempt(d)
      BY <1>2, <1>6, <2>2 DEF Actor
    <2>3. CASE ~LiveCloses(d) /\ ~Attempt(d)
      BY <1>2, <1>7, <2>3 DEF LiveStep, LimiterAdmits, LimiterRefuses, RefusedEnds, outboxVars
    <2>4. QED
      BY <2>1, <2>2, <2>3
  <1>8. ASSUME NEW p \in Proc, SweepStep(p) PROVE DispatchedHolds'
    <2>1. CASE SweepSettles(p)
      BY <1>2, <1>5, <2>1 DEF SweepSettles
    <2>2. CASE Attempt(p)
      BY <1>2, <1>6, <2>2 DEF Actor
    <2>3. CASE SweepScans(p)
      BY <1>2, <2>3 DEF SweepScans, Scans, outboxVars
    <2>4. ASSUME NEW d \in Delivery, SweepRetires(p, d) PROVE DispatchedHolds'
      BY <1>1, <1>2, <2>4 DEF SweepRetires, Close, TypeOK
    <2>5. ASSUME NEW d \in Delivery, SweepReplays(p, d) PROVE DispatchedHolds'
      BY <1>2, <2>5 DEF SweepReplays, Replays
    <2>6. QED
      BY <1>8, <2>1, <2>2, <2>3, <2>4, <2>5 DEF SweepStep
  <1>9. ASSUME NEW d \in Delivery, NEW j \in JobNumber, JobStep(d, j) PROVE row' = row
    BY <1>9 DEF JobStep, JobStarts, JobDelivers, JobFails, JobStallFails, JobChecks,
       JobInserts, outboxVars
  <1>10. ASSUME NEW d \in Delivery, NEW p \in Proc, Dispatch(d, p) PROVE DispatchedHolds'
    BY <1>1, <1>2, <1>10 DEF Dispatch, TypeOK
  <1>11. ASSUME NEW d \in Delivery, Prune(d) PROVE DispatchedHolds'
    BY <1>1, <1>2, <1>11 DEF Prune, TypeOK
  <1>12. QED
    BY <1>2, <1>7, <1>8, <1>9, <1>10, <1>11 DEF Next, Crash, Ages, Deactivated,
       vars, outboxVars

\* Whoever has a delivery accounts for it.
LEMMA HeldIsAccounted ==
  ASSUME Holds, NEW d \in Delivery, Held(d)
  PROVE  Accounted(d)
  <1>1. CASE Answered(d)
    BY <1>1 DEF Accounted
  <1>2. ASSUME NEW j \in JobNumber, jobs[d][j].stage # "none" PROVE Accounted(d)
    <2>1. jobs[d][j].stage \in JobStages
      BY DEF Holds, TypeOK, Job
    <2>2. CASE jobs[d][j].stage \in Owned \cup {"lost"}
      BY <2>2 DEF Accounted, HasJob
    <2>3. CASE jobs[d][j].stage \in {"dead", "delivered"}
      BY <2>3 DEF Holds, JobsHold, Accounted, Answered
    <2>4. QED
      BY <1>2, <2>1, <2>2, <2>3 DEF JobStages
  <1>3. QED
    BY <1>1, <1>2 DEF Held

\* The types and the three facts above hold in every reachable state.
LEMMA WebhookHolds == Spec => []Holds
  <1>1. Init => Holds
    <2> SUFFICES ASSUME Init PROVE Holds
      OBVIOUS
    <2>1. TypeOK
      BY InitTypeOK
    <2>2. OutcomesHold /\ JobsHold /\ DispatchedHolds
      BY DEF Init, OutcomesHold, JobsHold, DispatchedHolds, Outcomes, Actor
    <2>3. QED
      BY <2>1, <2>2 DEF Holds
  <1>2. Holds /\ [Next]_vars => Holds'
    BY NextTypeOK, NextOutcomes, NextJobs, NextDispatched DEF Holds
  <1>3. QED
    BY <1>1, <1>2, PTL DEF Spec

\* A row that is never replayed again has reached the receiver, a plugin, the
\* dead letters or BullMQ: whichever of the live path and the reconcilers
\* closed it, however many processes crashed.
THEOREM WebhookDispatched == Spec => []DispatchedIsAccounted
  <1>1. Holds => DispatchedIsAccounted
    BY HeldIsAccounted DEF Holds, DispatchedHolds, DispatchedIsAccounted
  <1>2. QED
    BY WebhookHolds, <1>1, PTL

-----------------------------------------------------------------------------
(* The reconciler's steps.                                                 *)

\* What every step but the reconciler's and a crash leaves alone: no row is
\* given up on, and no webhook comes back.
Quiet ==
  /\ UNCHANGED <<attempts, target, todo, seen, replays, crashes>>
  /\ inactive \subseteq inactive'
  /\ \A d \in Delivery : row'[d] = "failed" => row[d] = "failed"

\* A step is the reconciler's, a crash, or quiet.
LEMMA NextIsQuiet ==
  ASSUME TypeOK, [Next]_vars
  PROVE  \/ Quiet
         \/ \E p \in Proc : SweepScans(p) \/ SweepSettles(p) \/ Crash(p)
         \/ \E p \in Proc, d \in Delivery : SweepRetires(p, d) \/ SweepReplays(p, d)
  <1>1. ASSUME NEW a \in Actor, Attempt(a) PROVE Quiet
    BY <1>1 DEF Attempt, PreflightCancels, PreflightFails, PreflightPasses, JobAdded,
       AddReplies, AddFails, Posted, PostFails, RecordChecks, RecordInserts, Quiet,
       outboxVars, sweepVars
  <1>2. ASSUME NEW d \in Delivery, LiveStep(d) PROVE Quiet
    <2>1. CASE Attempt(d)
      BY <1>1, <2>1 DEF Actor
    <2>2. CASE LimiterAdmits(d) \/ LimiterRefuses(d) \/ RefusedEnds(d)
      BY <2>2 DEF LimiterAdmits, LimiterRefuses, RefusedEnds, Quiet, outboxVars, sweepVars
    <2>3. CASE LiveCloses(d)
      BY <2>3 DEF LiveCloses, Close, Quiet, TypeOK, sweepVars
    <2>4. QED
      BY <1>2, <2>1, <2>2, <2>3 DEF LiveStep
  <1>3. ASSUME NEW d \in Delivery, NEW j \in JobNumber, JobStep(d, j) PROVE Quiet
    BY <1>3 DEF JobStep, JobStarts, JobDelivers, JobFails, JobStallFails, JobChecks,
       JobInserts, Quiet, outboxVars, sweepVars
  <1>4. ASSUME NEW d \in Delivery, NEW p \in Proc, Dispatch(d, p) PROVE Quiet
    BY <1>4 DEF Dispatch, Quiet, TypeOK, sweepVars
  <1>5. ASSUME NEW d \in Delivery, Ages(d) \/ Deactivated(d) \/ Prune(d) PROVE Quiet
    BY <1>5 DEF Ages, Deactivated, Prune, Quiet, TypeOK, sweepVars
  <1>6. CASE UNCHANGED vars
    BY <1>6 DEF vars, outboxVars, sweepVars, Quiet
  <1>7. ASSUME NEW p \in Proc, SweepStep(p), ~SweepScans(p), ~SweepSettles(p),
               ~\E d \in Delivery : SweepRetires(p, d) \/ SweepReplays(p, d)
        PROVE  Quiet
    BY <1>1, <1>7 DEF SweepStep, Actor
  <1>8. QED
    BY <1>2, <1>3, <1>4, <1>5, <1>6, <1>7 DEF Next

-----------------------------------------------------------------------------
(* The budget of a row, with one reconciler.                               *)

\* The reconciler has read what the row says, and the row counts its replays.
Counted ==
  /\ \A d \in Delivery : replays[d] = attempts[d] /\ attempts[d] <= MaxAttempts
  /\ \A p \in Proc : \A d \in todo[p] : seen[p][d] = attempts[d]

\* With one process, a step keeps the count.
LEMMA NextCounted ==
  ASSUME TypeOK, Counted, [Next]_vars, \A p, q \in Proc : p = q
  PROVE  Counted'
  <1>1. CASE Quiet
    BY <1>1 DEF Quiet, Counted
  <1>2. ASSUME NEW p \in Proc, SweepScans(p) PROVE Counted'
    <2>1. /\ todo'[p] = Stale /\ Stale \subseteq Delivery
          /\ seen'[p] = [d \in Delivery |-> IF d \in Stale THEN attempts[d] ELSE 0]
          /\ UNCHANGED <<attempts, replays>>
      BY <1>2 DEF SweepScans, Scans, Stale, TypeOK, outboxVars
    <2>2. QED
      BY <2>1 DEF Counted
  <1>3. ASSUME NEW p \in Proc, SweepSettles(p) PROVE Counted'
    BY <1>3 DEF SweepSettles, Counted
  <1>4. ASSUME NEW p \in Proc, Crash(p) PROVE Counted'
    <2>1. todo'[p] = {} /\ UNCHANGED <<attempts, replays>>
      BY <1>4 DEF Crash, TypeOK, outboxVars
    <2>2. QED
      BY <2>1 DEF Counted
  <1>5. ASSUME NEW p \in Proc, NEW d \in Delivery, Takes(p, d)
        PROVE  \A e \in todo'[p] : e \in todo[p] /\ e # d /\ seen'[p][e] = seen[p][e]
    BY <1>5 DEF Takes, TypeOK
  <1>6. ASSUME NEW p \in Proc, NEW d \in Delivery, SweepRetires(p, d) PROVE Counted'
    <2>1. Takes(p, d) /\ UNCHANGED <<attempts, replays>>
      BY <1>6 DEF SweepRetires
    <2>2. QED
      BY <1>5, <2>1 DEF Counted
  <1>7. ASSUME NEW p \in Proc, NEW d \in Delivery, SweepReplays(p, d) PROVE Counted'
    <2>1. /\ Takes(p, d) /\ d \in todo[p] /\ seen[p][d] < MaxAttempts
          /\ attempts' = [attempts EXCEPT ![d] = seen[p][d] + 1]
          /\ replays' = [replays EXCEPT ![d] = @ + 1]
      BY <1>7 DEF SweepReplays, Replays, Takes
    <2>2. seen[p][d] = attempts[d] /\ attempts[d] = replays[d] /\ attempts[d] \in Nat
      BY <2>1 DEF Counted, TypeOK
    <2>3. \A e \in Delivery : replays'[e] = attempts'[e] /\ attempts'[e] <= MaxAttempts
      BY <2>1, <2>2, BoundsAssumption DEF TypeOK, Counted
    <2>4. \A e \in todo'[p] : seen'[p][e] = attempts'[e]
      BY <1>5, <2>1 DEF TypeOK, Counted
    <2>5. QED
      BY <2>3, <2>4 DEF Counted
  <1>8. QED
    BY <1>1, <1>2, <1>3, <1>4, <1>6, <1>7, NextIsQuiet

\* One reconciler replays a row at most WEBHOOK_RECONCILE_MAX_ATTEMPTS times,
\* however often its process crashes between counting an attempt and making
\* it.  Two reconcilers share no claim on the rows and can exceed the budget.
THEOREM WebhookBudget ==
  ASSUME \A p, q \in Proc : p = q
  PROVE  Spec => []ReplaysWithinBudget
  <1>1. Init => Counted
    BY BoundsAssumption DEF Init, Counted
  <1>2. TypeOK /\ Counted /\ [Next]_vars => Counted'
    BY NextCounted
  <1>3. Counted => ReplaysWithinBudget
    BY DEF Counted, ReplaysWithinBudget
  <1>4. QED
    BY WebhookTypeOK, <1>1, <1>2, <1>3, PTL DEF Spec

-----------------------------------------------------------------------------
(* The rows the reconciler gives up on.                                    *)

\* The replays of a delivery that ended in nothing, or have not ended yet: a
\* replay is cut short only by a crash of its process.
Busy(d) == {p \in Proc : target[p] = d}
Spent(d) == crashes + Cardinality(Busy(d))

\* A delivery nobody has had has cost a crash, or costs a reconciler now, for
\* every attempt that is counted; so has one that was given up on, for the
\* whole budget.
Pays(d) ==
  /\ attempts[d] <= Spent(d)
  /\ \A p \in Proc : d \in todo[p] => seen[p][d] <= Spent(d)
  /\ row[d] = "failed" /\ d \notin inactive => MaxAttempts <= Spent(d)
Paid ==
  \A d \in Delivery : IsFiniteSet(Busy(d)) /\ (~Held(d) => Pays(d))

\* What is paid stays paid while nothing new is counted.
LEMMA PaysOn ==
  ASSUME TypeOK, NEW d \in Delivery, Pays(d), IsFiniteSet(Busy(d)),
         IsFiniteSet(Busy(d)'), crashes' \in Nat,
         Spent(d) <= Spent(d)', attempts'[d] \in Nat,
         attempts'[d] <= attempts[d],
         \A p \in Proc : d \in todo'[p] =>
            \/ seen'[p][d] <= attempts[d] /\ seen'[p][d] \in Nat
            \/ d \in todo[p] /\ seen'[p][d] = seen[p][d],
         inactive \subseteq inactive',
         row'[d] = "failed" /\ d \notin inactive' => row[d] = "failed" \/ MaxAttempts <= Spent(d)
  PROVE  Pays(d)'
  <1>1. Spent(d) \in Nat /\ Spent(d)' \in Nat
    BY FS_CardinalityType DEF Spent, TypeOK
  <1>2. attempts[d] \in Nat /\ \A p \in Proc : seen[p][d] \in Nat
    BY DEF TypeOK
  <1> DEFINE x == Spent(d)
             y == Spent(d)'
  <1>3. x \in Nat /\ y \in Nat /\ x <= y
    BY <1>1
  <1>4. attempts[d] <= x /\ (\A p \in Proc : d \in todo[p] => seen[p][d] <= x)
        /\ (row[d] = "failed" /\ d \notin inactive => MaxAttempts <= x)
    BY DEF Pays
  <1>5. row'[d] = "failed" /\ d \notin inactive' => row[d] = "failed" \/ MaxAttempts <= x
    OBVIOUS
  <1> HIDE DEF x, y
  <1>7. attempts'[d] <= y
    BY <1>2, <1>3, <1>4
  <1>8. \A p \in Proc : d \in todo'[p] => seen'[p][d] <= y
    BY <1>2, <1>3, <1>4
  <1>9. row'[d] = "failed" /\ d \notin inactive' => MaxAttempts <= y
    BY <1>3, <1>4, <1>5, BoundsAssumption
  <1>10. QED
    BY <1>7, <1>8, <1>9 DEF Pays, y

\* Nobody's cost falls while no reconciler lets go of the delivery.
LEMMA SpentKept ==
  ASSUME TypeOK, NEW d \in Delivery, IsFiniteSet(Busy(d)), crashes' = crashes,
         \A p \in Proc : target'[p] = d <=> target[p] = d
  PROVE  IsFiniteSet(Busy(d)') /\ Spent(d)' = Spent(d) /\ crashes' \in Nat
  <1>1. Busy(d)' = Busy(d)
    BY DEF Busy
  <1>2. QED
    BY <1>1 DEF Spent, TypeOK

\* What a row costs is a number.
LEMMA SpentType ==
  ASSUME TypeOK, NEW d \in Delivery, IsFiniteSet(Busy(d))
  PROVE  Spent(d) \in Nat
  BY FS_CardinalityType DEF Spent, TypeOK

\* Every step keeps the costs paid.
LEMMA NextPaid ==
  ASSUME Holds, Paid, [Next]_vars
  PROVE  Paid'
  <1>1. TypeOK /\ TypeOK' /\ Grows
    BY NextTypeOK, NextGrows DEF Holds
  <1> SUFFICES ASSUME NEW d \in Delivery
               PROVE  IsFiniteSet(Busy(d)') /\ (~Held(d)' => Pays(d)')
    BY DEF Paid
  <1>2. IsFiniteSet(Busy(d)) /\ Spent(d) \in Nat /\ (~Held(d)' => ~Held(d) /\ Pays(d))
    BY <1>1, HeldStays, SpentType DEF Paid
  <1>3. /\ attempts[d] \in Nat /\ attempts'[d] \in Nat /\ crashes \in Nat /\ crashes' \in Nat
        /\ \A p \in Proc : seen[p][d] \in Nat /\ seen'[p][d] \in Nat
    BY <1>1 DEF TypeOK
  <1>4. CASE Quiet
    <2>1. IsFiniteSet(Busy(d)') /\ Spent(d)' = Spent(d)
      BY <1>1, <1>2, <1>4, SpentKept DEF Quiet
    <2>2. ASSUME ~Held(d)' PROVE Pays(d)'
      BY <1>1, <1>2, <1>3, <1>4, <2>1, <2>2, PaysOn DEF Quiet
    <2>3. QED
      BY <2>1, <2>2
  <1>5. ASSUME NEW p \in Proc, SweepScans(p)
        PROVE  IsFiniteSet(Busy(d)') /\ (~Held(d)' => Pays(d)')
    <2>1. UNCHANGED <<row, attempts, inactive, target, crashes>>
      BY <1>5 DEF SweepScans, Scans, outboxVars
    <2>2. IsFiniteSet(Busy(d)') /\ Spent(d)' = Spent(d)
      BY <1>1, <1>2, <2>1, SpentKept
    <2>3. \A q \in Proc : d \in todo'[q] =>
             \/ seen'[q][d] = attempts[d]
             \/ d \in todo[q] /\ seen'[q][d] = seen[q][d]
      BY <1>1, <1>5 DEF SweepScans, Scans, TypeOK
    <2>4. ASSUME ~Held(d)' PROVE Pays(d)'
      BY <1>1, <1>2, <1>3, <2>1, <2>2, <2>3, <2>4, PaysOn
    <2>5. QED
      BY <2>2, <2>4
  <1>6. ASSUME NEW p \in Proc, SweepSettles(p)
        PROVE  IsFiniteSet(Busy(d)') /\ (~Held(d)' => Pays(d)')
    <2>1. CASE target[p] = d
      <3>1. p \in Actor /\ On(p) = d /\ work[p] \in Outcomes
        BY <1>6, <2>1, ActorsAssumption DEF SweepSettles, On, Actor
      <3>2. Held(d)'
        BY <1>1, <3>1, HeldStays DEF Holds, OutcomesHold
      <3>3. Busy(d)' = Busy(d) \ {p}
        BY <1>1, <1>6, ActorsAssumption DEF Busy, SweepSettles, TypeOK
      <3>4. QED
        BY <1>2, <3>2, <3>3, FS_RemoveElement
    <2>2. CASE target[p] # d
      <3>1. UNCHANGED <<attempts, inactive, todo, seen, crashes>>
        BY <1>6 DEF SweepSettles
      <3>2. row'[d] = "failed" => row[d] = "failed"
        BY <1>1, <1>6 DEF SweepSettles, Close, TypeOK
      <3>3. \A q \in Proc : target'[q] = d <=> target[q] = d
        BY <1>1, <1>6, <2>2, ActorsAssumption DEF SweepSettles, TypeOK
      <3>4. IsFiniteSet(Busy(d)') /\ Spent(d)' = Spent(d)
        BY <1>1, <1>2, <3>1, <3>3, SpentKept
      <3>5. ASSUME ~Held(d)' PROVE Pays(d)'
        BY <1>1, <1>2, <1>3, <3>1, <3>2, <3>4, <3>5, PaysOn
      <3>6. QED
        BY <3>4, <3>5
    <2>3. QED
      BY <2>1, <2>2
  <1>7. ASSUME NEW p \in Proc, Crash(p)
        PROVE  IsFiniteSet(Busy(d)') /\ (~Held(d)' => Pays(d)')
    <2>1. /\ crashes' = crashes + 1 /\ UNCHANGED <<row, attempts, inactive>>
          /\ \A q \in Proc : d \in todo'[q] => d \in todo[q] /\ seen'[q][d] = seen[q][d]
      BY <1>1, <1>7 DEF Crash, TypeOK, outboxVars
    <2>2. Busy(d)' = Busy(d) \ {p}
      BY <1>1, <1>7, ActorsAssumption DEF Busy, Crash, TypeOK
    <2>3. IsFiniteSet(Busy(d)') /\ Spent(d) <= Spent(d)'
      <3>1. /\ IsFiniteSet(Busy(d) \ {p})
            /\ Cardinality(Busy(d) \ {p})
                 = IF p \in Busy(d) THEN Cardinality(Busy(d)) - 1 ELSE Cardinality(Busy(d))
        BY <1>2, FS_RemoveElement
      <3>2. Cardinality(Busy(d)) \in Nat /\ Cardinality(Busy(d) \ {p}) \in Nat
        BY <1>2, <3>1, FS_CardinalityType
      <3>3. QED
        BY <1>3, <2>1, <2>2, <3>1, <3>2 DEF Spent
    <2>4. ASSUME ~Held(d)' PROVE Pays(d)'
      BY <1>1, <1>2, <1>3, <2>1, <2>3, <2>4, PaysOn
    <2>5. QED
      BY <2>3, <2>4
  <1>8. ASSUME NEW p \in Proc, NEW e \in Delivery, Takes(p, e)
        PROVE  \A q \in Proc : d \in todo'[q] => d \in todo[q] /\ seen'[q][d] = seen[q][d]
    BY <1>1, <1>8 DEF Takes, TypeOK
  <1>9. ASSUME NEW p \in Proc, NEW e \in Delivery, SweepRetires(p, e)
        PROVE  IsFiniteSet(Busy(d)') /\ (~Held(d)' => Pays(d)')
    <2>1. /\ UNCHANGED <<attempts, inactive, target, crashes>>
          /\ e \in todo[p] /\ (seen[p][e] >= MaxAttempts \/ e \in inactive)
          /\ Takes(p, e) /\ Close(e, "failed")
      BY <1>9 DEF SweepRetires, Takes
    <2>2. IsFiniteSet(Busy(d)') /\ Spent(d)' = Spent(d)
      BY <1>1, <1>2, <2>1, SpentKept
    <2>3. row'[d] = "failed" => row[d] = "failed" \/ d = e
      BY <1>1, <2>1 DEF Close, TypeOK
    <2>4. ASSUME ~Held(d)' PROVE Pays(d)'
      <3>1. d = e => d \in inactive \/ MaxAttempts <= Spent(d)
        BY <1>2, <1>3, <2>1, <2>4, BoundsAssumption DEF Pays
      <3>2. QED
        BY <1>1, <1>2, <1>3, <1>8, <2>1, <2>2, <2>3, <2>4, <3>1, PaysOn
    <2>5. QED
      BY <2>2, <2>4
  <1>10. ASSUME NEW p \in Proc, NEW e \in Delivery, SweepReplays(p, e)
         PROVE  IsFiniteSet(Busy(d)') /\ (~Held(d)' => Pays(d)')
    <2>1. /\ UNCHANGED <<row, inactive, crashes>>
          /\ work[p] = "idle" /\ e \in todo[p] /\ Takes(p, e)
          /\ attempts' = [attempts EXCEPT ![e] = seen[p][e] + 1]
          /\ target' = [target EXCEPT ![p] = e]
      BY <1>10 DEF SweepReplays, Replays, Takes
    <2>2. target[p] = None
      BY <1>1, <2>1 DEF TypeOK
    <2>3. CASE d # e
      <3>1. \A q \in Proc : target'[q] = d <=> target[q] = d
        BY <1>1, <2>1, <2>2, <2>3, ActorsAssumption DEF TypeOK
      <3>2. IsFiniteSet(Busy(d)') /\ Spent(d)' = Spent(d) /\ attempts'[d] = attempts[d]
        BY <1>1, <1>2, <2>1, <2>3, <3>1, SpentKept DEF TypeOK
      <3>3. ASSUME ~Held(d)' PROVE Pays(d)'
        BY <1>1, <1>2, <1>3, <1>8, <2>1, <3>2, <3>3, PaysOn
      <3>4. QED
        BY <3>2, <3>3
    <2>4. CASE d = e
      <3>1. Busy(d)' = Busy(d) \cup {p} /\ p \notin Busy(d)
        BY <1>1, <2>1, <2>2, <2>4, ActorsAssumption DEF Busy, TypeOK
      <3>2. IsFiniteSet(Busy(d)') /\ Spent(d)' = Spent(d) + 1
        <4>1. /\ IsFiniteSet(Busy(d) \cup {p}) /\ Cardinality(Busy(d)) \in Nat
              /\ Cardinality(Busy(d) \cup {p}) = Cardinality(Busy(d)) + 1
          BY <1>2, <3>1, FS_AddElement, FS_CardinalityType
        <4>2. QED
          BY <1>3, <2>1, <3>1, <4>1 DEF Spent
      <3>3. attempts'[d] = seen[p][d] + 1
        BY <1>1, <2>1, <2>4 DEF TypeOK
      <3>4. ASSUME ~Held(d)' PROVE Pays(d)'
        <4> DEFINE x == Spent(d)
                   y == Spent(d)'
        <4>1. x \in Nat /\ y = x + 1
          BY <1>2, <3>2
        <4>2. /\ \A q \in Proc : d \in todo[q] => seen[q][d] <= x
              /\ row[d] = "failed" /\ d \notin inactive => MaxAttempts <= x
          BY <1>2, <3>4 DEF Pays
        <4> HIDE DEF x, y
        <4>3. attempts'[d] <= y
          BY <1>3, <2>1, <2>4, <3>3, <4>1, <4>2
        <4>4. \A q \in Proc : d \in todo'[q] => seen'[q][d] <= y
          BY <1>3, <1>8, <2>1, <4>1, <4>2
        <4>5. row'[d] = "failed" /\ d \notin inactive' => MaxAttempts <= y
          BY <2>1, <4>1, <4>2, BoundsAssumption
        <4>6. QED
          BY <4>3, <4>4, <4>5 DEF Pays, y
      <3>5. QED
        BY <3>2, <3>4
    <2>5. QED
      BY <2>3, <2>4
  <1>11. QED
    BY <1>1, <1>4, <1>5, <1>6, <1>7, <1>9, <1>10, NextIsQuiet

\* A row the reconciler gives up on has an owner, is still being delivered, or
\* has no subscriber, if the budget is larger than the number of crashes: only
\* a crash cuts a counted replay short before it has reached its dead letter.
\* This holds for any number of reconcilers working on the same rows.
THEOREM WebhookFailed ==
  ASSUME MaxCrashes < MaxAttempts
  PROVE  Spec => []FailedIsAccounted
  <1>1. Init => Paid
    <2> SUFFICES ASSUME Init, NEW d \in Delivery
                 PROVE  IsFiniteSet(Busy(d)) /\ Pays(d)
      BY DEF Paid
    <2>1. Busy(d) = {}
      BY ActorsAssumption DEF Init, Busy
    <2>2. IsFiniteSet(Busy(d)) /\ Spent(d) = 0
      BY <2>1, FS_EmptySet DEF Spent, Init
    <2>3. QED
      BY <2>2 DEF Init, Pays
  <1>2. Holds /\ Paid /\ [Next]_vars => Paid'
    BY NextPaid
  <1>3. Holds /\ Paid => FailedIsAccounted
    <2> SUFFICES ASSUME Holds, Paid, NEW d \in Delivery, row[d] = "failed",
                        ~Held(d), d \notin inactive
                 PROVE  Pursued(d)
      BY HeldIsAccounted DEF FailedIsAccounted
    <2>1. MaxAttempts <= crashes + Cardinality(Busy(d)) /\ IsFiniteSet(Busy(d))
      BY DEF Paid, Pays, Spent
    <2>2. crashes \in Nat /\ crashes <= MaxCrashes
      BY BoundsAssumption DEF Holds, TypeOK
    <2>3. Cardinality(Busy(d)) # 0
      BY <2>1, <2>2, BoundsAssumption
    <2>4. Busy(d) # {}
      BY <2>1, <2>3, FS_EmptySet
    <2>5. QED
      BY <2>4 DEF Busy, Pursued
  <1>4. QED
    BY WebhookHolds, <1>1, <1>2, <1>3, PTL DEF Spec
=============================================================================
