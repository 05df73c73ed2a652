----------------------- MODULE IngressDelivery_proofs -----------------------
(***************************************************************************)
(* Proofs about IngressDelivery, for every number of deliveries, attempts, *)
(* replays, dead letters, redrives and faults.                             *)
(***************************************************************************)
EXTENDS IngressDelivery, TLAPS

-----------------------------------------------------------------------------
(* The inductive invariant.                                                *)

Sweeper == {Sweep, Redrive}

Lettered(e, l) == letters[e][l] # "none"

\* Nothing is known of a delivery before its row is written.
Untouched(e) ==
  row[e] = "none" =>
    /\ tries[e] = 0 /\ work[e] = "idle"
    /\ e \notin todo /\ \A a \in Sweeper : target[a] # e
    /\ \A l \in Letter : ~Lettered(e, l)
    /\ \A j \in Slot : jobs[e][j].stage = "none"

\* The sweep leaves a row alone while the request that wrote it runs, and the
\* replay budget bounds what is counted on a row that is still pending.
WithinBudget(e) ==
  /\ work[e] # "idle" =>
       /\ e \notin todo /\ target[Sweep] # e
       /\ row[e] = "pending" => e \in young
  /\ work[e] \in {"adding", "inline", "queued", "delivered", "refused"} => tries[e] = 0
  /\ row[e] = "pending" => tries[e] < MostTries

\* The sweep and the redrive have an event exactly while they are at one, and
\* the redrive one with a letter.
AtWork ==
  /\ \A a \in Sweeper : work[a] = "idle" <=> target[a] = None
  /\ work[Redrive] # "idle" => letter \in Letter /\ Lettered(target[Redrive], letter)
  /\ \A p \in batch : Lettered(p[1], p[2])

\* Letters are numbered as they are saved, and a redrive job is a letter's.
Numbered(e) ==
  /\ \A k \in Letter : Lettered(e, k) => \A l \in 1..k : Lettered(e, l)
  /\ \A l \in Letter : jobs[e][l].stage # "none" => Lettered(e, l)

\* Somebody has the event for a reason younger than its letter i: a later
\* letter is open, or a job is still owed.  i = 0 asks for any reason.
Held(e, i) ==
  \/ e \in handled \cup unlettered \cup mistaken
  \/ \E l \in Letter : l > i /\ letters[e][l] = "open"
  \/ \E j \in Slot : jobs[e][j].stage \in Owed

\* Where the event counts as taken, somebody has it: after a letter, after a
\* job that ended, and when its row is closed.
Taken(e) ==
  /\ \A l \in Letter : Lettered(e, l) => Held(e, 0)
  /\ \A j \in Slot : jobs[e][j].stage \in {"lettered", "completed", "failed"} => Held(e, j)
  /\ row[e] \in {"dispatched", "failed"} => Held(e, 0)

\* The same for the event an actor took on, whose enqueue() succeeded.
Passed(a) ==
  work[a] \in {"queued", "delivered", "retiring", "retiringQueued"} => Held(On(a), JobOf(a))

\* What the last writes of a visit rely on.
Prepared ==
  /\ \A a \in Sweeper : work[a] \in {"retiring", "retiringQueued"} => row[target[a]] # "pending"
  /\ work[Sweep] = "marking" => \E l \in Letter : Lettered(target[Sweep], l)

Shape ==
  /\ TypeOK /\ AtWork
  /\ \A e \in Event : Untouched(e) /\ WithinBudget(e) /\ Numbered(e)

Answer ==
  /\ \A e \in Event : Taken(e)
  /\ \A a \in Actor : Passed(a)

Letters == Prepared /\ FailedHasLetter /\ RedrivenIsNotStale

IInv == Shape /\ Answer /\ Letters

-----------------------------------------------------------------------------
(* The initial states, and lemmas about what the actions share.            *)

Job == [stage : Owed \cup Retained \cup {"none", "lettered"},
        made : 0..(MaxAttempts - 1), stalls : 0..1]

\* The initial states have the shape.
LEMMA InitShape == Init => Shape
  BY ActorsAssumption, BoundsAssumption
   DEF Init, Shape, TypeOK, AtWork, Untouched, WithinBudget, Numbered, Sweeper, Lettered,
       MostTries, Letter, Slot, Owed, Retained, NoJob, Actor, Stages

\* One job of one event is replaced.
LEMMA JobReplaced ==
  ASSUME TypeOK, NEW e \in Event, NEW j \in Slot, NEW job \in Job,
         jobs' = [jobs EXCEPT ![e][j] = job]
  PROVE  /\ jobs' \in [Event -> [Slot -> Job]]
         /\ \A f \in Event, i \in Slot :
              jobs'[f][i] = IF f = e /\ i = j THEN job ELSE jobs[f][i]
  <1>1. jobs \in [Event -> [Slot -> Job]]
    BY DEF TypeOK, Job
  <1>2. QED
    BY <1>1

\* One step of the worker on a job that BullMQ knows, whatever comes of it,
\* keeps the shape.
LEMMA BecomeShape ==
  ASSUME Shape, NEW e \in Event, NEW j \in Slot, NEW from, from # "none",
         NEW job \in Job, Become(e, j, from, job),
         UNCHANGED <<up, enabled, rowVars, letters, work, target, letter, sweepVars, batch, redrives>>,
         handled' \subseteq Event, unlettered' \subseteq Event, mistaken' \subseteq Event,
         faults' \in 0..MaxFaults
  PROVE  Shape'
  <1>1. jobs[e][j].stage # "none"
    BY DEF Become
  <1>2. /\ jobs' \in [Event -> [Slot -> Job]]
        /\ \A f \in Event, i \in Slot :
             jobs'[f][i] = IF f = e /\ i = j THEN job ELSE jobs[f][i]
    <2>1. jobs \in [Event -> [Slot -> Job]] /\ jobs' = [jobs EXCEPT ![e][j] = job]
      BY DEF Become, Shape, TypeOK, Job
    <2>2. QED
      BY <2>1
  <1>3. TypeOK'
    BY <1>2 DEF Shape, TypeOK, rowVars, sweepVars, Job
  <1>4. AtWork'
    BY DEF Shape, AtWork, Lettered
  <1>5. \A f \in Event : Untouched(f)'
    BY <1>1, <1>2 DEF Shape, Untouched, Lettered, rowVars, sweepVars
  <1>6. \A f \in Event : WithinBudget(f)'
    BY DEF Shape, WithinBudget, rowVars, sweepVars
  <1>7. \A f \in Event : Numbered(f)'
    BY <1>1, <1>2 DEF Shape, Numbered, Lettered, Letter, Slot
  <1>8. QED
    BY <1>3, <1>4, <1>5, <1>6, <1>7 DEF Shape

\* A new letter takes the first free number.
LEMMA LetterSaved ==
  ASSUME Shape, NEW e \in Event, SaveLetter(e)
  PROVE  /\ letters' \in [Event -> [Letter -> {"none", "open", "redriven"}]]
         /\ \E k \in Letter :
              /\ ~Lettered(e, k) /\ \A i \in 1..(k - 1) : Lettered(e, i)
              /\ \A f \in Event, l \in Letter :
                   letters'[f][l] = IF f = e /\ l = k THEN "open" ELSE letters[f][l]
  <1>1. letters \in [Event -> [Letter -> {"none", "open", "redriven"}]]
    BY DEF Shape, TypeOK
  <1>2. PICK k \in Letter :
          /\ letters[e][k] = "none" /\ \A i \in 1..(k - 1) : letters[e][i] # "none"
          /\ letters' = [letters EXCEPT ![e][k] = "open"]
    BY DEF SaveLetter
  <1>3. QED
    BY <1>1, <1>2 DEF Lettered

\* A new letter of an event with a row keeps the numbering, and what is known
\* of the other events.
LEMMA LetterNumbered ==
  ASSUME Shape, NEW e \in Event, row[e] # "none", SaveLetter(e),
         UNCHANGED <<row, tries, todo, target, letter, batch>>,
         \A f \in Event : f # e => work'[f] = work[f],
         \A f \in Event, i \in Slot : jobs'[f][i].stage = "none" <=> jobs[f][i].stage = "none"
  PROVE  \A f \in Event : Untouched(f)' /\ Numbered(f)'
  <1>1. PICK k \in Letter :
              /\ ~Lettered(e, k) /\ \A i \in 1..(k - 1) : Lettered(e, i)
              /\ \A f \in Event, l \in Letter :
                   letters'[f][l] = IF f = e /\ l = k THEN "open" ELSE letters[f][l]
    BY LetterSaved
  <1>2. \A f \in Event : Untouched(f)'
    BY <1>1 DEF Shape, Untouched, Lettered
  <1>3. \A f \in Event, l \in Letter : Lettered(f, l)' <=> (Lettered(f, l) \/ (f = e /\ l = k))
    BY <1>1 DEF Lettered
  <1>4. ASSUME NEW f \in Event PROVE Numbered(f)'
    <2>1. ASSUME NEW n \in Letter, Lettered(f, n)', NEW l \in 1..n PROVE Lettered(f, l)'
      <3>1. l \in Letter /\ l <= n
        BY BoundsAssumption DEF Letter
      <3>2. CASE Lettered(f, n)
        BY <1>3, <3>1, <3>2 DEF Shape, Numbered
      <3>3. CASE f = e /\ n = k
        <4>1. l = k \/ l \in 1..(k - 1)
          BY <3>1, <3>3 DEF Letter
        <4>2. QED
          BY <1>1, <1>3, <3>1, <3>3, <4>1
      <3>4. QED
        BY <1>3, <2>1, <3>2, <3>3
    <2>2. ASSUME NEW l \in Letter, jobs'[f][l].stage # "none" PROVE Lettered(f, l)'
      BY <1>3, <2>2 DEF Shape, Numbered, Letter, Slot
    <2>3. QED
      BY <2>1, <2>2 DEF Numbered
  <1>5. QED
    BY <1>2, <1>4

\* The event an actor is at, and the job it adds.
LEMMA ActorIsAt ==
  ASSUME Shape, NEW a \in Actor, work[a] # "idle"
  PROVE  /\ On(a) \in Event /\ row[On(a)] # "none" /\ JobOf(a) \in Slot
         /\ JobOf(a) = 0 \/ Lettered(On(a), JobOf(a))
         /\ a = Sweep => On(a) = target[Sweep] /\ JobOf(a) = 0
         /\ a = Redrive => On(a) = target[Redrive] /\ JobOf(a) = letter
         /\ a \in Event => On(a) = a /\ JobOf(a) = 0
  <1>1. On(a) \in Event /\ row[On(a)] # "none"
    BY ActorsAssumption DEF On, Shape, TypeOK, AtWork, Sweeper, Untouched, Actor
  <1>2. /\ JobOf(a) \in Slot
        /\ JobOf(a) = 0 \/ Lettered(On(a), JobOf(a))
    BY <1>1, ActorsAssumption, BoundsAssumption
     DEF JobOf, On, Shape, TypeOK, AtWork, Actor, Letter, Slot, Lettered
  <1>3. /\ a = Sweep => On(a) = target[Sweep] /\ JobOf(a) = 0
        /\ a = Redrive => On(a) = target[Redrive] /\ JobOf(a) = letter
        /\ a \in Event => On(a) = a /\ JobOf(a) = 0
    BY ActorsAssumption DEF On, JobOf
  <1>4. QED
    BY <1>1, <1>2, <1>3

\* Writing the row keeps the shape.
LEMMA ReceiveShape ==
  ASSUME Shape, NEW e \in Event, Receive(e)
  PROVE  Shape'
  <1>1. TypeOK'
    <2>1. /\ row' \in [Event -> {"none", "pending", "dispatched", "failed"}]
          /\ young' \subseteq Event
      BY DEF Receive, Shape, TypeOK
    <2>2. elders' \in [Event -> SUBSET (Event \cup Foreign)]
      <3>1. Pending \subseteq Event \cup Foreign
        BY DEF Pending, Shape, TypeOK
      <3>2. QED
        BY <3>1 DEF Receive, Shape, TypeOK
    <2>3. work' \in [Actor -> Stages]
      BY DEF Receive, Move, Stages, Shape, TypeOK
    <2>4. QED
      BY <2>1, <2>2, <2>3 DEF Receive, sweepVars, factVars, counters, Move, Shape, TypeOK
  <1>2. AtWork'
    BY ActorsAssumption, BoundsAssumption
     DEF Receive, Move, sweepVars, factVars, counters, Shape, TypeOK, AtWork, Sweeper,
        Lettered, Actor
  <1>3. \A f \in Event : Untouched(f)'
    BY ActorsAssumption, BoundsAssumption
     DEF Receive, Move, sweepVars, factVars, counters, Shape, TypeOK, Untouched, Lettered,
        AtWork, Sweeper, Actor
  <1>4. \A f \in Event : WithinBudget(f)'
    BY ActorsAssumption, BoundsAssumption
     DEF Receive, Move, sweepVars, factVars, counters, Shape, TypeOK, WithinBudget,
        Untouched, AtWork, Sweeper, MostTries, Actor
  <1>5. \A f \in Event : Numbered(f)'
    BY DEF Receive, Shape, Numbered, Lettered
  <1>6. QED
    BY <1>1, <1>2, <1>3, <1>4, <1>5 DEF Shape

\* An add() that rejects keeps the shape.
LEMMA AddFailsShape ==
  ASSUME Shape, NEW a \in Actor, AddFails(a)
  PROVE  Shape'
  <1>1. TypeOK'
    BY ActorsAssumption, BoundsAssumption
     DEF AddFails, Move, rowVars, sweepVars, factVars, counters, Shape, TypeOK, AtWork,
        Sweeper, WithinBudget, MostTries, Actor, Stages, Letter, Slot, Owed, Retained
  <1>2. AtWork'
    BY ActorsAssumption, BoundsAssumption
     DEF AddFails, Move, rowVars, sweepVars, factVars, counters, Shape, TypeOK, AtWork,
        Sweeper, Lettered, Actor
  <1>3. \A f \in Event : Untouched(f)'
    BY ActorsAssumption, BoundsAssumption
     DEF AddFails, Move, rowVars, sweepVars, factVars, counters, Shape, TypeOK, Untouched,
        Lettered, AtWork, Sweeper, Actor
  <1>4. \A f \in Event : WithinBudget(f)'
    BY ActorsAssumption, BoundsAssumption
     DEF AddFails, Move, rowVars, sweepVars, factVars, counters, Shape, TypeOK,
        WithinBudget, Untouched, AtWork, Sweeper, MostTries, Actor
  <1>5. \A f \in Event : Numbered(f)'
    BY DEF AddFails, Shape, Numbered, Lettered
  <1>6. QED
    BY <1>1, <1>2, <1>3, <1>4, <1>5 DEF Shape

\* A failed inline dispatch keeps the shape.
LEMMA InlineFailsShape ==
  ASSUME Shape, NEW a \in Actor, InlineFails(a)
  PROVE  Shape'
  <1>1. TypeOK'
    BY ActorsAssumption, BoundsAssumption
     DEF InlineFails, Move, rowVars, sweepVars, factVars, counters, Shape, TypeOK, AtWork,
        Sweeper, WithinBudget, MostTries, Actor, Stages, Letter, Slot, Owed, Retained
  <1>2. AtWork'
    BY ActorsAssumption, BoundsAssumption
     DEF InlineFails, Move, rowVars, sweepVars, factVars, counters, Shape, TypeOK, AtWork,
        Sweeper, Lettered, Actor
  <1>3. \A f \in Event : Untouched(f)'
    BY ActorsAssumption, BoundsAssumption
     DEF InlineFails, Move, rowVars, sweepVars, factVars, counters, Shape, TypeOK,
        Untouched, Lettered, AtWork, Sweeper, Actor
  <1>4. \A f \in Event : WithinBudget(f)'
    BY ActorsAssumption, BoundsAssumption
     DEF InlineFails, Move, rowVars, sweepVars, factVars, counters, Shape, TypeOK,
        WithinBudget, Untouched, AtWork, Sweeper, MostTries, Actor
  <1>5. \A f \in Event : Numbered(f)'
    BY DEF InlineFails, Shape, Numbered, Lettered
  <1>6. QED
    BY <1>1, <1>2, <1>3, <1>4, <1>5 DEF Shape

\* The request's mark of success keeps the shape.
LEMMA LiveClosesShape ==
  ASSUME Shape, NEW e \in Event, LiveCloses(e)
  PROVE  Shape'
  <1>1. TypeOK'
    BY ActorsAssumption, BoundsAssumption
     DEF LiveCloses, Move, Close, sweepVars, factVars, counters, Shape, TypeOK, AtWork,
        Sweeper, WithinBudget, MostTries, Actor, Stages, Letter, Slot, Owed, Retained
  <1>2. AtWork'
    BY ActorsAssumption, BoundsAssumption
     DEF LiveCloses, Move, Close, sweepVars, factVars, counters, Shape, TypeOK, AtWork,
        Sweeper, Lettered, Actor
  <1>3. \A f \in Event : Untouched(f)'
    BY ActorsAssumption, BoundsAssumption
     DEF LiveCloses, Move, Close, sweepVars, factVars, counters, Shape, TypeOK, Untouched,
        Lettered, AtWork, Sweeper, Actor
  <1>4. \A f \in Event : WithinBudget(f)'
    BY ActorsAssumption, BoundsAssumption
     DEF LiveCloses, Move, Close, sweepVars, factVars, counters, Shape, TypeOK,
        WithinBudget, Untouched, AtWork, Sweeper, MostTries, Actor
  <1>5. \A f \in Event : Numbered(f)'
    BY DEF LiveCloses, Shape, Numbered, Lettered
  <1>6. QED
    BY <1>1, <1>2, <1>3, <1>4, <1>5 DEF Shape

\* The request's count of a failure keeps the shape.
LEMMA LiveCountsShape ==
  ASSUME Shape, NEW e \in Event, LiveCounts(e)
  PROVE  Shape'
  <1>1. TypeOK'
    <2>1. /\ up' \in BOOLEAN /\ enabled' \in BOOLEAN
          /\ row' \in [Event -> {"none", "pending", "dispatched", "failed"}]
          /\ young' \subseteq Event /\ fresh' \subseteq Event /\ todo' \subseteq Event
          /\ elders' \in [Event -> SUBSET (Event \cup Foreign)] /\ stranded' \subseteq Foreign
      BY ActorsAssumption, BoundsAssumption
       DEF LiveCounts, Move, sweepVars, factVars, counters, Shape, TypeOK, AtWork,
          Sweeper
    <2>2. /\ tries' \in [Event -> 0..MostTries] /\ seen' \in [Event -> 0..(MostTries - 1)]
          /\ letters' \in [Event -> [Letter -> {"none", "open", "redriven"}]]
          /\ jobs' \in [Event -> [Slot -> Job]]
      BY ActorsAssumption, BoundsAssumption
       DEF LiveCounts, Move, sweepVars, factVars, counters, Shape, TypeOK, AtWork,
          Sweeper, WithinBudget, MostTries, Owed, Retained, Job
    <2>3. /\ work' \in [Actor -> Stages]
          /\ target' \in [{Sweep, Redrive} -> Event \cup {None}] /\ letter' \in Slot
          /\ batch' \subseteq Event \X Letter
      BY ActorsAssumption, BoundsAssumption
       DEF LiveCounts, Move, sweepVars, factVars, counters, Shape, TypeOK, AtWork,
          Sweeper, Actor, Stages, Letter, Slot
    <2>4. /\ handled' \subseteq Event /\ unlettered' \subseteq Event /\ mistaken' \subseteq Event
          /\ faults' \in 0..MaxFaults /\ redrives' \in 0..MaxRedrives
      BY ActorsAssumption, BoundsAssumption
       DEF LiveCounts, Move, sweepVars, factVars, counters, Shape, TypeOK, AtWork,
          Sweeper
    <2>5. QED
      BY <2>1, <2>2, <2>3, <2>4 DEF TypeOK, Job
  <1>2. AtWork'
    BY ActorsAssumption, BoundsAssumption
     DEF LiveCounts, Move, sweepVars, factVars, counters, Shape, TypeOK, AtWork,
        Sweeper, Lettered, Actor
  <1>3. \A f \in Event : Untouched(f)'
    BY ActorsAssumption, BoundsAssumption
     DEF LiveCounts, Move, sweepVars, factVars, counters, Shape, TypeOK, Untouched,
        Lettered, AtWork, Sweeper, Actor
  <1>4. \A f \in Event : WithinBudget(f)'
    BY ActorsAssumption, BoundsAssumption
     DEF LiveCounts, Move, sweepVars, factVars, counters, Shape, TypeOK,
        WithinBudget, Untouched, AtWork, Sweeper, MostTries, Actor
  <1>5. \A f \in Event : Numbered(f)'
    BY DEF LiveCounts, Shape, Numbered, Lettered
  <1>6. QED
    BY <1>1, <1>2, <1>3, <1>4, <1>5 DEF Shape

\* The request's time of the last try keeps the shape.
LEMMA LiveTouchesShape ==
  ASSUME Shape, NEW e \in Event, LiveTouches(e)
  PROVE  Shape'
  <1>1. TypeOK'
    <2>1. /\ up' \in BOOLEAN /\ enabled' \in BOOLEAN
          /\ row' \in [Event -> {"none", "pending", "dispatched", "failed"}]
          /\ young' \subseteq Event /\ fresh' \subseteq Event /\ todo' \subseteq Event
          /\ elders' \in [Event -> SUBSET (Event \cup Foreign)] /\ stranded' \subseteq Foreign
      BY ActorsAssumption, BoundsAssumption
       DEF LiveTouches, Move, Touch, sweepVars, factVars, counters, Shape, TypeOK, AtWork,
          Sweeper
    <2>2. /\ tries' \in [Event -> 0..MostTries] /\ seen' \in [Event -> 0..(MostTries - 1)]
          /\ letters' \in [Event -> [Letter -> {"none", "open", "redriven"}]]
          /\ jobs' \in [Event -> [Slot -> Job]]
      BY ActorsAssumption, BoundsAssumption
       DEF LiveTouches, Move, Touch, sweepVars, factVars, counters, Shape, TypeOK, AtWork,
          Sweeper, WithinBudget, MostTries, Owed, Retained, Job
    <2>3. /\ work' \in [Actor -> Stages]
          /\ target' \in [{Sweep, Redrive} -> Event \cup {None}] /\ letter' \in Slot
          /\ batch' \subseteq Event \X Letter
      BY ActorsAssumption, BoundsAssumption
       DEF LiveTouches, Move, Touch, sweepVars, factVars, counters, Shape, TypeOK, AtWork,
          Sweeper, Actor, Stages, Letter, Slot
    <2>4. /\ handled' \subseteq Event /\ unlettered' \subseteq Event /\ mistaken' \subseteq Event
          /\ faults' \in 0..MaxFaults /\ redrives' \in 0..MaxRedrives
      BY ActorsAssumption, BoundsAssumption
       DEF LiveTouches, Move, Touch, sweepVars, factVars, counters, Shape, TypeOK, AtWork,
          Sweeper
    <2>5. QED
      BY <2>1, <2>2, <2>3, <2>4 DEF TypeOK, Job
  <1>2. AtWork'
    BY ActorsAssumption, BoundsAssumption
     DEF LiveTouches, Move, Touch, sweepVars, factVars, counters, Shape, TypeOK, AtWork,
        Sweeper, Lettered, Actor
  <1>3. \A f \in Event : Untouched(f)'
    BY ActorsAssumption, BoundsAssumption
     DEF LiveTouches, Move, Touch, sweepVars, factVars, counters, Shape, TypeOK, Untouched,
        Lettered, AtWork, Sweeper, Actor
  <1>4. \A f \in Event : WithinBudget(f)'
    BY ActorsAssumption, BoundsAssumption
     DEF LiveTouches, Move, Touch, sweepVars, factVars, counters, Shape, TypeOK,
        WithinBudget, Untouched, AtWork, Sweeper, MostTries, Actor
  <1>5. \A f \in Event : Numbered(f)'
    BY DEF LiveTouches, Shape, Numbered, Lettered
  <1>6. QED
    BY <1>1, <1>2, <1>3, <1>4, <1>5 DEF Shape

\* The request's dead letter keeps the shape.
LEMMA LiveLettersShape ==
  ASSUME Shape, NEW e \in Event, LiveLetters(e)
  PROVE  Shape'
  <1>1. TypeOK'
    <2>1. /\ up' \in BOOLEAN /\ enabled' \in BOOLEAN
          /\ row' \in [Event -> {"none", "pending", "dispatched", "failed"}]
          /\ young' \subseteq Event /\ fresh' \subseteq Event /\ todo' \subseteq Event
          /\ elders' \in [Event -> SUBSET (Event \cup Foreign)] /\ stranded' \subseteq Foreign
      BY ActorsAssumption, BoundsAssumption
       DEF LiveLetters, Move, SaveLetter, rowVars, sweepVars, factVars, counters, Letter,
          Shape, TypeOK, AtWork, Sweeper
    <2>2. /\ tries' \in [Event -> 0..MostTries] /\ seen' \in [Event -> 0..(MostTries - 1)]
          /\ letters' \in [Event -> [Letter -> {"none", "open", "redriven"}]]
          /\ jobs' \in [Event -> [Slot -> Job]]
      BY ActorsAssumption, BoundsAssumption, LetterSaved
       DEF LiveLetters, Move, SaveLetter, rowVars, sweepVars, factVars, counters, Letter,
          Shape, TypeOK, AtWork, Sweeper, WithinBudget, MostTries, Owed, Retained, Job
    <2>3. /\ work' \in [Actor -> Stages]
          /\ target' \in [{Sweep, Redrive} -> Event \cup {None}] /\ letter' \in Slot
          /\ batch' \subseteq Event \X Letter
      BY ActorsAssumption, BoundsAssumption
       DEF LiveLetters, Move, SaveLetter, rowVars, sweepVars, factVars, counters, Letter,
          Shape, TypeOK, AtWork, Sweeper, Actor, Stages, Slot
    <2>4. /\ handled' \subseteq Event /\ unlettered' \subseteq Event /\ mistaken' \subseteq Event
          /\ faults' \in 0..MaxFaults /\ redrives' \in 0..MaxRedrives
      BY ActorsAssumption, BoundsAssumption
       DEF LiveLetters, Move, SaveLetter, rowVars, sweepVars, factVars, counters, Letter,
          Shape, TypeOK, AtWork, Sweeper
    <2>5. QED
      BY <2>1, <2>2, <2>3, <2>4 DEF TypeOK, Job
  <1>2. AtWork'
    BY ActorsAssumption, BoundsAssumption
     DEF LiveLetters, Move, SaveLetter, rowVars, sweepVars, factVars, counters, Letter,
        Shape, TypeOK, AtWork, Sweeper, Lettered, Actor
  <1>3. \A f \in Event : WithinBudget(f)'
    BY ActorsAssumption, BoundsAssumption
     DEF LiveLetters, Move, SaveLetter, rowVars, sweepVars, factVars, counters, Letter,
        Shape, TypeOK, WithinBudget, Untouched, AtWork, Sweeper, MostTries, Actor
  <1>4. e \in Event /\ row[e] # "none"
    BY ActorsAssumption DEF LiveLetters, Move, Shape, TypeOK, AtWork, Sweeper, Untouched, Actor
  <1>6. \A f \in Event : Untouched(f)' /\ Numbered(f)'
    <2>1. \A f \in Event : f # e => work'[f] = work[f]
      BY ActorsAssumption DEF LiveLetters, Move, Shape, TypeOK, Actor
    <2>2. QED
      BY <1>4, <2>1, LetterNumbered DEF LiveLetters, rowVars, sweepVars
  <1>7. QED
    BY <1>1, <1>2, <1>3, <1>6 DEF Shape

\* A rejected write of the request keeps the shape.
LEMMA LiveWriteFailsShape ==
  ASSUME Shape, NEW e \in Event, LiveWriteFails(e)
  PROVE  Shape'
  <1>1. TypeOK'
    <2>1. /\ up' \in BOOLEAN /\ enabled' \in BOOLEAN
          /\ row' \in [Event -> {"none", "pending", "dispatched", "failed"}]
          /\ young' \subseteq Event /\ fresh' \subseteq Event /\ todo' \subseteq Event
          /\ elders' \in [Event -> SUBSET (Event \cup Foreign)] /\ stranded' \subseteq Foreign
      BY ActorsAssumption, BoundsAssumption
       DEF LiveWriteFails, Move, Fault, rowVars, sweepVars, factVars, Shape, TypeOK,
          AtWork, Sweeper
    <2>2. /\ tries' \in [Event -> 0..MostTries] /\ seen' \in [Event -> 0..(MostTries - 1)]
          /\ letters' \in [Event -> [Letter -> {"none", "open", "redriven"}]]
          /\ jobs' \in [Event -> [Slot -> Job]]
      BY ActorsAssumption, BoundsAssumption
       DEF LiveWriteFails, Move, Fault, rowVars, sweepVars, factVars, Shape, TypeOK,
          AtWork, Sweeper, WithinBudget, MostTries, Owed, Retained, Job
    <2>3. /\ work' \in [Actor -> Stages]
          /\ target' \in [{Sweep, Redrive} -> Event \cup {None}] /\ letter' \in Slot
          /\ batch' \subseteq Event \X Letter
      BY ActorsAssumption, BoundsAssumption
       DEF LiveWriteFails, Move, Fault, rowVars, sweepVars, factVars, Shape, TypeOK,
          AtWork, Sweeper, Actor, Stages, Letter, Slot
    <2>4. /\ handled' \subseteq Event /\ unlettered' \subseteq Event /\ mistaken' \subseteq Event
          /\ faults' \in 0..MaxFaults /\ redrives' \in 0..MaxRedrives
      BY ActorsAssumption, BoundsAssumption
       DEF LiveWriteFails, Move, Fault, rowVars, sweepVars, factVars, Shape, TypeOK,
          AtWork, Sweeper
    <2>5. QED
      BY <2>1, <2>2, <2>3, <2>4 DEF TypeOK, Job
  <1>2. AtWork'
    BY ActorsAssumption, BoundsAssumption
     DEF LiveWriteFails, Move, Fault, rowVars, sweepVars, factVars, Shape, TypeOK, AtWork,
        Sweeper, Lettered, Actor
  <1>3. \A f \in Event : Untouched(f)'
    BY ActorsAssumption, BoundsAssumption
     DEF LiveWriteFails, Move, Fault, rowVars, sweepVars, factVars, Shape, TypeOK,
        Untouched, Lettered, AtWork, Sweeper, Actor
  <1>4. \A f \in Event : WithinBudget(f)'
    BY ActorsAssumption, BoundsAssumption
     DEF LiveWriteFails, Move, Fault, rowVars, sweepVars, factVars, Shape, TypeOK,
        WithinBudget, Untouched, AtWork, Sweeper, MostTries, Actor
  <1>5. \A f \in Event : Numbered(f)'
    BY DEF LiveWriteFails, Shape, Numbered, Lettered
  <1>6. QED
    BY <1>1, <1>2, <1>3, <1>4, <1>5 DEF Shape

\* The sweep's snapshot keeps the shape.
LEMMA SweepReadsShape ==
  ASSUME Shape, SweepReads
  PROVE  Shape'
  <1>1. TypeOK'
    <2>1. /\ up' \in BOOLEAN /\ enabled' \in BOOLEAN
          /\ row' \in [Event -> {"none", "pending", "dispatched", "failed"}]
          /\ young' \subseteq Event /\ fresh' \subseteq Event /\ todo' \subseteq Event
          /\ elders' \in [Event -> SUBSET (Event \cup Foreign)] /\ stranded' \subseteq Foreign
      BY ActorsAssumption, BoundsAssumption
       DEF SweepReads, Stale, InBatch, rowVars, factVars, counters, Shape, TypeOK, AtWork, Sweeper
    <2>2. /\ tries' \in [Event -> 0..MostTries] /\ seen' \in [Event -> 0..(MostTries - 1)]
          /\ letters' \in [Event -> [Letter -> {"none", "open", "redriven"}]]
          /\ jobs' \in [Event -> [Slot -> Job]]
      BY ActorsAssumption, BoundsAssumption
       DEF SweepReads, Stale, InBatch, rowVars, factVars, counters, Shape, TypeOK, AtWork, Sweeper,
          WithinBudget, MostTries, Owed, Retained, Job
    <2>3. /\ work' \in [Actor -> Stages]
          /\ target' \in [{Sweep, Redrive} -> Event \cup {None}] /\ letter' \in Slot
          /\ batch' \subseteq Event \X Letter
      BY ActorsAssumption, BoundsAssumption
       DEF SweepReads, Stale, InBatch, rowVars, factVars, counters, Shape, TypeOK, AtWork, Sweeper,
          Actor, Stages, Letter, Slot
    <2>4. /\ handled' \subseteq Event /\ unlettered' \subseteq Event /\ mistaken' \subseteq Event
          /\ faults' \in 0..MaxFaults /\ redrives' \in 0..MaxRedrives
      BY ActorsAssumption, BoundsAssumption
       DEF SweepReads, Stale, InBatch, rowVars, factVars, counters, Shape, TypeOK, AtWork, Sweeper
    <2>5. QED
      BY <2>1, <2>2, <2>3, <2>4 DEF TypeOK, Job
  <1>2. AtWork'
    BY ActorsAssumption, BoundsAssumption
     DEF SweepReads, Stale, InBatch, rowVars, factVars, counters, Shape, TypeOK, AtWork, Sweeper,
        Lettered, Actor
  <1>3. ASSUME NEW f \in Event PROVE Untouched(f)' /\ WithinBudget(f)' /\ Numbered(f)'
    BY ActorsAssumption, BoundsAssumption
     DEF SweepReads, Stale, InBatch, rowVars, factVars, counters, Shape, TypeOK, Untouched,
        WithinBudget, Numbered, Lettered, AtWork, Sweeper, Actor, MostTries, Letter, Slot
  <1>4. QED
    BY <1>1, <1>2, <1>3 DEF Shape

\* The start of a replay keeps the shape.
LEMMA SweepVisitsShape ==
  ASSUME Shape, NEW e \in Event, SweepVisits(e)
  PROVE  Shape'
  <1>1. TypeOK'
    BY ActorsAssumption, BoundsAssumption
     DEF SweepVisits, Move, rowVars, factVars, counters, Shape, TypeOK, AtWork, Sweeper,
        WithinBudget, MostTries, Actor, Stages, Letter, Slot, Owed, Retained
  <1>2. AtWork'
    BY ActorsAssumption, BoundsAssumption
     DEF SweepVisits, Move, rowVars, factVars, counters, Shape, TypeOK, AtWork, Sweeper,
        Lettered, Actor
  <1>3. ASSUME NEW f \in Event PROVE Untouched(f)' /\ WithinBudget(f)' /\ Numbered(f)'
    BY ActorsAssumption, BoundsAssumption
     DEF SweepVisits, Move, rowVars, factVars, counters, Shape, TypeOK, Untouched,
        WithinBudget, Numbered, Lettered, AtWork, Sweeper, Actor, MostTries, Letter, Slot
  <1>4. QED
    BY <1>1, <1>2, <1>3 DEF Shape

\* A visit to a row of a disabled instance keeps the shape.
LEMMA SweepSkipsShape ==
  ASSUME Shape, NEW e \in Event, SweepSkips(e)
  PROVE  Shape'
  <1>1. TypeOK'
    BY ActorsAssumption, BoundsAssumption
     DEF SweepSkips, rowVars, factVars, counters, Shape, TypeOK, AtWork, Sweeper,
        WithinBudget, MostTries, Actor, Stages, Letter, Slot, Owed, Retained
  <1>2. AtWork'
    BY ActorsAssumption, BoundsAssumption
     DEF SweepSkips, rowVars, factVars, counters, Shape, TypeOK, AtWork, Sweeper, Lettered,
        Actor
  <1>3. ASSUME NEW f \in Event PROVE Untouched(f)' /\ WithinBudget(f)' /\ Numbered(f)'
    BY ActorsAssumption, BoundsAssumption
     DEF SweepSkips, rowVars, factVars, counters, Shape, TypeOK, Untouched, WithinBudget,
        Numbered, Lettered, AtWork, Sweeper, Actor, MostTries, Letter, Slot
  <1>4. QED
    BY <1>1, <1>2, <1>3 DEF Shape

\* The sweep's mark of success keeps the shape.
LEMMA SweepClosesShape ==
  ASSUME Shape, SweepCloses
  PROVE  Shape'
  <1>1. TypeOK'
    <2>1. /\ up' \in BOOLEAN /\ enabled' \in BOOLEAN
          /\ row' \in [Event -> {"none", "pending", "dispatched", "failed"}]
          /\ young' \subseteq Event /\ fresh' \subseteq Event /\ todo' \subseteq Event
          /\ elders' \in [Event -> SUBSET (Event \cup Foreign)] /\ stranded' \subseteq Foreign
      BY ActorsAssumption, BoundsAssumption
       DEF SweepCloses, Move, Close, sweepVars, factVars, counters, Shape, TypeOK, AtWork,
          Sweeper
    <2>2. /\ tries' \in [Event -> 0..MostTries] /\ seen' \in [Event -> 0..(MostTries - 1)]
          /\ letters' \in [Event -> [Letter -> {"none", "open", "redriven"}]]
          /\ jobs' \in [Event -> [Slot -> Job]]
      BY ActorsAssumption, BoundsAssumption
       DEF SweepCloses, Move, Close, sweepVars, factVars, counters, Shape, TypeOK, AtWork,
          Sweeper, WithinBudget, MostTries, Owed, Retained, Job
    <2>3. /\ work' \in [Actor -> Stages]
          /\ target' \in [{Sweep, Redrive} -> Event \cup {None}] /\ letter' \in Slot
          /\ batch' \subseteq Event \X Letter
      BY ActorsAssumption, BoundsAssumption
       DEF SweepCloses, Move, Close, sweepVars, factVars, counters, Shape, TypeOK, AtWork,
          Sweeper, Actor, Stages, Letter, Slot
    <2>4. /\ handled' \subseteq Event /\ unlettered' \subseteq Event /\ mistaken' \subseteq Event
          /\ faults' \in 0..MaxFaults /\ redrives' \in 0..MaxRedrives
      BY ActorsAssumption, BoundsAssumption
       DEF SweepCloses, Move, Close, sweepVars, factVars, counters, Shape, TypeOK, AtWork,
          Sweeper
    <2>5. QED
      BY <2>1, <2>2, <2>3, <2>4 DEF TypeOK, Job
  <1>2. AtWork'
    BY ActorsAssumption, BoundsAssumption
     DEF SweepCloses, Move, Close, sweepVars, factVars, counters, Shape, TypeOK, AtWork,
        Sweeper, Lettered, Actor
  <1>3. ASSUME NEW f \in Event PROVE Untouched(f)' /\ WithinBudget(f)' /\ Numbered(f)'
    BY ActorsAssumption, BoundsAssumption
     DEF SweepCloses, Move, Close, sweepVars, factVars, counters, Shape, TypeOK, Untouched,
        WithinBudget, Numbered, Lettered, AtWork, Sweeper, Actor, MostTries, Letter, Slot
  <1>4. QED
    BY <1>1, <1>2, <1>3 DEF Shape

\* The sweep's closing of letters keeps the shape.
LEMMA SweepRetiresShape ==
  ASSUME Shape, SweepRetires
  PROVE  Shape'
  <1>1. TypeOK'
    <2>1. /\ up' \in BOOLEAN /\ enabled' \in BOOLEAN
          /\ row' \in [Event -> {"none", "pending", "dispatched", "failed"}]
          /\ young' \subseteq Event /\ fresh' \subseteq Event /\ todo' \subseteq Event
          /\ elders' \in [Event -> SUBSET (Event \cup Foreign)] /\ stranded' \subseteq Foreign
      BY ActorsAssumption, BoundsAssumption
       DEF SweepRetires, Move, Retire, Open, Slot, Owed, SweepRests, rowVars, counters,
          Letter, Shape, TypeOK, AtWork, Sweeper
    <2>2. tries' \in [Event -> 0..MostTries] /\ jobs' \in [Event -> [Slot -> Job]]
      BY ActorsAssumption, BoundsAssumption
       DEF SweepRetires, Move, Retire, Open, Slot, Owed, SweepRests, rowVars, counters,
          Letter, Shape, TypeOK, AtWork, Sweeper, Job
    <2>3. seen' \in [Event -> 0..(MostTries - 1)]
      BY ActorsAssumption, BoundsAssumption
       DEF SweepRetires, Move, Retire, Open, Slot, Owed, SweepRests, rowVars, counters,
          Letter, Shape, TypeOK, AtWork, Sweeper, MostTries
    <2>4. letters' \in [Event -> [Letter -> {"none", "open", "redriven"}]]
      BY ActorsAssumption, BoundsAssumption
       DEF SweepRetires, Move, Retire, Open, Slot, Owed, SweepRests, rowVars, counters,
          Letter, Shape, TypeOK, AtWork, Sweeper
    <2>5. /\ work' \in [Actor -> Stages]
          /\ target' \in [{Sweep, Redrive} -> Event \cup {None}] /\ letter' \in Slot
          /\ batch' \subseteq Event \X Letter
      BY ActorsAssumption, BoundsAssumption
       DEF SweepRetires, Move, Retire, Open, Slot, Owed, SweepRests, rowVars, counters,
          Letter, Shape, TypeOK, AtWork, Sweeper, Actor, Stages
    <2>6. /\ handled' \subseteq Event /\ unlettered' \subseteq Event /\ mistaken' \subseteq Event
          /\ faults' \in 0..MaxFaults /\ redrives' \in 0..MaxRedrives
      BY ActorsAssumption, BoundsAssumption
       DEF SweepRetires, Move, Retire, Open, Slot, Owed, SweepRests, rowVars, counters,
          Letter, Shape, TypeOK, AtWork, Sweeper
    <2>7. QED
      BY <2>1, <2>2, <2>3, <2>4, <2>5, <2>6 DEF TypeOK, Job
  <1>2. AtWork'
    BY ActorsAssumption, BoundsAssumption
     DEF SweepRetires, Move, Retire, Open, Slot, Owed, SweepRests, rowVars, counters,
        Letter, Shape, TypeOK, AtWork, Sweeper, Lettered, Actor
  <1>3. \A f \in Event : Untouched(f)'
    BY ActorsAssumption, BoundsAssumption
     DEF SweepRetires, Move, Retire, Open, Slot, Owed, SweepRests, rowVars, counters,
        Letter, Shape, TypeOK, Untouched, Lettered, AtWork, Sweeper, Actor
  <1>4. \A f \in Event : WithinBudget(f)'
    BY ActorsAssumption
     DEF SweepRetires, Move, SweepRests, rowVars, Shape, TypeOK, WithinBudget, Actor
  <1>5. \A f \in Event : Numbered(f)'
    <2>1. \A f \in Event, l \in Letter : Lettered(f, l)' <=> Lettered(f, l)
      <3>1. letters \in [Event -> [Letter -> {"none", "open", "redriven"}]]
        BY DEF Shape, TypeOK
      <3>2. \E f \in Event : \E closed : Retire(f, closed) /\ \A l \in closed : letters[f][l] # "none"
        BY ActorIsAt DEF SweepRetires, Move, Open, Actor, Shape, AtWork, Lettered
      <3>3. QED
        BY <3>1, <3>2 DEF Retire, Lettered
    <2>2. UNCHANGED jobs
      BY DEF SweepRetires
    <2>3. QED
      BY <2>1, <2>2, BoundsAssumption DEF Shape, Numbered, Letter
  <1>6. QED
    BY <1>1, <1>2, <1>3, <1>4, <1>5 DEF Shape

\* The sweep's count of a failure keeps the shape.
LEMMA SweepCountsShape ==
  ASSUME Shape, SweepCounts
  PROVE  Shape'
  <1>1. TypeOK'
    <2>1. /\ up' \in BOOLEAN /\ enabled' \in BOOLEAN
          /\ row' \in [Event -> {"none", "pending", "dispatched", "failed"}]
          /\ young' \subseteq Event /\ fresh' \subseteq Event /\ todo' \subseteq Event
          /\ elders' \in [Event -> SUBSET (Event \cup Foreign)] /\ stranded' \subseteq Foreign
      BY ActorsAssumption, BoundsAssumption
       DEF SweepCounts, Move, Terminal, Touch, SweepRests, factVars, counters, Shape,
          TypeOK, AtWork, Sweeper
    <2>2. /\ tries' \in [Event -> 0..MostTries] /\ seen' \in [Event -> 0..(MostTries - 1)]
          /\ letters' \in [Event -> [Letter -> {"none", "open", "redriven"}]]
          /\ jobs' \in [Event -> [Slot -> Job]]
      BY ActorsAssumption, BoundsAssumption
       DEF SweepCounts, Move, Terminal, Touch, SweepRests, factVars, counters, Shape,
          TypeOK, AtWork, Sweeper, WithinBudget, MostTries, Owed, Retained, Job
    <2>3. /\ work' \in [Actor -> Stages]
          /\ target' \in [{Sweep, Redrive} -> Event \cup {None}] /\ letter' \in Slot
          /\ batch' \subseteq Event \X Letter
      BY ActorsAssumption, BoundsAssumption
       DEF SweepCounts, Move, Terminal, Touch, SweepRests, factVars, counters, Shape,
          TypeOK, AtWork, Sweeper, Actor, Stages, Letter, Slot
    <2>4. /\ handled' \subseteq Event /\ unlettered' \subseteq Event /\ mistaken' \subseteq Event
          /\ faults' \in 0..MaxFaults /\ redrives' \in 0..MaxRedrives
      BY ActorsAssumption, BoundsAssumption
       DEF SweepCounts, Move, Terminal, Touch, SweepRests, factVars, counters, Shape,
          TypeOK, AtWork, Sweeper
    <2>5. QED
      BY <2>1, <2>2, <2>3, <2>4 DEF TypeOK, Job
  <1>2. AtWork'
    BY ActorsAssumption, BoundsAssumption
     DEF SweepCounts, Move, Terminal, Touch, SweepRests, factVars, counters, Shape, TypeOK,
        AtWork, Sweeper, Lettered, Actor
  <1>3. \A f \in Event : Untouched(f)'
    BY ActorsAssumption, BoundsAssumption
     DEF SweepCounts, Move, Terminal, Touch, SweepRests, factVars, counters, Shape, TypeOK,
        Untouched, Lettered, AtWork, Sweeper, Actor
  <1>4. \A f \in Event : WithinBudget(f)'
    BY ActorsAssumption, BoundsAssumption
     DEF SweepCounts, Move, Terminal, Touch, SweepRests, factVars, counters, Shape, TypeOK,
        WithinBudget, Untouched, AtWork, Sweeper, MostTries, Actor
  <1>5. \A f \in Event : Numbered(f)'
    BY DEF SweepCounts, Shape, Numbered, Lettered
  <1>6. QED
    BY <1>1, <1>2, <1>3, <1>4, <1>5 DEF Shape

\* The sweep's look for a letter keeps the shape.
LEMMA SweepLooksShape ==
  ASSUME Shape, SweepLooks
  PROVE  Shape'
  <1>1. TypeOK'
    BY ActorsAssumption, BoundsAssumption
     DEF SweepLooks, Terminal, Letter, rowVars, sweepVars, factVars, counters, Shape,
        TypeOK, AtWork, Sweeper, WithinBudget, MostTries, Actor, Stages, Slot, Owed,
        Retained
  <1>2. AtWork'
    BY ActorsAssumption, BoundsAssumption
     DEF SweepLooks, Terminal, Letter, rowVars, sweepVars, factVars, counters, Shape,
        TypeOK, AtWork, Sweeper, Lettered, Actor
  <1>3. \A f \in Event : Untouched(f)'
    BY ActorsAssumption, BoundsAssumption
     DEF SweepLooks, Terminal, Letter, rowVars, sweepVars, factVars, counters, Shape,
        TypeOK, Untouched, Lettered, AtWork, Sweeper, Actor
  <1>4. \A f \in Event : WithinBudget(f)'
    BY ActorsAssumption, BoundsAssumption
     DEF SweepLooks, Terminal, Letter, rowVars, sweepVars, factVars, counters, Shape,
        TypeOK, WithinBudget, Untouched, AtWork, Sweeper, MostTries, Actor
  <1>5. \A f \in Event : Numbered(f)'
    BY DEF SweepLooks, Shape, Numbered, Lettered
  <1>6. QED
    BY <1>1, <1>2, <1>3, <1>4, <1>5 DEF Shape

\* The sweep's dead letter keeps the shape.
LEMMA SweepLettersShape ==
  ASSUME Shape, SweepLetters
  PROVE  Shape'
  <1>1. TypeOK'
    <2>1. /\ up' \in BOOLEAN /\ enabled' \in BOOLEAN
          /\ row' \in [Event -> {"none", "pending", "dispatched", "failed"}]
          /\ young' \subseteq Event /\ fresh' \subseteq Event /\ todo' \subseteq Event
          /\ elders' \in [Event -> SUBSET (Event \cup Foreign)] /\ stranded' \subseteq Foreign
      BY ActorsAssumption, BoundsAssumption
       DEF SweepLetters, Move, SaveLetter, rowVars, sweepVars, factVars, counters, Letter,
          Shape, TypeOK, AtWork, Sweeper
    <2>2. /\ tries' \in [Event -> 0..MostTries] /\ seen' \in [Event -> 0..(MostTries - 1)]
          /\ letters' \in [Event -> [Letter -> {"none", "open", "redriven"}]]
          /\ jobs' \in [Event -> [Slot -> Job]]
      BY ActorsAssumption, BoundsAssumption, LetterSaved
       DEF SweepLetters, Move, SaveLetter, rowVars, sweepVars, factVars, counters, Letter,
          Shape, TypeOK, AtWork, Sweeper, WithinBudget, MostTries, Owed, Retained, Job
    <2>3. /\ work' \in [Actor -> Stages]
          /\ target' \in [{Sweep, Redrive} -> Event \cup {None}] /\ letter' \in Slot
          /\ batch' \subseteq Event \X Letter
      BY ActorsAssumption, BoundsAssumption
       DEF SweepLetters, Move, SaveLetter, rowVars, sweepVars, factVars, counters, Letter,
          Shape, TypeOK, AtWork, Sweeper, Actor, Stages, Slot
    <2>4. /\ handled' \subseteq Event /\ unlettered' \subseteq Event /\ mistaken' \subseteq Event
          /\ faults' \in 0..MaxFaults /\ redrives' \in 0..MaxRedrives
      BY ActorsAssumption, BoundsAssumption
       DEF SweepLetters, Move, SaveLetter, rowVars, sweepVars, factVars, counters, Letter,
          Shape, TypeOK, AtWork, Sweeper
    <2>5. QED
      BY <2>1, <2>2, <2>3, <2>4 DEF TypeOK, Job
  <1>2. AtWork'
    BY ActorsAssumption, BoundsAssumption
     DEF SweepLetters, Move, SaveLetter, rowVars, sweepVars, factVars, counters, Letter,
        Shape, TypeOK, AtWork, Sweeper, Lettered, Actor
  <1>3. \A f \in Event : WithinBudget(f)'
    BY ActorsAssumption, BoundsAssumption
     DEF SweepLetters, Move, SaveLetter, rowVars, sweepVars, factVars, counters, Letter,
        Shape, TypeOK, WithinBudget, Untouched, AtWork, Sweeper, MostTries, Actor
  <1>4. target[Sweep] \in Event /\ row[target[Sweep]] # "none"
    BY ActorsAssumption DEF SweepLetters, Move, Shape, TypeOK, AtWork, Sweeper, Untouched, Actor
  <1>6. \A f \in Event : Untouched(f)' /\ Numbered(f)'
    <2>1. \A f \in Event : f # target[Sweep] => work'[f] = work[f]
      BY ActorsAssumption DEF SweepLetters, Move, Shape, TypeOK, Actor
    <2>2. QED
      BY <1>4, <2>1, LetterNumbered DEF SweepLetters, rowVars, sweepVars
  <1>7. QED
    BY <1>1, <1>2, <1>3, <1>6 DEF Shape

\* The sweep's terminal mark keeps the shape.
LEMMA SweepMarksShape ==
  ASSUME Shape, SweepMarks
  PROVE  Shape'
  <1>1. TypeOK'
    <2>1. /\ up' \in BOOLEAN /\ enabled' \in BOOLEAN
          /\ row' \in [Event -> {"none", "pending", "dispatched", "failed"}]
          /\ young' \subseteq Event /\ fresh' \subseteq Event /\ todo' \subseteq Event
          /\ elders' \in [Event -> SUBSET (Event \cup Foreign)] /\ stranded' \subseteq Foreign
      BY ActorsAssumption, BoundsAssumption
       DEF SweepMarks, Move, Close, SweepRests, factVars, counters, Shape, TypeOK, AtWork,
          Sweeper
    <2>2. /\ tries' \in [Event -> 0..MostTries] /\ seen' \in [Event -> 0..(MostTries - 1)]
          /\ letters' \in [Event -> [Letter -> {"none", "open", "redriven"}]]
          /\ jobs' \in [Event -> [Slot -> Job]]
      BY ActorsAssumption, BoundsAssumption
       DEF SweepMarks, Move, Close, SweepRests, factVars, counters, Shape, TypeOK, AtWork,
          Sweeper, WithinBudget, MostTries, Owed, Retained, Job
    <2>3. /\ work' \in [Actor -> Stages]
          /\ target' \in [{Sweep, Redrive} -> Event \cup {None}] /\ letter' \in Slot
          /\ batch' \subseteq Event \X Letter
      BY ActorsAssumption, BoundsAssumption
       DEF SweepMarks, Move, Close, SweepRests, factVars, counters, Shape, TypeOK, AtWork,
          Sweeper, Actor, Stages, Letter, Slot
    <2>4. /\ handled' \subseteq Event /\ unlettered' \subseteq Event /\ mistaken' \subseteq Event
          /\ faults' \in 0..MaxFaults /\ redrives' \in 0..MaxRedrives
      BY ActorsAssumption, BoundsAssumption
       DEF SweepMarks, Move, Close, SweepRests, factVars, counters, Shape, TypeOK, AtWork,
          Sweeper
    <2>5. QED
      BY <2>1, <2>2, <2>3, <2>4 DEF TypeOK, Job
  <1>2. AtWork'
    BY ActorsAssumption, BoundsAssumption
     DEF SweepMarks, Move, Close, SweepRests, factVars, counters, Shape, TypeOK, AtWork,
        Sweeper, Lettered, Actor
  <1>3. \A f \in Event : Untouched(f)'
    BY ActorsAssumption, BoundsAssumption
     DEF SweepMarks, Move, Close, SweepRests, factVars, counters, Shape, TypeOK, Untouched,
        Lettered, AtWork, Sweeper, Actor
  <1>4. \A f \in Event : WithinBudget(f)'
    BY ActorsAssumption, BoundsAssumption
     DEF SweepMarks, Move, Close, SweepRests, factVars, counters, Shape, TypeOK,
        WithinBudget, Untouched, AtWork, Sweeper, MostTries, Actor
  <1>5. \A f \in Event : Numbered(f)'
    BY DEF SweepMarks, Shape, Numbered, Lettered
  <1>6. QED
    BY <1>1, <1>2, <1>3, <1>4, <1>5 DEF Shape

\* A rejected write of the sweep keeps the shape.
LEMMA SweepWriteFailsShape ==
  ASSUME Shape, SweepWriteFails
  PROVE  Shape'
  <1>1. TypeOK'
    <2>1. /\ up' \in BOOLEAN /\ enabled' \in BOOLEAN
          /\ row' \in [Event -> {"none", "pending", "dispatched", "failed"}]
          /\ young' \subseteq Event /\ fresh' \subseteq Event /\ todo' \subseteq Event
          /\ elders' \in [Event -> SUBSET (Event \cup Foreign)] /\ stranded' \subseteq Foreign
      BY ActorsAssumption, BoundsAssumption
       DEF SweepWriteFails, Move, Fault, SweepRests, rowVars, factVars, Shape, TypeOK,
          AtWork, Sweeper
    <2>2. /\ tries' \in [Event -> 0..MostTries] /\ seen' \in [Event -> 0..(MostTries - 1)]
          /\ letters' \in [Event -> [Letter -> {"none", "open", "redriven"}]]
          /\ jobs' \in [Event -> [Slot -> Job]]
      BY ActorsAssumption, BoundsAssumption
       DEF SweepWriteFails, Move, Fault, SweepRests, rowVars, factVars, Shape, TypeOK,
          AtWork, Sweeper, WithinBudget, MostTries, Owed, Retained, Job
    <2>3. work' \in [Actor -> Stages]
      BY ActorsAssumption, BoundsAssumption
       DEF SweepWriteFails, Move, Fault, SweepRests, rowVars, factVars, Shape, TypeOK,
          AtWork, Sweeper, Actor, Stages
    <2>4. /\ target' \in [{Sweep, Redrive} -> Event \cup {None}] /\ letter' \in Slot
          /\ batch' \subseteq Event \X Letter
      BY ActorsAssumption, BoundsAssumption
       DEF SweepWriteFails, Move, Fault, SweepRests, rowVars, factVars, Shape, TypeOK,
          AtWork, Sweeper, Letter, Slot
    <2>5. /\ handled' \subseteq Event /\ unlettered' \subseteq Event /\ mistaken' \subseteq Event
          /\ faults' \in 0..MaxFaults /\ redrives' \in 0..MaxRedrives
      BY ActorsAssumption, BoundsAssumption
       DEF SweepWriteFails, Move, Fault, SweepRests, rowVars, factVars, Shape, TypeOK,
          AtWork, Sweeper
    <2>6. QED
      BY <2>1, <2>2, <2>3, <2>4, <2>5 DEF TypeOK, Job
  <1>2. AtWork'
    BY ActorsAssumption, BoundsAssumption
     DEF SweepWriteFails, Move, Fault, SweepRests, rowVars, factVars, Shape, TypeOK,
        AtWork, Sweeper, Lettered, Actor
  <1>3. \A f \in Event : Untouched(f)'
    BY ActorsAssumption, BoundsAssumption
     DEF SweepWriteFails, Move, Fault, SweepRests, rowVars, factVars, Shape, TypeOK,
        Untouched, Lettered, AtWork, Sweeper, Actor
  <1>4. \A f \in Event : WithinBudget(f)'
    BY ActorsAssumption, BoundsAssumption
     DEF SweepWriteFails, Move, Fault, SweepRests, rowVars, factVars, Shape, TypeOK,
        WithinBudget, Untouched, AtWork, Sweeper, MostTries, Actor
  <1>5. \A f \in Event : Numbered(f)'
    BY DEF SweepWriteFails, Shape, Numbered, Lettered
  <1>6. QED
    BY <1>1, <1>2, <1>3, <1>4, <1>5 DEF Shape

\* The redrive's list of letters keeps the shape.
LEMMA RedriveReadsShape ==
  ASSUME Shape, RedriveReads
  PROVE  Shape'
  <1>1. TypeOK'
    <2>1. /\ up' \in BOOLEAN /\ enabled' \in BOOLEAN
          /\ row' \in [Event -> {"none", "pending", "dispatched", "failed"}]
          /\ young' \subseteq Event /\ fresh' \subseteq Event /\ todo' \subseteq Event
          /\ elders' \in [Event -> SUBSET (Event \cup Foreign)] /\ stranded' \subseteq Foreign
      BY ActorsAssumption, BoundsAssumption
       DEF RedriveReads, Letter, rowVars, sweepVars, factVars, Shape, TypeOK, AtWork,
          Sweeper
    <2>2. /\ tries' \in [Event -> 0..MostTries] /\ seen' \in [Event -> 0..(MostTries - 1)]
          /\ letters' \in [Event -> [Letter -> {"none", "open", "redriven"}]]
          /\ jobs' \in [Event -> [Slot -> Job]]
      BY ActorsAssumption, BoundsAssumption
       DEF RedriveReads, Letter, rowVars, sweepVars, factVars, Shape, TypeOK, AtWork,
          Sweeper, WithinBudget, MostTries, Owed, Retained, Job
    <2>3. /\ work' \in [Actor -> Stages]
          /\ target' \in [{Sweep, Redrive} -> Event \cup {None}] /\ letter' \in Slot
          /\ batch' \subseteq Event \X Letter
      BY ActorsAssumption, BoundsAssumption
       DEF RedriveReads, Letter, rowVars, sweepVars, factVars, Shape, TypeOK, AtWork,
          Sweeper, Actor, Stages, Slot
    <2>4. /\ handled' \subseteq Event /\ unlettered' \subseteq Event /\ mistaken' \subseteq Event
          /\ faults' \in 0..MaxFaults /\ redrives' \in 0..MaxRedrives
      BY ActorsAssumption, BoundsAssumption
       DEF RedriveReads, Letter, rowVars, sweepVars, factVars, Shape, TypeOK, AtWork,
          Sweeper
    <2>5. QED
      BY <2>1, <2>2, <2>3, <2>4 DEF TypeOK, Job
  <1>2. AtWork'
    BY ActorsAssumption, BoundsAssumption
     DEF RedriveReads, Letter, rowVars, sweepVars, factVars, Shape, TypeOK, AtWork,
        Sweeper, Lettered, Actor
  <1>3. \A f \in Event : Untouched(f)'
    BY ActorsAssumption, BoundsAssumption
     DEF RedriveReads, Letter, rowVars, sweepVars, factVars, Shape, TypeOK, Untouched,
        Lettered, AtWork, Sweeper, Actor
  <1>4. \A f \in Event : WithinBudget(f)'
    BY ActorsAssumption, BoundsAssumption
     DEF RedriveReads, Letter, rowVars, sweepVars, factVars, Shape, TypeOK, WithinBudget,
        Untouched, AtWork, Sweeper, MostTries, Actor
  <1>5. \A f \in Event : Numbered(f)'
    BY DEF RedriveReads, Shape, Numbered, Lettered
  <1>6. QED
    BY <1>1, <1>2, <1>3, <1>4, <1>5 DEF Shape

\* The start of a redrive of a letter keeps the shape.
LEMMA RedriveVisitsShape ==
  ASSUME Shape, NEW e \in Event, NEW l \in Letter, RedriveVisits(e, l)
  PROVE  Shape'
  <1>1. TypeOK'
    <2>1. /\ up' \in BOOLEAN /\ enabled' \in BOOLEAN
          /\ row' \in [Event -> {"none", "pending", "dispatched", "failed"}]
          /\ young' \subseteq Event /\ fresh' \subseteq Event /\ todo' \subseteq Event
          /\ elders' \in [Event -> SUBSET (Event \cup Foreign)] /\ stranded' \subseteq Foreign
      BY ActorsAssumption, BoundsAssumption
       DEF RedriveVisits, Move, rowVars, sweepVars, factVars, counters, Shape, TypeOK,
          AtWork, Sweeper
    <2>2. /\ tries' \in [Event -> 0..MostTries] /\ seen' \in [Event -> 0..(MostTries - 1)]
          /\ letters' \in [Event -> [Letter -> {"none", "open", "redriven"}]]
          /\ jobs' \in [Event -> [Slot -> Job]]
      BY ActorsAssumption, BoundsAssumption
       DEF RedriveVisits, Move, rowVars, sweepVars, factVars, counters, Shape, TypeOK,
          AtWork, Sweeper, WithinBudget, MostTries, Owed, Retained, Job
    <2>3. work' \in [Actor -> Stages]
      BY ActorsAssumption, BoundsAssumption
       DEF RedriveVisits, Move, rowVars, sweepVars, factVars, counters, Shape, TypeOK,
          AtWork, Sweeper, Actor, Stages
    <2>4. /\ target' \in [{Sweep, Redrive} -> Event \cup {None}] /\ letter' \in Slot
          /\ batch' \subseteq Event \X Letter
      <3>1. target' \in [{Sweep, Redrive} -> Event \cup {None}]
        BY ActorsAssumption DEF RedriveVisits, Shape, TypeOK
      <3>2. letter' \in Slot
        BY BoundsAssumption DEF RedriveVisits, Shape, TypeOK, Slot, Letter
      <3>3. batch' \subseteq Event \X Letter
        BY DEF RedriveVisits, Shape, TypeOK
      <3>4. QED
        BY <3>1, <3>2, <3>3
    <2>5. /\ handled' \subseteq Event /\ unlettered' \subseteq Event /\ mistaken' \subseteq Event
          /\ faults' \in 0..MaxFaults /\ redrives' \in 0..MaxRedrives
      BY ActorsAssumption, BoundsAssumption
       DEF RedriveVisits, Move, rowVars, sweepVars, factVars, counters, Shape, TypeOK,
          AtWork, Sweeper
    <2>6. QED
      BY <2>1, <2>2, <2>3, <2>4, <2>5 DEF TypeOK, Job
  <1>2. AtWork'
    BY ActorsAssumption, BoundsAssumption
     DEF RedriveVisits, Move, rowVars, sweepVars, factVars, counters, Shape, TypeOK,
        AtWork, Sweeper, Lettered, Actor
  <1>3. \A f \in Event : Untouched(f)'
    BY ActorsAssumption, BoundsAssumption
     DEF RedriveVisits, Move, rowVars, sweepVars, factVars, counters, Shape, TypeOK,
        Untouched, Lettered, AtWork, Sweeper, Actor
  <1>4. \A f \in Event : WithinBudget(f)'
    BY ActorsAssumption, BoundsAssumption
     DEF RedriveVisits, Move, rowVars, sweepVars, factVars, counters, Shape, TypeOK,
        WithinBudget, Untouched, AtWork, Sweeper, MostTries, Actor
  <1>5. \A f \in Event : Numbered(f)'
    BY DEF RedriveVisits, Shape, Numbered, Lettered
  <1>6. QED
    BY <1>1, <1>2, <1>3, <1>4, <1>5 DEF Shape

\* The redrive's mark of the row keeps the shape.
LEMMA RedriveClosesShape ==
  ASSUME Shape, RedriveCloses
  PROVE  Shape'
  <1>1. TypeOK'
    <2>1. /\ up' \in BOOLEAN /\ enabled' \in BOOLEAN
          /\ row' \in [Event -> {"none", "pending", "dispatched", "failed"}]
          /\ young' \subseteq Event /\ fresh' \subseteq Event /\ todo' \subseteq Event
          /\ elders' \in [Event -> SUBSET (Event \cup Foreign)] /\ stranded' \subseteq Foreign
      BY ActorsAssumption, BoundsAssumption
       DEF RedriveCloses, Move, Close, sweepVars, factVars, counters, Shape, TypeOK,
          AtWork, Sweeper
    <2>2. /\ tries' \in [Event -> 0..MostTries] /\ seen' \in [Event -> 0..(MostTries - 1)]
          /\ letters' \in [Event -> [Letter -> {"none", "open", "redriven"}]]
          /\ jobs' \in [Event -> [Slot -> Job]]
      BY ActorsAssumption, BoundsAssumption
       DEF RedriveCloses, Move, Close, sweepVars, factVars, counters, Shape, TypeOK,
          AtWork, Sweeper, WithinBudget, MostTries, Owed, Retained, Job
    <2>3. /\ work' \in [Actor -> Stages]
          /\ target' \in [{Sweep, Redrive} -> Event \cup {None}] /\ letter' \in Slot
          /\ batch' \subseteq Event \X Letter
      BY ActorsAssumption, BoundsAssumption
       DEF RedriveCloses, Move, Close, sweepVars, factVars, counters, Shape, TypeOK,
          AtWork, Sweeper, Actor, Stages, Letter, Slot
    <2>4. /\ handled' \subseteq Event /\ unlettered' \subseteq Event /\ mistaken' \subseteq Event
          /\ faults' \in 0..MaxFaults /\ redrives' \in 0..MaxRedrives
      BY ActorsAssumption, BoundsAssumption
       DEF RedriveCloses, Move, Close, sweepVars, factVars, counters, Shape, TypeOK,
          AtWork, Sweeper
    <2>5. QED
      BY <2>1, <2>2, <2>3, <2>4 DEF TypeOK, Job
  <1>2. AtWork'
    BY ActorsAssumption, BoundsAssumption
     DEF RedriveCloses, Move, Close, sweepVars, factVars, counters, Shape, TypeOK, AtWork,
        Sweeper, Lettered, Actor
  <1>3. \A f \in Event : Untouched(f)'
    BY ActorsAssumption, BoundsAssumption
     DEF RedriveCloses, Move, Close, sweepVars, factVars, counters, Shape, TypeOK,
        Untouched, Lettered, AtWork, Sweeper, Actor
  <1>4. \A f \in Event : WithinBudget(f)'
    BY ActorsAssumption, BoundsAssumption
     DEF RedriveCloses, Move, Close, sweepVars, factVars, counters, Shape, TypeOK,
        WithinBudget, Untouched, AtWork, Sweeper, MostTries, Actor
  <1>5. \A f \in Event : Numbered(f)'
    BY DEF RedriveCloses, Shape, Numbered, Lettered
  <1>6. QED
    BY <1>1, <1>2, <1>3, <1>4, <1>5 DEF Shape

\* The redrive's closing of its letter keeps the shape.
LEMMA RedriveRetiresShape ==
  ASSUME Shape, RedriveRetires
  PROVE  Shape'
  <1>1. TypeOK'
    <2>1. /\ up' \in BOOLEAN /\ enabled' \in BOOLEAN
          /\ row' \in [Event -> {"none", "pending", "dispatched", "failed"}]
          /\ young' \subseteq Event /\ fresh' \subseteq Event /\ todo' \subseteq Event
          /\ elders' \in [Event -> SUBSET (Event \cup Foreign)] /\ stranded' \subseteq Foreign
      BY ActorsAssumption, BoundsAssumption
       DEF RedriveRetires, Move, Retire, RedriveRests, rowVars, sweepVars, factVars,
          counters, Letter, Shape, TypeOK, AtWork, Sweeper
    <2>2. /\ tries' \in [Event -> 0..MostTries] /\ seen' \in [Event -> 0..(MostTries - 1)]
          /\ letters' \in [Event -> [Letter -> {"none", "open", "redriven"}]]
          /\ jobs' \in [Event -> [Slot -> Job]]
      BY ActorsAssumption, BoundsAssumption
       DEF RedriveRetires, Move, Retire, RedriveRests, rowVars, sweepVars, factVars,
          counters, Letter, Shape, TypeOK, AtWork, Sweeper, WithinBudget, MostTries, Owed,
          Retained, Job
    <2>3. work' \in [Actor -> Stages]
      BY ActorsAssumption, BoundsAssumption
       DEF RedriveRetires, Move, Retire, RedriveRests, rowVars, sweepVars, factVars,
          counters, Letter, Shape, TypeOK, AtWork, Sweeper, Actor, Stages
    <2>4. /\ target' \in [{Sweep, Redrive} -> Event \cup {None}] /\ letter' \in Slot
          /\ batch' \subseteq Event \X Letter
      <3>1. target' \in [{Sweep, Redrive} -> Event \cup {None}]
        BY ActorsAssumption DEF RedriveRetires, Retire, RedriveRests, Shape, TypeOK
      <3>2. letter' \in Slot
        BY BoundsAssumption DEF RedriveRetires, Retire, RedriveRests, Shape, TypeOK, Slot, Letter
      <3>3. batch' \subseteq Event \X Letter
        BY DEF RedriveRetires, Retire, RedriveRests, Shape, TypeOK
      <3>4. QED
        BY <3>1, <3>2, <3>3
    <2>5. /\ handled' \subseteq Event /\ unlettered' \subseteq Event /\ mistaken' \subseteq Event
          /\ faults' \in 0..MaxFaults /\ redrives' \in 0..MaxRedrives
      BY ActorsAssumption, BoundsAssumption
       DEF RedriveRetires, Move, Retire, RedriveRests, rowVars, sweepVars, factVars,
          counters, Letter, Shape, TypeOK, AtWork, Sweeper
    <2>6. QED
      BY <2>1, <2>2, <2>3, <2>4, <2>5 DEF TypeOK, Job
  <1>2. AtWork'
    BY ActorsAssumption, BoundsAssumption
     DEF RedriveRetires, Move, Retire, RedriveRests, rowVars, sweepVars, factVars,
        counters, Letter, Shape, TypeOK, AtWork, Sweeper, Lettered, Actor
  <1>3. \A f \in Event : Untouched(f)'
    BY ActorsAssumption, BoundsAssumption
     DEF RedriveRetires, Move, Retire, RedriveRests, rowVars, sweepVars, factVars,
        counters, Letter, Shape, TypeOK, Untouched, Lettered, AtWork, Sweeper, Actor
  <1>4. \A f \in Event : WithinBudget(f)'
    BY ActorsAssumption, BoundsAssumption
     DEF RedriveRetires, Move, Retire, RedriveRests, rowVars, sweepVars, factVars,
        counters, Letter, Shape, TypeOK, WithinBudget, Untouched, AtWork, Sweeper,
        MostTries, Actor
  <1>5. \A f \in Event : Numbered(f)'
    <2>1. \A f \in Event, l \in Letter : Lettered(f, l)' <=> Lettered(f, l)
      <3>1. letters \in [Event -> [Letter -> {"none", "open", "redriven"}]]
        BY DEF Shape, TypeOK
      <3>2. \E f \in Event : \E closed : Retire(f, closed) /\ \A l \in closed : letters[f][l] # "none"
        BY ActorIsAt DEF RedriveRetires, Move, Open, Actor, Shape, AtWork, Lettered
      <3>3. QED
        BY <3>1, <3>2 DEF Retire, Lettered
    <2>2. UNCHANGED jobs
      BY DEF RedriveRetires
    <2>3. QED
      BY <2>1, <2>2, BoundsAssumption DEF Shape, Numbered, Letter
  <1>6. QED
    BY <1>1, <1>2, <1>3, <1>4, <1>5 DEF Shape

\* A failed redrive keeps the shape.
LEMMA RedriveKeepsShape ==
  ASSUME Shape, RedriveKeeps
  PROVE  Shape'
  <1>1. TypeOK'
    <2>1. /\ up' \in BOOLEAN /\ enabled' \in BOOLEAN
          /\ row' \in [Event -> {"none", "pending", "dispatched", "failed"}]
          /\ young' \subseteq Event /\ fresh' \subseteq Event /\ todo' \subseteq Event
          /\ elders' \in [Event -> SUBSET (Event \cup Foreign)] /\ stranded' \subseteq Foreign
      BY ActorsAssumption, BoundsAssumption
       DEF RedriveKeeps, Move, RedriveRests, rowVars, sweepVars, factVars, counters, Shape,
          TypeOK, AtWork, Sweeper
    <2>2. /\ tries' \in [Event -> 0..MostTries] /\ seen' \in [Event -> 0..(MostTries - 1)]
          /\ letters' \in [Event -> [Letter -> {"none", "open", "redriven"}]]
          /\ jobs' \in [Event -> [Slot -> Job]]
      BY ActorsAssumption, BoundsAssumption
       DEF RedriveKeeps, Move, RedriveRests, rowVars, sweepVars, factVars, counters, Shape,
          TypeOK, AtWork, Sweeper, WithinBudget, MostTries, Owed, Retained, Job
    <2>3. work' \in [Actor -> Stages]
      BY ActorsAssumption, BoundsAssumption
       DEF RedriveKeeps, Move, RedriveRests, rowVars, sweepVars, factVars, counters, Shape,
          TypeOK, AtWork, Sweeper, Actor, Stages
    <2>4. /\ target' \in [{Sweep, Redrive} -> Event \cup {None}] /\ letter' \in Slot
          /\ batch' \subseteq Event \X Letter
      BY ActorsAssumption, BoundsAssumption
       DEF RedriveKeeps, Move, RedriveRests, rowVars, sweepVars, factVars, counters, Shape,
          TypeOK, AtWork, Sweeper, Letter, Slot
    <2>5. /\ handled' \subseteq Event /\ unlettered' \subseteq Event /\ mistaken' \subseteq Event
          /\ faults' \in 0..MaxFaults /\ redrives' \in 0..MaxRedrives
      BY ActorsAssumption, BoundsAssumption
       DEF RedriveKeeps, Move, RedriveRests, rowVars, sweepVars, factVars, counters, Shape,
          TypeOK, AtWork, Sweeper
    <2>6. QED
      BY <2>1, <2>2, <2>3, <2>4, <2>5 DEF TypeOK, Job
  <1>2. AtWork'
    BY ActorsAssumption, BoundsAssumption
     DEF RedriveKeeps, Move, RedriveRests, rowVars, sweepVars, factVars, counters, Shape,
        TypeOK, AtWork, Sweeper, Lettered, Actor
  <1>3. \A f \in Event : Untouched(f)'
    BY ActorsAssumption, BoundsAssumption
     DEF RedriveKeeps, Move, RedriveRests, rowVars, sweepVars, factVars, counters, Shape,
        TypeOK, Untouched, Lettered, AtWork, Sweeper, Actor
  <1>4. \A f \in Event : WithinBudget(f)'
    BY ActorsAssumption, BoundsAssumption
     DEF RedriveKeeps, Move, RedriveRests, rowVars, sweepVars, factVars, counters, Shape,
        TypeOK, WithinBudget, Untouched, AtWork, Sweeper, MostTries, Actor
  <1>5. \A f \in Event : Numbered(f)'
    BY DEF RedriveKeeps, Shape, Numbered, Lettered
  <1>6. QED
    BY <1>1, <1>2, <1>3, <1>4, <1>5 DEF Shape

\* A rejected write of the redrive keeps the shape.
LEMMA RedriveWriteFailsShape ==
  ASSUME Shape, RedriveWriteFails
  PROVE  Shape'
  <1>1. TypeOK'
    <2>1. /\ up' \in BOOLEAN /\ enabled' \in BOOLEAN
          /\ row' \in [Event -> {"none", "pending", "dispatched", "failed"}]
          /\ young' \subseteq Event /\ fresh' \subseteq Event /\ todo' \subseteq Event
          /\ elders' \in [Event -> SUBSET (Event \cup Foreign)] /\ stranded' \subseteq Foreign
      BY ActorsAssumption, BoundsAssumption
       DEF RedriveWriteFails, Move, Fault, RedriveRests, rowVars, sweepVars, factVars,
          Shape, TypeOK, AtWork, Sweeper
    <2>2. /\ tries' \in [Event -> 0..MostTries] /\ seen' \in [Event -> 0..(MostTries - 1)]
          /\ letters' \in [Event -> [Letter -> {"none", "open", "redriven"}]]
          /\ jobs' \in [Event -> [Slot -> Job]]
      BY ActorsAssumption, BoundsAssumption
       DEF RedriveWriteFails, Move, Fault, RedriveRests, rowVars, sweepVars, factVars,
          Shape, TypeOK, AtWork, Sweeper, WithinBudget, MostTries, Owed, Retained, Job
    <2>3. /\ work' \in [Actor -> Stages]
          /\ target' \in [{Sweep, Redrive} -> Event \cup {None}] /\ letter' \in Slot
          /\ batch' \subseteq Event \X Letter
      BY ActorsAssumption, BoundsAssumption
       DEF RedriveWriteFails, Move, Fault, RedriveRests, rowVars, sweepVars, factVars,
          Shape, TypeOK, AtWork, Sweeper, Actor, Stages, Letter, Slot
    <2>4. /\ handled' \subseteq Event /\ unlettered' \subseteq Event /\ mistaken' \subseteq Event
          /\ faults' \in 0..MaxFaults /\ redrives' \in 0..MaxRedrives
      BY ActorsAssumption, BoundsAssumption
       DEF RedriveWriteFails, Move, Fault, RedriveRests, rowVars, sweepVars, factVars,
          Shape, TypeOK, AtWork, Sweeper
    <2>5. QED
      BY <2>1, <2>2, <2>3, <2>4 DEF TypeOK, Job
  <1>2. AtWork'
    BY ActorsAssumption, BoundsAssumption
     DEF RedriveWriteFails, Move, Fault, RedriveRests, rowVars, sweepVars, factVars, Shape,
        TypeOK, AtWork, Sweeper, Lettered, Actor
  <1>3. \A f \in Event : Untouched(f)'
    BY ActorsAssumption, BoundsAssumption
     DEF RedriveWriteFails, Move, Fault, RedriveRests, rowVars, sweepVars, factVars, Shape,
        TypeOK, Untouched, Lettered, AtWork, Sweeper, Actor
  <1>4. \A f \in Event : WithinBudget(f)'
    BY ActorsAssumption, BoundsAssumption
     DEF RedriveWriteFails, Move, Fault, RedriveRests, rowVars, sweepVars, factVars, Shape,
        TypeOK, WithinBudget, Untouched, AtWork, Sweeper, MostTries, Actor
  <1>5. \A f \in Event : Numbered(f)'
    BY DEF RedriveWriteFails, Shape, Numbered, Lettered
  <1>6. QED
    BY <1>1, <1>2, <1>3, <1>4, <1>5 DEF Shape

\* BullMQ's forgetting of a job keeps the shape.
LEMMA JobExpiresShape ==
  ASSUME Shape, NEW e \in Event, NEW j \in Slot, JobExpires(e, j)
  PROVE  Shape'
  <1>1. TypeOK'
    <2>1. /\ up' \in BOOLEAN /\ enabled' \in BOOLEAN
          /\ row' \in [Event -> {"none", "pending", "dispatched", "failed"}]
          /\ young' \subseteq Event /\ fresh' \subseteq Event /\ todo' \subseteq Event
          /\ elders' \in [Event -> SUBSET (Event \cup Foreign)] /\ stranded' \subseteq Foreign
      BY ActorsAssumption, BoundsAssumption
       DEF JobExpires, Retained, NoJob, rowVars, sweepVars, factVars, counters, Shape,
          TypeOK, AtWork, Sweeper
    <2>2. /\ tries' \in [Event -> 0..MostTries] /\ seen' \in [Event -> 0..(MostTries - 1)]
          /\ letters' \in [Event -> [Letter -> {"none", "open", "redriven"}]]
          /\ jobs' \in [Event -> [Slot -> Job]]
      BY ActorsAssumption, BoundsAssumption
       DEF JobExpires, Retained, NoJob, rowVars, sweepVars, factVars, counters, Shape,
          TypeOK, AtWork, Sweeper, WithinBudget, MostTries, Owed, Job
    <2>3. /\ work' \in [Actor -> Stages]
          /\ target' \in [{Sweep, Redrive} -> Event \cup {None}] /\ letter' \in Slot
          /\ batch' \subseteq Event \X Letter
      BY ActorsAssumption, BoundsAssumption
       DEF JobExpires, Retained, NoJob, rowVars, sweepVars, factVars, counters, Shape,
          TypeOK, AtWork, Sweeper, Actor, Stages, Letter, Slot
    <2>4. /\ handled' \subseteq Event /\ unlettered' \subseteq Event /\ mistaken' \subseteq Event
          /\ faults' \in 0..MaxFaults /\ redrives' \in 0..MaxRedrives
      BY ActorsAssumption, BoundsAssumption
       DEF JobExpires, Retained, NoJob, rowVars, sweepVars, factVars, counters, Shape,
          TypeOK, AtWork, Sweeper
    <2>5. QED
      BY <2>1, <2>2, <2>3, <2>4 DEF TypeOK, Job
  <1>2. AtWork'
    BY ActorsAssumption, BoundsAssumption
     DEF JobExpires, Retained, NoJob, rowVars, sweepVars, factVars, counters, Shape,
        TypeOK, AtWork, Sweeper, Lettered, Actor
  <1>3. \A f \in Event : Untouched(f)'
    BY ActorsAssumption, BoundsAssumption
     DEF JobExpires, Retained, NoJob, rowVars, sweepVars, factVars, counters, Shape,
        TypeOK, Untouched, Lettered, AtWork, Sweeper, Actor
  <1>4. \A f \in Event : WithinBudget(f)'
    BY ActorsAssumption, BoundsAssumption
     DEF JobExpires, Retained, NoJob, rowVars, sweepVars, factVars, counters, Shape,
        TypeOK, WithinBudget, Untouched, AtWork, Sweeper, MostTries, Actor
  <1>5. \A f \in Event : Numbered(f)'
    <2>1. jobs \in [Event -> [Slot -> Job]] /\ NoJob \in Job
      BY BoundsAssumption DEF Shape, TypeOK, Job, NoJob
    <2>2. \A f \in Event, i \in Slot : jobs'[f][i] = IF f = e /\ i = j THEN NoJob ELSE jobs[f][i]
      BY <2>1, JobReplaced DEF JobExpires, Shape
    <2>3. NoJob.stage = "none"
      BY DEF NoJob
    <2>4. QED
      BY <2>2, <2>3 DEF JobExpires, Shape, Numbered, Lettered, Letter, Slot
  <1>6. QED
    BY <1>1, <1>2, <1>3, <1>4, <1>5 DEF Shape

\* A restart keeps the shape.
LEMMA BootShape ==
  ASSUME Shape, Boot
  PROVE  Shape'
  <1>1. TypeOK'
    BY ActorsAssumption, BoundsAssumption
     DEF Boot, rowVars, sweepVars, factVars, counters, Shape, TypeOK, AtWork, Sweeper,
        WithinBudget, MostTries, Actor, Stages, Letter, Slot, Owed, Retained
  <1>2. AtWork'
    BY ActorsAssumption, BoundsAssumption
     DEF Boot, rowVars, sweepVars, factVars, counters, Shape, TypeOK, AtWork, Sweeper,
        Lettered, Actor
  <1>3. \A f \in Event : Untouched(f)'
    BY ActorsAssumption, BoundsAssumption
     DEF Boot, rowVars, sweepVars, factVars, counters, Shape, TypeOK, Untouched, Lettered,
        AtWork, Sweeper, Actor
  <1>4. \A f \in Event : WithinBudget(f)'
    BY ActorsAssumption, BoundsAssumption
     DEF Boot, rowVars, sweepVars, factVars, counters, Shape, TypeOK, WithinBudget,
        Untouched, AtWork, Sweeper, MostTries, Actor
  <1>5. \A f \in Event : Numbered(f)'
    BY DEF Boot, Shape, Numbered, Lettered
  <1>6. QED
    BY <1>1, <1>2, <1>3, <1>4, <1>5 DEF Shape

\* The passing of the grace since a row was created keeps the shape.
LEMMA MaturesShape ==
  ASSUME Shape, NEW e \in Event, Matures(e)
  PROVE  Shape'
  <1>1. TypeOK'
    BY ActorsAssumption, BoundsAssumption
     DEF Matures, sweepVars, factVars, counters, Shape, TypeOK, AtWork, Sweeper, WithinBudget,
        MostTries, Actor, Stages, Letter, Slot, Owed, Retained
  <1>2. AtWork'
    BY ActorsAssumption, BoundsAssumption
     DEF Matures, sweepVars, factVars, counters, Shape, TypeOK, AtWork, Sweeper, Lettered,
        Actor
  <1>3. \A f \in Event : Untouched(f)'
    BY ActorsAssumption, BoundsAssumption
     DEF Matures, sweepVars, factVars, counters, Shape, TypeOK, Untouched, Lettered, AtWork,
        Sweeper, Actor
  <1>4. \A f \in Event : WithinBudget(f)'
    BY ActorsAssumption, BoundsAssumption
     DEF Matures, sweepVars, factVars, counters, Shape, TypeOK, WithinBudget, Untouched,
        AtWork, Sweeper, MostTries, Actor
  <1>5. \A f \in Event : Numbered(f)'
    BY DEF Matures, Shape, Numbered, Lettered
  <1>6. QED
    BY <1>1, <1>2, <1>3, <1>4, <1>5 DEF Shape

\* The passing of the grace since a row was last tried keeps the shape.
LEMMA AgesShape ==
  ASSUME Shape, NEW e \in Event, Ages(e)
  PROVE  Shape'
  <1>1. TypeOK'
    BY ActorsAssumption, BoundsAssumption
     DEF Ages, sweepVars, factVars, counters, Shape, TypeOK, AtWork, Sweeper, WithinBudget,
        MostTries, Actor, Stages, Letter, Slot, Owed, Retained
  <1>2. AtWork'
    BY ActorsAssumption, BoundsAssumption
     DEF Ages, sweepVars, factVars, counters, Shape, TypeOK, AtWork, Sweeper, Lettered,
        Actor
  <1>3. \A f \in Event : Untouched(f)'
    BY ActorsAssumption, BoundsAssumption
     DEF Ages, sweepVars, factVars, counters, Shape, TypeOK, Untouched, Lettered, AtWork,
        Sweeper, Actor
  <1>4. \A f \in Event : WithinBudget(f)'
    BY ActorsAssumption, BoundsAssumption
     DEF Ages, sweepVars, factVars, counters, Shape, TypeOK, WithinBudget, Untouched,
        AtWork, Sweeper, MostTries, Actor
  <1>5. \A f \in Event : Numbered(f)'
    BY DEF Ages, Shape, Numbered, Lettered
  <1>6. QED
    BY <1>1, <1>2, <1>3, <1>4, <1>5 DEF Shape

\* Another instance's delivery keeps the shape.
LEMMA StrandsShape ==
  ASSUME Shape, NEW g \in Foreign, Strands(g)
  PROVE  Shape'
  <1>1. TypeOK'
    BY ActorsAssumption, BoundsAssumption
     DEF Strands, sweepVars, factVars, counters, Shape, TypeOK, AtWork, Sweeper, WithinBudget,
        MostTries, Actor, Stages, Letter, Slot, Owed, Retained
  <1>2. AtWork'
    BY ActorsAssumption, BoundsAssumption
     DEF Strands, sweepVars, factVars, counters, Shape, TypeOK, AtWork, Sweeper, Lettered,
        Actor
  <1>3. \A f \in Event : Untouched(f)'
    BY ActorsAssumption, BoundsAssumption
     DEF Strands, sweepVars, factVars, counters, Shape, TypeOK, Untouched, Lettered, AtWork,
        Sweeper, Actor
  <1>4. \A f \in Event : WithinBudget(f)'
    BY ActorsAssumption, BoundsAssumption
     DEF Strands, sweepVars, factVars, counters, Shape, TypeOK, WithinBudget, Untouched,
        AtWork, Sweeper, MostTries, Actor
  <1>5. \A f \in Event : Numbered(f)'
    BY DEF Strands, Shape, Numbered, Lettered
  <1>6. QED
    BY <1>1, <1>2, <1>3, <1>4, <1>5 DEF Shape

\* Its end keeps the shape.
LEMMA LeavesShape ==
  ASSUME Shape, NEW g \in Foreign, Leaves(g)
  PROVE  Shape'
  <1>1. TypeOK'
    BY ActorsAssumption, BoundsAssumption
     DEF Leaves, sweepVars, factVars, counters, Shape, TypeOK, AtWork, Sweeper, WithinBudget,
        MostTries, Actor, Stages, Letter, Slot, Owed, Retained
  <1>2. AtWork'
    BY ActorsAssumption, BoundsAssumption
     DEF Leaves, sweepVars, factVars, counters, Shape, TypeOK, AtWork, Sweeper, Lettered,
        Actor
  <1>3. \A f \in Event : Untouched(f)'
    BY ActorsAssumption, BoundsAssumption
     DEF Leaves, sweepVars, factVars, counters, Shape, TypeOK, Untouched, Lettered, AtWork,
        Sweeper, Actor
  <1>4. \A f \in Event : WithinBudget(f)'
    BY ActorsAssumption, BoundsAssumption
     DEF Leaves, sweepVars, factVars, counters, Shape, TypeOK, WithinBudget, Untouched,
        AtWork, Sweeper, MostTries, Actor
  <1>5. \A f \in Event : Numbered(f)'
    BY DEF Leaves, Shape, Numbered, Lettered
  <1>6. QED
    BY <1>1, <1>2, <1>3, <1>4, <1>5 DEF Shape

\* Disabling the instance keeps the shape.
LEMMA DisableShape ==
  ASSUME Shape, Disable
  PROVE  Shape'
  <1>1. TypeOK'
    <2>1. /\ up' \in BOOLEAN /\ enabled' \in BOOLEAN
          /\ row' \in [Event -> {"none", "pending", "dispatched", "failed"}]
          /\ young' \subseteq Event /\ fresh' \subseteq Event /\ todo' \subseteq Event
          /\ elders' \in [Event -> SUBSET (Event \cup Foreign)] /\ stranded' \subseteq Foreign
      BY ActorsAssumption, BoundsAssumption
       DEF Disable, Fault, rowVars, sweepVars, factVars, Shape, TypeOK, AtWork, Sweeper
    <2>2. /\ tries' \in [Event -> 0..MostTries] /\ seen' \in [Event -> 0..(MostTries - 1)]
          /\ letters' \in [Event -> [Letter -> {"none", "open", "redriven"}]]
          /\ jobs' \in [Event -> [Slot -> Job]]
      BY ActorsAssumption, BoundsAssumption
       DEF Disable, Fault, rowVars, sweepVars, factVars, Shape, TypeOK, AtWork, Sweeper,
          WithinBudget, MostTries, Owed, Retained, Job
    <2>3. /\ work' \in [Actor -> Stages]
          /\ target' \in [{Sweep, Redrive} -> Event \cup {None}] /\ letter' \in Slot
          /\ batch' \subseteq Event \X Letter
      BY ActorsAssumption, BoundsAssumption
       DEF Disable, Fault, rowVars, sweepVars, factVars, Shape, TypeOK, AtWork, Sweeper,
          Actor, Stages, Letter, Slot
    <2>4. /\ handled' \subseteq Event /\ unlettered' \subseteq Event /\ mistaken' \subseteq Event
          /\ faults' \in 0..MaxFaults /\ redrives' \in 0..MaxRedrives
      BY ActorsAssumption, BoundsAssumption
       DEF Disable, Fault, rowVars, sweepVars, factVars, Shape, TypeOK, AtWork, Sweeper
    <2>5. QED
      BY <2>1, <2>2, <2>3, <2>4 DEF TypeOK, Job
  <1>2. AtWork'
    BY ActorsAssumption, BoundsAssumption
     DEF Disable, Fault, rowVars, sweepVars, factVars, Shape, TypeOK, AtWork, Sweeper,
        Lettered, Actor
  <1>3. ASSUME NEW f \in Event PROVE Untouched(f)' /\ WithinBudget(f)' /\ Numbered(f)'
    BY ActorsAssumption, BoundsAssumption
     DEF Disable, Fault, rowVars, sweepVars, factVars, Shape, TypeOK, Untouched,
        WithinBudget, Numbered, Lettered, AtWork, Sweeper, Actor, MostTries, Letter, Slot
  <1>4. QED
    BY <1>1, <1>2, <1>3 DEF Shape

\* Enabling the instance keeps the shape.
LEMMA EnableShape ==
  ASSUME Shape, Enable
  PROVE  Shape'
  <1>1. TypeOK'
    BY ActorsAssumption, BoundsAssumption
     DEF Enable, rowVars, sweepVars, factVars, counters, Shape, TypeOK, AtWork, Sweeper,
        WithinBudget, MostTries, Actor, Stages, Letter, Slot, Owed, Retained
  <1>2. AtWork'
    BY ActorsAssumption, BoundsAssumption
     DEF Enable, rowVars, sweepVars, factVars, counters, Shape, TypeOK, AtWork, Sweeper,
        Lettered, Actor
  <1>3. \A f \in Event : Untouched(f)'
    BY ActorsAssumption, BoundsAssumption
     DEF Enable, rowVars, sweepVars, factVars, counters, Shape, TypeOK, Untouched,
        Lettered, AtWork, Sweeper, Actor
  <1>4. \A f \in Event : WithinBudget(f)'
    BY ActorsAssumption, BoundsAssumption
     DEF Enable, rowVars, sweepVars, factVars, counters, Shape, TypeOK, WithinBudget,
        Untouched, AtWork, Sweeper, MostTries, Actor
  <1>5. \A f \in Event : Numbered(f)'
    BY DEF Enable, Shape, Numbered, Lettered
  <1>6. QED
    BY <1>1, <1>2, <1>3, <1>4, <1>5 DEF Shape

\* An add() BullMQ accepts keeps the shape.
LEMMA AddSucceedsShape ==
  ASSUME Shape, NEW a \in Actor, AddSucceeds(a)
  PROVE  Shape'
  <1> DEFINE old == jobs[On(a)][JobOf(a)]
             job == IF old.stage = "none" THEN [NoJob EXCEPT !.stage = "waiting"] ELSE old
  <1>1. On(a) \in Event /\ row[On(a)] # "none" /\ work[a] # "idle"
    BY ActorIsAt DEF AddSucceeds, Move
  <1>2. JobOf(a) \in Slot /\ (JobOf(a) \in Letter => Lettered(On(a), JobOf(a)))
    BY <1>1, ActorIsAt, BoundsAssumption DEF Letter
  <1>3. jobs \in [Event -> [Slot -> Job]]
    BY DEF Shape, TypeOK, Job
  <1>4. job \in Job
    <2>1. old \in Job
      BY <1>1, <1>2, <1>3
    <2>2. [NoJob EXCEPT !.stage = "waiting"] \in Job
      BY BoundsAssumption DEF NoJob, Job, Owed
    <2>3. QED
      BY <2>1, <2>2
  <1>5. jobs' = [jobs EXCEPT ![On(a)][JobOf(a)] = job]
    BY <1>1, <1>2, <1>3 DEF AddSucceeds
  <1>6. /\ jobs' \in [Event -> [Slot -> Job]]
        /\ \A f \in Event, i \in Slot :
             jobs'[f][i] = IF f = On(a) /\ i = JobOf(a) THEN job ELSE jobs[f][i]
    BY <1>1, <1>2, <1>3, <1>4, <1>5
  <1> HIDE DEF job, old
  <1>7. TypeOK'
    BY <1>6 DEF AddSucceeds, Move, Shape, TypeOK, rowVars, sweepVars, factVars, counters, Job,
                Stages
  <1>8. AtWork'
    BY ActorsAssumption
     DEF AddSucceeds, Move, Shape, TypeOK, AtWork, Sweeper, Lettered, Actor
  <1>9. \A f \in Event : Untouched(f)'
    BY <1>1, <1>6 DEF AddSucceeds, Move, Shape, TypeOK, Untouched, Lettered, rowVars, sweepVars,
                      On
  <1>10. \A f \in Event : WithinBudget(f)'
    BY ActorsAssumption
     DEF AddSucceeds, Move, Shape, TypeOK, WithinBudget, rowVars, sweepVars
  <1>11. \A f \in Event : Numbered(f)'
    BY <1>2, <1>6 DEF AddSucceeds, Shape, Numbered, Lettered, Letter, Slot
  <1>12. QED
    BY <1>7, <1>8, <1>9, <1>10, <1>11 DEF Shape

\* A successful inline dispatch keeps the shape.
LEMMA InlineDeliversShape ==
  ASSUME Shape, NEW a \in Actor, InlineDelivers(a)
  PROVE  Shape'
  <1>1. On(a) \in Event
    BY ActorIsAt DEF InlineDelivers, Move
  <1>2. TypeOK'
    BY <1>1 DEF InlineDelivers, Move, Shape, TypeOK, rowVars, sweepVars, counters, Stages
  <1>3. AtWork'
    BY ActorsAssumption
     DEF InlineDelivers, Move, Shape, TypeOK, AtWork, Sweeper, Lettered, Actor
  <1>4. \A f \in Event : Untouched(f)'
    BY DEF InlineDelivers, Move, Shape, TypeOK, Untouched, Lettered, rowVars, sweepVars
  <1>5. \A f \in Event : WithinBudget(f)'
    BY ActorsAssumption
     DEF InlineDelivers, Move, Shape, TypeOK, WithinBudget, rowVars, sweepVars
  <1>6. \A f \in Event : Numbered(f)'
    BY DEF InlineDelivers, Shape, Numbered, Lettered
  <1>7. QED
    BY <1>2, <1>3, <1>4, <1>5, <1>6 DEF Shape

\* The steps of the worker keep the shape.
LEMMA JobStepsShape ==
  ASSUME Shape, NEW e \in Event, NEW j \in Slot,
         JobStarts(e, j) \/ JobDelivers(e, j) \/ JobFails(e, j) \/ JobEnds(e, j)
           \/ JobWriteFails(e, j)
  PROVE  Shape'
  <1> DEFINE old  == jobs[e][j]
  <1>1. old \in Job /\ NoJob \in Job
    BY BoundsAssumption DEF Shape, TypeOK, Job, NoJob
  <1>2. /\ handled \subseteq Event /\ unlettered \subseteq Event /\ mistaken \subseteq Event
        /\ faults \in 0..MaxFaults
    BY DEF Shape, TypeOK
  <1>3. CASE JobStarts(e, j)
    <2>1. [old EXCEPT !.stage = "active"] \in Job
      BY <1>1 DEF Job, Owed
    <2>2. QED
      BY <1>2, <1>3, <2>1, BecomeShape DEF JobStarts, factVars, counters
  <1>4. CASE JobDelivers(e, j)
    <2>1. [NoJob EXCEPT !.stage = "completed"] \in Job
      BY <1>1 DEF Job, Retained
    <2>2. handled' \subseteq Event /\ UNCHANGED <<unlettered, mistaken, faults>>
      BY <1>2, <1>4 DEF JobDelivers, counters
    <2>3. QED
      BY <1>2, <1>4, <2>1, <2>2, BecomeShape DEF JobDelivers, counters
  <1>5. CASE JobFails(e, j)
    <2> DEFINE made == old.made + 1
               job == IF made < MaxAttempts
                      THEN [old EXCEPT !.stage = "waiting", !.made = made]
                      ELSE [old EXCEPT !.stage = "lettering"]
    <2>1. job \in Job
      <3>1. /\ old.made \in 0..(MaxAttempts - 1) /\ old.stalls \in 0..1
            /\ old = [stage |-> old.stage, made |-> old.made, stalls |-> old.stalls]
        BY <1>1 DEF Job
      <3>2. CASE made < MaxAttempts
        <4>1. job = [stage |-> "waiting", made |-> made, stalls |-> old.stalls]
          BY <3>1, <3>2
        <4>2. made \in 0..(MaxAttempts - 1)
          BY <3>1, <3>2, BoundsAssumption
        <4>3. QED
          BY <3>1, <4>1, <4>2 DEF Job, Owed
      <3>3. CASE ~(made < MaxAttempts)
        <4>1. job = [stage |-> "lettering", made |-> old.made, stalls |-> old.stalls]
          BY <3>1, <3>3
        <4>2. QED
          BY <3>1, <4>1 DEF Job, Owed
      <3>4. QED
        BY <3>2, <3>3
    <2>2. Become(e, j, "active", job)
      BY <1>5 DEF JobFails
    <2> HIDE DEF job
    <2>3. QED
      BY <1>2, <1>5, <2>1, <2>2, BecomeShape DEF JobFails, factVars, counters
  <1>6. CASE JobEnds(e, j)
    <2>1. [NoJob EXCEPT !.stage = "failed"] \in Job
      BY <1>1 DEF Job, Retained
    <2>2. QED
      BY <1>2, <1>6, <2>1, BecomeShape DEF JobEnds, factVars, counters
  <1>7. CASE JobWriteFails(e, j)
    <2>1. [NoJob EXCEPT !.stage = "failed"] \in Job
      BY <1>1 DEF Job, Retained
    <2>2. /\ unlettered' \subseteq Event /\ faults' \in 0..MaxFaults
          /\ UNCHANGED <<handled, mistaken>>
      BY <1>2, <1>7, BoundsAssumption DEF JobWriteFails, Fault
    <2>3. QED
      BY <1>2, <1>7, <2>1, <2>2, BecomeShape DEF JobWriteFails
  <1>8. QED
    BY <1>3, <1>4, <1>5, <1>6, <1>7

\* The worker's dead letter keeps the shape.
LEMMA JobLettersShape ==
  ASSUME Shape, NEW e \in Event, NEW j \in Slot, JobLetters(e, j)
  PROVE  Shape'
  <1> DEFINE job == [jobs[e][j] EXCEPT !.stage = "lettered"]
  <1>1. jobs[e][j].stage = "lettering" /\ jobs' = [jobs EXCEPT ![e][j] = job] /\ SaveLetter(e)
    BY DEF JobLetters, Become
  <1>2. job \in Job /\ job.stage = "lettered"
    <2>1. jobs[e][j] \in Job
      BY DEF Shape, TypeOK, Job
    <2>2. QED
      BY <2>1 DEF Job
  <1> HIDE DEF job
  <1>3. /\ jobs' \in [Event -> [Slot -> Job]]
        /\ \A f \in Event, i \in Slot :
             jobs'[f][i] = IF f = e /\ i = j THEN job ELSE jobs[f][i]
    <2>1. jobs \in [Event -> [Slot -> Job]]
      BY DEF Shape, TypeOK, Job
    <2>2. QED
      BY <2>1, <1>1, <1>2
  <1>4. /\ letters' \in [Event -> [Letter -> {"none", "open", "redriven"}]]
        /\ \A f \in Event, l \in Letter : Lettered(f, l) => Lettered(f, l)'
    BY <1>1, LetterSaved DEF Lettered
  <1>5. TypeOK'
    BY <1>3, <1>4 DEF JobLetters, Shape, TypeOK, rowVars, sweepVars, factVars, counters, Job
  <1>6. AtWork'
    <2>1. target[Redrive] = None \/ target[Redrive] \in Event
      BY DEF Shape, TypeOK
    <2>2. UNCHANGED <<work, target, letter, batch>>
      BY DEF JobLetters
    <2>3. work[Redrive] # "idle" => target[Redrive] \in Event
      BY <2>1 DEF Shape, AtWork, Sweeper
    <2>4. \A p \in batch : p[1] \in Event /\ p[2] \in Letter
      BY DEF Shape, TypeOK
    <2>5. QED
      BY <1>4, <2>2, <2>3, <2>4 DEF Shape, AtWork
  <1>7. row[e] # "none"
    BY <1>1 DEF Shape, Untouched
  <1>8. \A f \in Event : Untouched(f)' /\ Numbered(f)'
    BY <1>1, <1>2, <1>3, <1>7, LetterNumbered DEF JobLetters, rowVars, sweepVars
  <1>9. \A f \in Event : WithinBudget(f)'
    BY DEF JobLetters, Shape, WithinBudget, rowVars, sweepVars
  <1>10. QED
    BY <1>5, <1>6, <1>8, <1>9 DEF Shape

\* A stalled job that is put back is still a job.
LEMMA PutBack ==
  ASSUME NEW R, NEW S, NEW T, 1 \in T, "waiting" \in R,
         NEW job \in [stage : R, made : S, stalls : T]
  PROVE  [job EXCEPT !.stage = "waiting", !.stalls = 1] \in [stage : R, made : S, stalls : T]
  OBVIOUS

\* A crash keeps the shape.
LEMMA CrashShape ==
  ASSUME Shape, Crash
  PROVE  Shape'
  <1>1. \A e \in Event, j \in Slot : jobs[e][j] \in Job
    BY DEF Shape, TypeOK, Job
  <1>2. ASSUME NEW e \in Event, NEW j \in Slot
        PROVE  /\ Stall(jobs[e][j]) \in Job
               /\ jobs[e][j].stage = "none" <=> Stall(jobs[e][j]).stage = "none"
    <2>1. jobs[e][j] \in Job
      BY <1>1
    <2>2. NoJob \in Job /\ [NoJob EXCEPT !.stage = "failed"] \in Job
      BY BoundsAssumption DEF Job, NoJob, Retained
    <2>3. [jobs[e][j] EXCEPT !.stage = "waiting", !.stalls = 1] \in Job
      <3>1. 1 \in 0..1 /\ "waiting" \in Owed \cup Retained \cup {"none", "lettered"}
        BY DEF Owed
      <3>2. QED
        BY <2>1, <3>1, PutBack, Zenon DEF Job
    <2>4. QED
      BY <2>1, <2>2, <2>3 DEF Stall, Job, NoJob
  <1>3. jobs' = [e \in Event |-> [j \in Slot |-> Stall(jobs[e][j])]]
    BY DEF Crash
  <1>4. /\ jobs' \in [Event -> [Slot -> Job]]
        /\ \A e \in Event, j \in Slot : jobs'[e][j].stage = "none" <=> jobs[e][j].stage = "none"
    BY <1>2, <1>3
  <1>5. /\ work' = [a \in Actor |-> "idle"] /\ target' = [a \in {Sweep, Redrive} |-> None]
        /\ letter' = 0 /\ todo' = {} /\ batch' = {} /\ seen' = [e \in Event |-> 0]
        /\ UNCHANGED <<enabled, row, tries, young, fresh, elders, stranded, letters, handled,
                        mistaken, redrives>>
        /\ up' = FALSE /\ faults' = faults + 1 /\ faults < MaxFaults
    BY DEF Crash, rowVars, Fault
  <1>6. unlettered' \subseteq Event
    BY DEF Crash, Shape, TypeOK
  <1>7. 0 \in Slot /\ 0 \in 0..(MostTries - 1)
    BY BoundsAssumption DEF Slot, MostTries
  <1>8. TypeOK'
    <2>1. seen' \in [Event -> 0..(MostTries - 1)] /\ tries' \in [Event -> 0..MostTries]
      BY <1>5, <1>7 DEF Shape, TypeOK
    <2>2. work' \in [Actor -> Stages] /\ target' \in [{Sweep, Redrive} -> Event \cup {None}]
      BY <1>5 DEF Stages
    <2>3. faults' \in 0..MaxFaults
      BY <1>5, BoundsAssumption DEF Shape, TypeOK
    <2>4. QED
      BY <1>4, <1>5, <1>6, <1>7, <2>1, <2>2, <2>3 DEF Shape, TypeOK, Job
  <1>9. AtWork'
    BY <1>5 DEF AtWork, Sweeper, Actor
  <1>10. \A e \in Event : Untouched(e)'
    BY <1>4, <1>5, ActorsAssumption DEF Shape, Untouched, Sweeper, Lettered, Actor
  <1>11. \A e \in Event : WithinBudget(e)'
    BY <1>5, ActorsAssumption DEF Shape, WithinBudget, Actor
  <1>12. \A e \in Event : Numbered(e)'
    BY <1>4, <1>5 DEF Shape, Numbered, Lettered, Letter, Slot
  <1>13. QED
    BY <1>8, <1>9, <1>10, <1>11, <1>12 DEF Shape

\* Every step keeps the shape.
LEMMA ShapeKept ==
  ASSUME Shape, Next
  PROVE  Shape'
  <1>1. ASSUME NEW a \in Actor, Enqueue(a) PROVE Shape'
    BY <1>1, AddSucceedsShape, AddFailsShape, InlineDeliversShape, InlineFailsShape DEF Enqueue
  <1>2. ASSUME NEW e \in Event,
               Receive(e) \/ LiveStep(e) \/ LiveWriteFails(e) \/ Matures(e) \/ Ages(e)
        PROVE  Shape'
    BY <1>1, <1>2, ReceiveShape, LiveClosesShape, LiveCountsShape, LiveTouchesShape,
       LiveLettersShape, LiveWriteFailsShape, MaturesShape, AgesShape
     DEF LiveStep, Actor
  <1>3. ASSUME SweepReads \/ SweepStep \/ SweepWriteFails PROVE Shape'
    BY <1>1, <1>3, SweepReadsShape, SweepClosesShape, SweepRetiresShape, SweepCountsShape,
       SweepLooksShape, SweepLettersShape, SweepMarksShape, SweepWriteFailsShape,
       SweepVisitsShape, SweepSkipsShape
     DEF SweepStep, Actor
  <1>4. ASSUME RedriveReads \/ RedriveStep \/ RedriveWriteFails PROVE Shape'
    BY <1>1, <1>4, RedriveReadsShape, RedriveClosesShape, RedriveRetiresShape, RedriveKeepsShape,
       RedriveWriteFailsShape, RedriveVisitsShape
     DEF RedriveStep, Actor
  <1>5. ASSUME NEW e \in Event, NEW j \in Slot,
               JobStep(e, j) \/ JobWriteFails(e, j) \/ JobExpires(e, j)
        PROVE  Shape'
    BY <1>5, JobStepsShape, JobLettersShape, JobExpiresShape DEF JobStep
  <1>6. QED
    BY <1>2, <1>3, <1>4, <1>5, StrandsShape, LeavesShape, CrashShape, BootShape, DisableShape,
       EnableShape
     DEF Next

-----------------------------------------------------------------------------
(* Who has an event.                                                       *)

heldVars == <<letters, jobs, handled, unlettered, mistaken>>

\* What Held looks at is written by these actions only.
LEMMA HeldFootprint ==
  ASSUME Next
  PROVE  \/ UNCHANGED heldVars
         \/ \E a \in Actor : AddSucceeds(a) \/ InlineDelivers(a)
         \/ \E e \in Event : LiveLetters(e)
         \/ SweepRetires \/ SweepLetters \/ RedriveRetires \/ Crash
         \/ \E e \in Event, j \in Slot : JobStep(e, j) \/ JobWriteFails(e, j) \/ JobExpires(e, j)
  BY DEF Next, LiveStep, SweepStep, RedriveStep, Enqueue, Actor, heldVars,
     Receive, AddFails, InlineFails, LiveCloses, LiveCounts, LiveTouches, LiveWriteFails, SweepReads, SweepVisits,
     SweepSkips, SweepCloses, SweepCounts, SweepLooks, SweepMarks, SweepWriteFails, RedriveReads, RedriveVisits,
     RedriveCloses, RedriveKeeps, RedriveWriteFails, Boot, Matures, Ages,
         Strands, Leaves, Disable, Enable, rowVars, factVars

\* Only the job that is written changes.
LEMMA OneJobChanges ==
  ASSUME Shape, NEW e \in Event, NEW j \in Slot, NEW job, jobs' = [jobs EXCEPT ![e][j] = job]
  PROVE  \A f \in Event, i \in Slot :
           jobs'[f][i] = IF f = e /\ i = j THEN job ELSE jobs[f][i]
  <1>1. jobs \in [Event -> [Slot -> Job]]
    BY DEF Shape, TypeOK, Job
  <1>2. QED
    BY <1>1

\* A new letter of e is younger than every other, and no letter is closed.
LEMMA LetterHolds ==
  ASSUME Shape, NEW e \in Event, SaveLetter(e)
  PROVE  /\ \A f \in Event, l \in Letter : letters[f][l] = "open" => letters'[f][l] = "open"
         /\ \A f \in Event, l \in Letter :
              Lettered(f, l)' /\ ~Lettered(f, l) => f = e /\ letters'[f][l] = "open"
         /\ \A i \in Slot : i = 0 \/ Lettered(e, i) =>
              \E k \in Letter : k > i /\ letters'[e][k] = "open"
  <1>1. PICK k \in Letter :
              /\ ~Lettered(e, k) /\ \A i \in 1..(k - 1) : Lettered(e, i)
              /\ \A f \in Event, l \in Letter :
                   letters'[f][l] = IF f = e /\ l = k THEN "open" ELSE letters[f][l]
    BY LetterSaved
  <1>2. ASSUME NEW i \in Slot, i = 0 \/ Lettered(e, i)
        PROVE  k > i
    <2>1. k \in Nat /\ k >= 1 /\ i \in Nat
      BY BoundsAssumption DEF Letter, Slot
    <2>2. CASE i = 0
      BY <2>1, <2>2
    <2>3. CASE i # 0
      <3>1. i \in Letter /\ Lettered(e, i)
        BY <1>2, <2>3, BoundsAssumption DEF Letter, Slot
      <3>2. k \in 1..i => Lettered(e, k)
        BY <3>1 DEF Shape, Numbered
      <3>3. QED
        BY <1>1, <2>1, <3>2
    <2>4. QED
      BY <2>2, <2>3
  <1>3. QED
    BY <1>1, <1>2 DEF Lettered

\* add() makes a job of an id BullMQ does not know, and nothing else.
LEMMA JobAdded ==
  ASSUME Shape, NEW a \in Actor, AddSucceeds(a)
  PROVE  \A f \in Event, i \in Slot :
           jobs'[f][i].stage = IF f = On(a) /\ i = JobOf(a) /\ jobs[f][i].stage = "none"
                               THEN "waiting" ELSE jobs[f][i].stage
  <1> DEFINE old == jobs[On(a)][JobOf(a)]
             job == IF old.stage = "none" THEN [NoJob EXCEPT !.stage = "waiting"] ELSE old
  <1>1. On(a) \in Event /\ JobOf(a) \in Slot
    BY ActorIsAt DEF AddSucceeds, Move
  <1>2. jobs' = [jobs EXCEPT ![On(a)][JobOf(a)] = job]
    BY <1>1 DEF AddSucceeds, Shape, TypeOK
  <1>3. job.stage = IF old.stage = "none" THEN "waiting" ELSE old.stage
    BY DEF NoJob
  <1> HIDE DEF job
  <1>4. \A f \in Event, i \in Slot :
          jobs'[f][i] = IF f = On(a) /\ i = JobOf(a) THEN job ELSE jobs[f][i]
    <2>1. jobs \in [Event -> [Slot -> Job]]
      BY DEF Shape, TypeOK, Job
    <2>2. QED
      BY <1>1, <1>2, <2>1
  <1>5. QED
    BY <1>3, <1>4

\* Somebody goes on having an event, and for a reason younger than the letter
\* in question: the one argument of the module that needs letters to be
\* numbered.
LEMMA HeldKept ==
  ASSUME Shape, Passed(Redrive), Next,
         NEW e \in Event, NEW i \in Slot, i = 0 \/ Lettered(e, i), Held(e, i)
  PROVE  Held(e, i)'
  <1>1. CASE UNCHANGED heldVars
    BY <1>1 DEF Held, heldVars
  <1>2. ASSUME NEW a \in Actor, AddSucceeds(a) PROVE Held(e, i)'
    <2>1. \A j \in Slot : jobs[e][j].stage \in Owed => jobs'[e][j].stage \in Owed
      BY <1>2, JobAdded DEF Owed
    <2>2. QED
      BY <1>2, <2>1 DEF AddSucceeds, Held, factVars
  <1>3. ASSUME NEW a \in Actor, InlineDelivers(a) PROVE Held(e, i)'
    BY <1>3 DEF InlineDelivers, Held
  <1>4. ASSUME NEW f \in Event, LiveLetters(f) PROVE Held(e, i)'
    <2>1. SaveLetter(f) /\ UNCHANGED <<jobs, handled, unlettered, mistaken>>
      BY <1>4 DEF LiveLetters, factVars
    <2>2. QED
      BY <2>1, LetterHolds DEF Held
  <1>5. CASE SweepLetters
    <2>1. SaveLetter(target[Sweep]) /\ UNCHANGED <<jobs, handled, unlettered, mistaken>>
      BY <1>5 DEF SweepLetters, factVars
    <2>2. target[Sweep] \in Event
      BY <1>5, ActorIsAt DEF SweepLetters, Move, Actor
    <2>3. QED
      BY <2>1, <2>2, LetterHolds DEF Held
  <1>6. CASE SweepRetires
    <2> DEFINE f == target[Sweep]
    <2>1. f \in Event
      BY <1>6, ActorIsAt DEF SweepRetires, Move, Actor
    <2>2. /\ letters' = [letters EXCEPT ![f] = [l \in Letter |-> IF l \in Open(f) THEN "redriven" ELSE letters[f][l]]]
          /\ mistaken' = IF Open(f) # {} /\ f \notin handled /\ ~\E j \in Slot : jobs[f][j].stage \in Owed
                         THEN mistaken \cup {f} ELSE mistaken
          /\ UNCHANGED <<jobs, handled, unlettered>>
      BY <1>6, <2>1 DEF SweepRetires, Retire, Shape, TypeOK
    <2>3. CASE e = f
      BY <2>2, <2>3 DEF Held, Open
    <2>4. CASE e # f
      BY <2>2, <2>4 DEF Held
    <2>5. QED
      BY <2>3, <2>4
  <1>7. CASE RedriveRetires
    <2> DEFINE f == target[Redrive]
    <2>1. f \in Event /\ Redrive \in Actor /\ letter \in Letter /\ work[Redrive] = "retiring"
      BY <1>7, ActorIsAt DEF RedriveRetires, Move, Actor, Shape, AtWork
    <2>2. Held(f, letter)
      BY <2>1, ActorIsAt DEF Passed
    <2>3. /\ \A g \in Event, l \in Letter :
               letters[g][l] = "open" /\ ~(g = f /\ l = letter) => letters'[g][l] = "open"
          /\ UNCHANGED <<jobs, handled, unlettered, mistaken>>
      BY <1>7, <2>1 DEF RedriveRetires, Retire, Shape, TypeOK, factVars
    <2>4. letter \in Nat /\ i \in Nat /\ Letter \subseteq Nat
      BY <2>1, BoundsAssumption DEF Letter, Slot
    <2>5. CASE e = f /\ i < letter
      <3>1. ASSUME NEW l \in Letter, l > letter PROVE l > i /\ l # letter
        BY <2>4, <2>5, <3>1
      <3>2. QED
        BY <2>2, <2>3, <2>5, <3>1 DEF Held
    <2>6. CASE e # f \/ ~(i < letter)
      <3>1. ASSUME NEW l \in Letter, l > i PROVE ~(e = f /\ l = letter)
        BY <2>4, <2>6, <3>1
      <3>2. QED
        BY <2>3, <3>1 DEF Held
    <2>7. QED
      BY <2>5, <2>6
  <1>8. CASE Crash
    <2>1. ASSUME NEW j \in Slot, jobs[e][j].stage \in Owed PROVE Held(e, i)'
      <3>1. jobs[e][j] \in Job
        BY DEF Shape, TypeOK, Job
      <3>2. jobs[e][j].stalls \in {0, 1}
        BY <3>1 DEF Job
      <3>3. jobs'[e][j] = Stall(jobs[e][j])
        BY <1>8 DEF Crash
      <3>4. CASE jobs[e][j].stage = "waiting"
        BY <3>3, <3>4 DEF Stall, Held, Owed
      <3>5. CASE jobs[e][j].stage \in {"active", "lettering"} /\ jobs[e][j].stalls = 1
        BY <1>8, <3>5 DEF Crash, Held
      <3>6. CASE jobs[e][j].stage \in {"active", "lettering"} /\ jobs[e][j].stalls = 0
        <4>1. Stall(jobs[e][j]).stage = "waiting"
          BY <3>1, <3>6 DEF Stall, Job
        <4>2. QED
          BY <3>3, <4>1 DEF Held, Owed
      <3>7. QED
        BY <2>1, <3>2, <3>4, <3>5, <3>6 DEF Owed
    <2>2. UNCHANGED <<letters, handled, mistaken>> /\ unlettered \subseteq unlettered'
      BY <1>8 DEF Crash
    <2>3. QED
      BY <2>1, <2>2 DEF Held
  <1>9. ASSUME NEW f \in Event, NEW j \in Slot,
               JobStep(f, j) \/ JobWriteFails(f, j) \/ JobExpires(f, j)
        PROVE  Held(e, i)'
    <2>1. CASE JobStarts(f, j)
      <3>1. jobs'[f][j].stage = "active" /\ \A g \in Event, k \in Slot : g # f \/ k # j => jobs'[g][k] = jobs[g][k]
        <4> DEFINE job == [jobs[f][j] EXCEPT !.stage = "active"]
        <4>1. jobs' = [jobs EXCEPT ![f][j] = job]
          BY <2>1 DEF JobStarts, Become
        <4>2. job.stage = "active"
          BY DEF Shape, TypeOK
        <4> HIDE DEF job
        <4>3. QED
          <5>1. jobs \in [Event -> [Slot -> Job]]
            BY DEF Shape, TypeOK, Job
          <5>2. QED
            BY <4>1, <4>2, <5>1
      <3>2. QED
        BY <2>1, <3>1 DEF JobStarts, Held, factVars, Owed
    <2>2. CASE JobDelivers(f, j)
      <3>1. \A g \in Event, k \in Slot : g # f \/ k # j => jobs'[g][k] = jobs[g][k]
        BY <2>2, OneJobChanges DEF JobDelivers, Become
      <3>2. QED
        BY <2>2, <3>1 DEF JobDelivers, Held
    <2>3. CASE JobFails(f, j)
      <3>1. jobs'[f][j].stage \in Owed /\ \A g \in Event, k \in Slot : g # f \/ k # j => jobs'[g][k] = jobs[g][k]
        <4> DEFINE made == jobs[f][j].made + 1
                   job == IF made < MaxAttempts
                          THEN [jobs[f][j] EXCEPT !.stage = "waiting", !.made = made]
                          ELSE [jobs[f][j] EXCEPT !.stage = "lettering"]
        <4>1. jobs' = [jobs EXCEPT ![f][j] = job]
          BY <2>3 DEF JobFails, Become
        <4>2. job.stage \in Owed
          BY DEF Shape, TypeOK, Owed
        <4> HIDE DEF job
        <4>3. QED
          <5>1. jobs \in [Event -> [Slot -> Job]]
            BY DEF Shape, TypeOK, Job
          <5>2. QED
            BY <4>1, <4>2, <5>1
      <3>2. QED
        BY <2>3, <3>1 DEF JobFails, Held, factVars
    <2>4. CASE JobLetters(f, j)
      <3>1. \A g \in Event, k \in Slot : g # f \/ k # j => jobs'[g][k] = jobs[g][k]
        BY <2>4, OneJobChanges DEF JobLetters, Become
      <3>2. SaveLetter(f) /\ UNCHANGED <<handled, unlettered, mistaken>>
        BY <2>4 DEF JobLetters, factVars
      <3>3. CASE e = f
        <4>1. \E l \in Letter : l > i /\ letters'[e][l] = "open"
          BY <3>2, <3>3, LetterHolds
        <4>2. QED
          BY <4>1 DEF Held
      <3>4. CASE e # f
        <4>1. \A l \in Letter : letters[e][l] = "open" => letters'[e][l] = "open"
          BY <3>2, LetterHolds
        <4>2. QED
          BY <3>1, <3>2, <3>4, <4>1 DEF Held
      <3>5. QED
        BY <3>3, <3>4
    <2>5. CASE JobEnds(f, j) \/ JobExpires(f, j)
      <3>1. /\ jobs[f][j].stage \notin Owed
            /\ \A g \in Event, k \in Slot : g # f \/ k # j => jobs'[g][k] = jobs[g][k]
        BY <2>5, OneJobChanges DEF JobEnds, JobExpires, Become, Owed, Retained
      <3>2. UNCHANGED <<letters, handled, unlettered, mistaken>>
        BY <2>5 DEF JobEnds, JobExpires, factVars
      <3>3. QED
        BY <3>1, <3>2 DEF Held
    <2>6. CASE JobWriteFails(f, j)
      <3>1. \A g \in Event, k \in Slot : g # f \/ k # j => jobs'[g][k] = jobs[g][k]
        BY <2>6, OneJobChanges DEF JobWriteFails, Become
      <3>2. QED
        BY <2>6, <3>1 DEF JobWriteFails, Held
    <2>7. QED
      BY <1>9, <2>1, <2>2, <2>3, <2>4, <2>5, <2>6 DEF JobStep
  <1>10. QED
    BY <1>1, <1>2, <1>3, <1>4, <1>5, <1>6, <1>7, <1>8, <1>9, HeldFootprint

-----------------------------------------------------------------------------
(* Whoever counts an event as taken is right.                              *)

Through == {"queued", "delivered", "retiring", "retiringQueued"}

\* A job that ended was seen to: the plugin had the event, a letter was saved,
\* or nobody was left to save it, and that is recorded.
LEMMA EndedIsHeld ==
  ASSUME Shape, Answer, Next, NEW e \in Event, NEW j \in Slot,
         jobs'[e][j].stage \in {"lettered", "completed", "failed"}
  PROVE  Held(e, j)'
  <1> DEFINE Ended(s) == s \in {"lettered", "completed", "failed"}
  <1>1. Passed(Redrive) /\ Taken(e)
    BY DEF Answer, Actor
  <1>2. jobs[e][j].stage # "none" => j = 0 \/ Lettered(e, j)
    BY BoundsAssumption DEF Shape, Numbered, Letter, Slot
  <1>3. CASE Ended(jobs[e][j].stage)
    <2>1. Held(e, j)
      BY <1>1, <1>3 DEF Taken
    <2>2. QED
      BY <1>1, <1>2, <1>3, <2>1, HeldKept
  <1>4. CASE ~Ended(jobs[e][j].stage)
    <2>1. CASE UNCHANGED heldVars
      BY <1>4, <2>1 DEF heldVars
    <2>2. ASSUME NEW a \in Actor, AddSucceeds(a) PROVE FALSE
      BY <1>4, <2>2, JobAdded
    <2>3. ASSUME UNCHANGED jobs PROVE FALSE
      BY <1>4, <2>3
    <2>4. CASE Crash
      <3>1. jobs'[e][j] = Stall(jobs[e][j]) /\ jobs[e][j] \in Job
        BY <2>4 DEF Crash, Shape, TypeOK, Job
      <3>2. jobs[e][j].stage \in {"active", "lettering"} /\ jobs[e][j].stalls # 0
        <4>1. [jobs[e][j] EXCEPT !.stage = "waiting", !.stalls = 1].stage = "waiting"
          BY <3>1 DEF Job
        <4>2. QED
          BY <1>4, <3>1, <4>1 DEF Stall
      <3>3. jobs[e][j].stalls = 1
        BY <3>1, <3>2 DEF Job
      <3>4. QED
        BY <2>4, <3>2, <3>3 DEF Crash, Held
    <2>5. ASSUME NEW f \in Event, NEW i \in Slot,
                 JobStep(f, i) \/ JobWriteFails(f, i) \/ JobExpires(f, i)
          PROVE  Held(e, j)'
      <3>1. \E job : jobs' = [jobs EXCEPT ![f][i] = job]
        BY <2>5
         DEF JobStep, JobStarts, JobDelivers, JobFails, JobLetters, JobEnds, JobWriteFails,
             JobExpires, Become
      <3>2. e = f /\ i = j
        BY <1>4, <3>1, OneJobChanges
      <3>3. CASE JobStarts(f, i) \/ JobFails(f, i) \/ JobExpires(f, i)
        <4>1. jobs[f][i] \in Job
          BY DEF Shape, TypeOK, Job
        <4>2. /\ [jobs[f][i] EXCEPT !.stage = "active"].stage = "active"
              /\ [jobs[f][i] EXCEPT !.stage = "lettering"].stage = "lettering"
              /\ [jobs[f][i] EXCEPT !.stage = "waiting", !.made = jobs[f][i].made + 1].stage = "waiting"
              /\ NoJob.stage = "none"
          BY <4>1 DEF Job, NoJob
        <4>3. jobs'[f][i].stage \in {"active", "waiting", "lettering", "none"}
          <5>1. jobs \in [Event -> [Slot -> Job]]
            BY DEF Shape, TypeOK, Job
          <5>2. CASE JobStarts(f, i)
            <6>1. jobs' = [jobs EXCEPT ![f][i] = [jobs[f][i] EXCEPT !.stage = "active"]]
              BY <5>2 DEF JobStarts, Become
            <6>2. QED
              BY <4>2, <5>1, <6>1
          <5>3. CASE JobFails(f, i)
            <6> DEFINE made == jobs[f][i].made + 1
                       job == IF made < MaxAttempts
                              THEN [jobs[f][i] EXCEPT !.stage = "waiting", !.made = made]
                              ELSE [jobs[f][i] EXCEPT !.stage = "lettering"]
            <6>1. jobs' = [jobs EXCEPT ![f][i] = job]
              BY <5>3 DEF JobFails, Become
            <6>2. job.stage \in {"waiting", "lettering"}
              BY <4>1, <4>2
            <6> HIDE DEF job
            <6>3. QED
              BY <5>1, <6>1, <6>2
          <5>4. CASE JobExpires(f, i)
            <6>1. jobs' = [jobs EXCEPT ![f][i] = NoJob]
              BY <5>4 DEF JobExpires
            <6>2. QED
              BY <4>2, <5>1, <6>1
          <5>5. QED
            BY <3>3, <5>2, <5>3, <5>4
        <4>4. QED
          BY <3>2, <4>3
      <3>4. CASE JobDelivers(f, i)
        BY <3>2, <3>4 DEF JobDelivers, Held
      <3>5. CASE JobLetters(f, i)
        <4>1. jobs[f][i].stage = "lettering" /\ SaveLetter(f)
          BY <3>5 DEF JobLetters, Become
        <4>2. \E k \in Letter : k > j /\ letters'[e][k] = "open"
          BY <1>2, <3>2, <4>1, LetterHolds
        <4>3. QED
          BY <4>2 DEF Held
      <3>6. CASE JobEnds(f, i)
        BY <1>4, <3>2, <3>6 DEF JobEnds, Become
      <3>7. CASE JobWriteFails(f, i)
        BY <3>2, <3>7 DEF JobWriteFails, Held
      <3>8. QED
        BY <2>5, <3>3, <3>4, <3>5, <3>6, <3>7 DEF JobStep
    <2>6. QED
      BY <2>1, <2>2, <2>3, <2>4, <2>5, HeldFootprint
       DEF InlineDelivers, LiveLetters, SweepRetires, SweepLetters, RedriveRetires
  <1>5. QED
    BY <1>3, <1>4

\* An event whose delivery left a letter, open or closed, is held.
LEMMA LetteredIsHeld ==
  ASSUME Shape, Answer, Next, NEW e \in Event, NEW l \in Letter, Lettered(e, l)'
  PROVE  Held(e, 0)'
  <1>1. Passed(Redrive) /\ Taken(e) /\ 0 \in Slot
    BY BoundsAssumption DEF Answer, Actor, Slot
  <1>2. CASE Lettered(e, l)
    BY <1>1, <1>2, HeldKept DEF Taken
  <1>3. CASE ~Lettered(e, l)
    <2>1. l > 0
      BY BoundsAssumption DEF Letter
    <2>2. letters'[e][l] = "open"
      <3>1. ASSUME NEW f \in Event, SaveLetter(f) PROVE letters'[e][l] = "open"
        BY <1>3, <3>1, LetterHolds
      <3>2. CASE UNCHANGED letters
        BY <1>3, <3>2 DEF Lettered
      <3>3. CASE SweepRetires
        BY <1>3, <3>3 DEF SweepRetires, Retire, Open, Shape, TypeOK, Lettered
      <3>4. CASE RedriveRetires
        BY <1>3, <3>4 DEF RedriveRetires, Retire, Shape, TypeOK, AtWork, Move, Lettered
      <3>5. SweepLetters => target[Sweep] \in Event
        BY ActorIsAt DEF SweepLetters, Move, Actor
      <3>6. QED
        BY <3>1, <3>2, <3>3, <3>4, <3>5, HeldFootprint
         DEF heldVars, LiveLetters, SweepLetters, AddSucceeds, InlineDelivers, Crash, JobStep,
             JobStarts, JobDelivers, JobFails, JobLetters, JobEnds, JobWriteFails, JobExpires
    <2>3. QED
      BY <2>1, <2>2 DEF Held
  <1>4. QED
    BY <1>2, <1>3

\* Rows are written by these actions only.
LEMMA RowFootprint ==
  ASSUME Next
  PROVE  \/ UNCHANGED row
         \/ \E e \in Event : Receive(e) \/ LiveCloses(e)
         \/ SweepCloses \/ SweepMarks \/ RedriveCloses
  BY DEF Next, LiveStep, SweepStep, RedriveStep, Enqueue, rowVars, AddSucceeds, AddFails,
     InlineDelivers, InlineFails, LiveCounts, LiveTouches, LiveLetters, LiveWriteFails, SweepReads, SweepVisits,
     SweepSkips, SweepRetires, SweepCounts, SweepLooks, SweepLetters, SweepWriteFails, RedriveReads,
     RedriveVisits, RedriveRetires, RedriveKeeps, RedriveWriteFails, JobStep, JobStarts,
     JobDelivers, JobFails, JobLetters, JobEnds, JobWriteFails, JobExpires, Crash, Boot, Matures, Ages,
         Strands, Leaves, Disable, Enable

\* A row is closed over an event that is held.
LEMMA ClosedIsHeld ==
  ASSUME Shape, Answer, Prepared, Next, NEW e \in Event, row'[e] \in {"dispatched", "failed"}
  PROVE  Held(e, 0)'
  <1>1. Passed(Redrive) /\ Taken(e) /\ 0 \in Slot
    BY BoundsAssumption DEF Answer, Actor, Slot
  <1>2. SUFFICES Held(e, 0)
    BY <1>1, <1>2, HeldKept
  <1>3. CASE row[e] \in {"dispatched", "failed"}
    BY <1>1, <1>3 DEF Taken
  <1>4. CASE row[e] \notin {"dispatched", "failed"}
    <2>1. CASE UNCHANGED row
      BY <1>4, <2>1
    <2>2. ASSUME NEW f \in Event, Receive(f) PROVE Held(e, 0)
      BY <1>4, <2>2 DEF Receive, Shape, TypeOK
    <2>3. ASSUME NEW f \in Event, LiveCloses(f) PROVE Held(e, 0)
      <3>1. e = f /\ work[f] \in {"queued", "delivered"}
        BY <1>4, <2>3 DEF LiveCloses, Close, Move, Shape, TypeOK
      <3>2. Passed(f) /\ On(f) = f /\ JobOf(f) = 0
        BY ActorIsAt, <3>1 DEF Answer, Actor
      <3>3. QED
        BY <3>1, <3>2 DEF Passed
    <2>4. CASE SweepCloses
      <3>1. e = target[Sweep] /\ work[Sweep] \in {"queued", "delivered"}
        BY <1>4, <2>4 DEF SweepCloses, Close, Move, Shape, TypeOK
      <3>2. Passed(Sweep) /\ On(Sweep) = e /\ JobOf(Sweep) = 0
        BY ActorIsAt, <3>1 DEF Answer, Actor
      <3>3. QED
        BY <3>1, <3>2 DEF Passed
    <2>5. CASE SweepMarks
      <3>1. e = target[Sweep] /\ work[Sweep] = "marking"
        BY <1>4, <2>5 DEF SweepMarks, Close, Move, Shape, TypeOK
      <3>2. QED
        BY <1>1, <3>1 DEF Prepared, Taken
    <2>6. CASE RedriveCloses
      <3>1. e = target[Redrive] /\ work[Redrive] \in {"queued", "delivered"}
        BY <1>4, <2>6 DEF RedriveCloses, Close, Move, Shape, TypeOK
      <3>2. Held(e, letter) /\ letter \in Letter
        BY ActorIsAt, <1>1, <3>1 DEF Actor, Passed, Shape, AtWork
      <3>3. \A l \in Letter : l > letter => l > 0
        BY <3>2, BoundsAssumption DEF Letter
      <3>4. QED
        BY <3>2, <3>3 DEF Held
    <2>7. QED
      BY <2>1, <2>2, <2>3, <2>4, <2>5, <2>6, RowFootprint
  <1>5. QED
    BY <1>3, <1>4

\* An actor gets past its enqueue() only by it.
LEMMA ThroughFootprint ==
  ASSUME Shape, Next, NEW a \in Actor, work'[a] \in Through
  PROVE  \/ AddSucceeds(a) \/ InlineDelivers(a)
         \/ work[a] \in Through /\ On(a)' = On(a) /\ JobOf(a)' = JobOf(a)
  <1>1. CASE UNCHANGED <<work, target, letter>>
    BY <1>1 DEF On, JobOf
  <1>2. ASSUME NEW b \in Actor, AddSucceeds(b) \/ AddFails(b) \/ InlineDelivers(b) \/ InlineFails(b)
        PROVE  \/ AddSucceeds(a) \/ InlineDelivers(a)
               \/ work[a] \in Through /\ On(a)' = On(a) /\ JobOf(a)' = JobOf(a)
    BY <1>2 DEF AddSucceeds, AddFails, InlineDelivers, InlineFails, Move, Shape, TypeOK, Through,
                On, JobOf
  <1>3. ASSUME NEW e \in Event,
               Receive(e) \/ LiveCloses(e) \/ LiveCounts(e) \/ LiveTouches(e) \/ LiveLetters(e)
                 \/ LiveWriteFails(e)
        PROVE  work[a] \in Through /\ On(a)' = On(a) /\ JobOf(a)' = JobOf(a)
    BY <1>3
     DEF Receive, LiveCloses, LiveCounts, LiveTouches, LiveLetters, LiveWriteFails, Move, Shape,
         TypeOK, Through, On, JobOf
  <1>4. ASSUME NEW e \in Event, SweepVisits(e)
        PROVE  work[a] \in Through /\ On(a)' = On(a) /\ JobOf(a)' = JobOf(a)
    BY <1>4, ActorsAssumption DEF SweepVisits, Move, Shape, TypeOK, Through, On, JobOf, Actor
  <1>5. ASSUME SweepCloses \/ SweepLooks \/ SweepLetters
        PROVE  work[a] \in Through /\ On(a)' = On(a) /\ JobOf(a)' = JobOf(a)
    BY <1>5 DEF SweepCloses, SweepLooks, SweepLetters, Move, Shape, TypeOK, Through, On, JobOf
  <1>6. ASSUME SweepRetires \/ SweepCounts \/ SweepMarks \/ SweepWriteFails
        PROVE  work[a] \in Through /\ On(a)' = On(a) /\ JobOf(a)' = JobOf(a)
    BY <1>6, ActorsAssumption
     DEF SweepRetires, SweepCounts, SweepMarks, SweepWriteFails, SweepRests, Move, Shape, TypeOK,
         Through, On, JobOf, Actor
  <1>7. ASSUME NEW e \in Event, NEW l \in Letter, RedriveVisits(e, l)
        PROVE  work[a] \in Through /\ On(a)' = On(a) /\ JobOf(a)' = JobOf(a)
    BY <1>7, ActorsAssumption DEF RedriveVisits, Move, Shape, TypeOK, Through, On, JobOf, Actor
  <1>8. ASSUME RedriveCloses
        PROVE  work[a] \in Through /\ On(a)' = On(a) /\ JobOf(a)' = JobOf(a)
    BY <1>8 DEF RedriveCloses, Move, Shape, TypeOK, Through, On, JobOf
  <1>9. ASSUME RedriveRetires \/ RedriveKeeps \/ RedriveWriteFails
        PROVE  work[a] \in Through /\ On(a)' = On(a) /\ JobOf(a)' = JobOf(a)
    BY <1>9, ActorsAssumption
     DEF RedriveRetires, RedriveKeeps, RedriveWriteFails, RedriveRests, Move, Shape, TypeOK,
         Through, On, JobOf, Actor
  <1>10. CASE Crash
    BY <1>10 DEF Crash, Through
  <1>11. QED
    BY <1>1, <1>2, <1>3, <1>4, <1>5, <1>6, <1>7, <1>8, <1>9, <1>10
     DEF Next, LiveStep, SweepStep, RedriveStep, Enqueue, Actor, SweepReads, SweepSkips,
         RedriveReads, JobStep, JobStarts, JobDelivers, JobFails, JobLetters, JobEnds,
         JobWriteFails, JobExpires, Boot, Matures, Ages,
         Strands, Leaves, Disable, Enable

\* An actor whose enqueue() succeeded is at an event that is held.
LEMMA PassedKept ==
  ASSUME Shape, Answer, Next, NEW a \in Actor
  PROVE  Passed(a)'
  <1>1. Passed(Redrive) /\ Passed(a)
    BY DEF Answer, Actor
  <1>2. CASE AddSucceeds(a)
    <2> DEFINE e == On(a)
               j == JobOf(a)
    <2>1. e \in Event /\ j \in Slot /\ (j = 0 \/ Lettered(e, j))
      BY <1>2, ActorIsAt DEF AddSucceeds, Move
    <2>2. UNCHANGED <<target, letter>> /\ e' = e /\ j' = j
      BY <1>2 DEF AddSucceeds, On, JobOf
    <2>3. jobs[e][j].stage \in Owed \cup Retained \cup {"none", "lettered"}
      BY <2>1 DEF Shape, TypeOK
    <2>4. CASE jobs[e][j].stage \in Owed \cup {"none"}
      <3>1. jobs'[e][j].stage \in Owed
        BY <1>2, <2>1, <2>4, JobAdded DEF Owed
      <3>2. Held(e, j)'
        BY <2>1, <2>2, <3>1 DEF Held
      <3>3. QED
        BY <2>2, <3>2 DEF Passed
    <2>5. CASE jobs[e][j].stage \in {"lettered", "completed", "failed"}
      <3>1. Held(e, j)
        BY <2>1, <2>5 DEF Answer, Taken
      <3>2. Held(e, j)'
        BY <1>1, <2>1, <2>2, <3>1, HeldKept
      <3>3. QED
        BY <2>2, <3>2 DEF Passed
    <2>6. QED
      BY <2>3, <2>4, <2>5 DEF Retained
  <1>3. CASE InlineDelivers(a)
    BY <1>3 DEF InlineDelivers, Passed, Held, On, JobOf
  <1>4. CASE work[a] \in Through /\ On(a)' = On(a) /\ JobOf(a)' = JobOf(a)
    <2> DEFINE e == On(a)
               j == JobOf(a)
    <2>1. e \in Event /\ j \in Slot /\ (j = 0 \/ Lettered(e, j))
      BY <1>4, ActorIsAt DEF Through
    <2>2. Held(e, j)
      BY <1>1, <1>4 DEF Passed, Through
    <2>3. Held(e, j)'
      BY <1>1, <1>4, <2>1, <2>2, HeldKept
    <2>4. QED
      BY <1>4, <2>3 DEF Passed
  <1>5. CASE work'[a] \notin Through
    BY <1>5 DEF Passed, Through
  <1>6. QED
    BY <1>2, <1>3, <1>4, <1>5, ThroughFootprint

-----------------------------------------------------------------------------
(* Rows and letters.                                                       *)

Closed(e) == row[e] \in {"dispatched", "failed"}

\* A closed row stays closed.
LEMMA ClosedKept ==
  ASSUME Shape, Next, NEW e \in Event, Closed(e)
  PROVE  Closed(e)'
  <1>1. SweepCloses \/ SweepMarks => target[Sweep] \in Event
    BY ActorIsAt DEF SweepCloses, SweepMarks, Move, Actor
  <1>2. QED
    BY <1>1, RowFootprint
     DEF Closed, Shape, TypeOK, Receive, LiveCloses, SweepCloses, SweepMarks, RedriveCloses, Close

\* Letters are written by these actions only.
LEMMA LetterFootprint ==
  ASSUME Shape, Next
  PROVE  \/ UNCHANGED letters
         \/ \E e \in Event : SaveLetter(e)
         \/ SweepRetires \/ RedriveRetires
  <1>1. SweepLetters => target[Sweep] \in Event /\ SaveLetter(target[Sweep])
    BY ActorIsAt DEF SweepLetters, Move, Actor
  <1>2. QED
    BY <1>1, HeldFootprint
     DEF heldVars, AddSucceeds, InlineDelivers, LiveLetters, Crash, JobStep, JobStarts,
         JobDelivers, JobFails, JobLetters, JobEnds, JobWriteFails, JobExpires

\* Letters are closed, not removed.
LEMMA LetteredKept ==
  ASSUME Shape, Next, NEW e \in Event, NEW l \in Letter, Lettered(e, l)
  PROVE  Lettered(e, l)'
  <1>1. ASSUME NEW f \in Event, SaveLetter(f) PROVE Lettered(e, l)'
    BY <1>1, LetterSaved DEF Lettered
  <1>2. CASE SweepRetires
    BY <1>2 DEF SweepRetires, Retire, Lettered, Shape, TypeOK
  <1>3. CASE RedriveRetires
    BY <1>3 DEF RedriveRetires, Retire, Lettered, Shape, TypeOK
  <1>4. CASE UNCHANGED letters
    BY <1>4 DEF Lettered
  <1>5. QED
    BY <1>1, <1>2, <1>3, <1>4, LetterFootprint

\* A visit gets to its last writes by these actions only.
LEMMA LateFootprint ==
  ASSUME Shape, Next, NEW a \in Sweeper, work'[a] \in {"retiring", "retiringQueued", "marking"}
  PROVE  /\ a \in Actor /\ target'[a] = target[a] /\ work[a] # "idle"
         /\ \/ work'[a] = work[a]
            \/ a = Sweep /\ (SweepCloses \/ SweepLooks \/ SweepLetters)
            \/ a = Redrive /\ RedriveCloses
  <1> DEFINE Same == target'[a] = target[a] /\ work'[a] = work[a]
  <1>1. a \in Actor
    BY DEF Sweeper, Actor
  <1>2. CASE UNCHANGED <<work, target>>
    BY <1>1, <1>2
  <1>3. ASSUME NEW b \in Actor, AddSucceeds(b) \/ AddFails(b) \/ InlineDelivers(b) \/ InlineFails(b)
        PROVE  Same
    BY <1>1, <1>3 DEF AddSucceeds, AddFails, InlineDelivers, InlineFails, Move, Shape, TypeOK
  <1>4. ASSUME NEW e \in Event,
               Receive(e) \/ LiveCloses(e) \/ LiveCounts(e) \/ LiveTouches(e) \/ LiveLetters(e)
                 \/ LiveWriteFails(e)
        PROVE  Same
    BY <1>1, <1>4
     DEF Receive, LiveCloses, LiveCounts, LiveTouches, LiveLetters, LiveWriteFails, Move, Shape,
         TypeOK
  <1>5. ASSUME NEW e \in Event, SweepVisits(e)
        PROVE  Same
    BY <1>1, <1>5, ActorsAssumption DEF SweepVisits, Move, Shape, TypeOK, Actor, Sweeper
  <1>6. CASE SweepCloses \/ SweepLooks \/ SweepLetters
    BY <1>1, <1>6, ActorsAssumption
     DEF SweepCloses, SweepLooks, SweepLetters, Move, Shape, TypeOK, Actor, Sweeper
  <1>7. ASSUME SweepRetires \/ SweepCounts \/ SweepMarks \/ SweepWriteFails
        PROVE  Same
    BY <1>1, <1>7, ActorsAssumption
     DEF SweepRetires, SweepCounts, SweepMarks, SweepWriteFails, SweepRests, Move, Shape, TypeOK,
         Actor, Sweeper
  <1>8. ASSUME NEW e \in Event, NEW l \in Letter, RedriveVisits(e, l)
        PROVE  Same
    BY <1>1, <1>8, ActorsAssumption DEF RedriveVisits, Move, Shape, TypeOK, Actor, Sweeper
  <1>9. CASE RedriveCloses
    BY <1>1, <1>9, ActorsAssumption DEF RedriveCloses, Move, Shape, TypeOK, Actor, Sweeper
  <1>10. ASSUME RedriveRetires \/ RedriveKeeps \/ RedriveWriteFails
        PROVE  Same
    BY <1>1, <1>10, ActorsAssumption
     DEF RedriveRetires, RedriveKeeps, RedriveWriteFails, RedriveRests, Move, Shape, TypeOK,
         Actor, Sweeper
  <1>11. Crash => FALSE
    BY <1>1 DEF Crash
  <1>12. Same => work[a] # "idle"
    OBVIOUS
  <1>13. QED
    BY <1>1, <1>2, <1>3, <1>4, <1>5, <1>6, <1>7, <1>8, <1>9, <1>10, <1>11, <1>12
     DEF Next, LiveStep, SweepStep, RedriveStep, Enqueue, Actor, SweepReads, SweepSkips,
         RedriveReads, JobStep, JobStarts, JobDelivers, JobFails, JobLetters, JobEnds,
         JobWriteFails, JobExpires, Boot, Matures, Ages,
         Strands, Leaves, Disable, Enable

\* What the last writes of a visit rely on lasts until they are made.
LEMMA PreparedKept ==
  ASSUME Shape, Prepared, Next
  PROVE  Prepared'
  <1>1. ASSUME NEW a \in Sweeper, work'[a] \in {"retiring", "retiringQueued"}
        PROVE  row'[target'[a]] # "pending"
    <2> DEFINE e == target[a]
    <2>1. a \in Actor /\ target'[a] = e /\ work[a] # "idle"
      BY <1>1, LateFootprint
    <2>2. e \in Event /\ row[e] # "none"
      BY <2>1, ActorIsAt, ActorsAssumption DEF Sweeper
    <2>3. CASE work'[a] = work[a]
      <3>1. Closed(e)
        BY <1>1, <2>2, <2>3 DEF Prepared, Closed, Shape, TypeOK
      <3>2. QED
        BY <2>1, <2>2, <3>1, ClosedKept DEF Closed
    <2>4. CASE a = Sweep /\ SweepCloses
      BY <2>1, <2>2, <2>4 DEF SweepCloses, Close, Shape, TypeOK
    <2>5. CASE a = Redrive /\ RedriveCloses
      BY <2>1, <2>2, <2>5 DEF RedriveCloses, Close, Shape, TypeOK
    <2>6. ASSUME a = Sweep, SweepLooks \/ SweepLetters PROVE FALSE
      BY <1>1, <2>1, <2>6 DEF SweepLooks, SweepLetters, Move, Shape, TypeOK
    <2>7. QED
      BY <1>1, <2>3, <2>4, <2>5, <2>6, LateFootprint
  <1>2. ASSUME work'[Sweep] = "marking"
        PROVE  \E l \in Letter : Lettered(target[Sweep], l)'
    <2> DEFINE e == target[Sweep]
    <2>1. Sweep \in Actor /\ target'[Sweep] = e /\ work[Sweep] # "idle"
      BY <1>2, LateFootprint DEF Sweeper
    <2>2. e \in Event /\ UNCHANGED e
      BY <2>1, ActorIsAt
    <2>3. CASE work[Sweep] = "marking"
      BY <2>2, <2>3, LetteredKept DEF Prepared, Lettered
    <2>4. CASE SweepLooks
      BY <1>2, <2>1, <2>2, <2>4 DEF SweepLooks, Lettered, Shape, TypeOK
    <2>5. CASE SweepLetters
      <3>1. \E l \in Letter : letters'[e][l] = "open"
        BY <2>2, <2>5, LetterHolds, BoundsAssumption DEF SweepLetters, Slot
      <3>2. QED
        BY <2>1, <3>1 DEF Lettered
    <2>6. CASE SweepCloses
      BY <1>2, <2>1, <2>6 DEF SweepCloses, Move, Shape, TypeOK
    <2>7. QED
      BY <1>2, <2>3, <2>4, <2>5, <2>6, LateFootprint, ActorsAssumption DEF Sweeper
  <1>3. QED
    BY <1>1, <1>2 DEF Prepared

\* A row is marked failed after its letter.
LEMMA FailedHasLetterKept ==
  ASSUME Shape, Prepared, FailedHasLetter, Next
  PROVE  FailedHasLetter'
  <1> SUFFICES ASSUME NEW e \in Event, row'[e] = "failed"
               PROVE  \E l \in Letter : Lettered(e, l)'
    BY DEF FailedHasLetter, Lettered
  <1>1. CASE row[e] = "failed"
    BY <1>1, LetteredKept DEF FailedHasLetter, Lettered
  <1>2. CASE row[e] # "failed"
    <2>1. SweepMarks
      <3>1. SweepCloses => target[Sweep] \in Event
        BY ActorIsAt DEF SweepCloses, Move, Actor
      <3>2. QED
        BY <1>2, <3>1, RowFootprint
         DEF Receive, LiveCloses, SweepCloses, RedriveCloses, Close, Shape, TypeOK
    <2>2. e = target[Sweep] /\ work[Sweep] = "marking"
      BY <1>2, <2>1 DEF SweepMarks, Close, Move, Shape, TypeOK
    <2>3. QED
      BY <2>2, LetteredKept DEF Prepared
  <1>3. QED
    BY <1>1, <1>2

\* A letter is closed after its row.
LEMMA RedrivenIsNotStaleKept ==
  ASSUME Shape, Prepared, RedrivenIsNotStale, Next
  PROVE  RedrivenIsNotStale'
  <1> SUFFICES ASSUME NEW e \in Event, NEW l \in Letter, letters'[e][l] = "redriven"
               PROVE  row'[e] # "pending"
    BY DEF RedrivenIsNotStale
  <1>1. Closed(e)
    <2>1. CASE letters[e][l] = "redriven"
      BY <2>1 DEF RedrivenIsNotStale, Closed, Shape, TypeOK, Untouched, Lettered
    <2>2. CASE letters[e][l] # "redriven"
      <3>1. ASSUME NEW f \in Event, SaveLetter(f) PROVE FALSE
        BY <2>2, <3>1, LetterSaved
      <3>2. CASE SweepRetires
        <4>1. e = target[Sweep] /\ work[Sweep] \in {"retiring", "retiringQueued"}
          BY <2>2, <3>2 DEF SweepRetires, Retire, Move, Shape, TypeOK
        <4>2. row[e] # "none"
          BY <4>1, ActorIsAt DEF Actor
        <4>3. QED
          BY <4>1, <4>2 DEF Prepared, Sweeper, Closed, Shape, TypeOK
      <3>3. CASE RedriveRetires
        <4>1. e = target[Redrive] /\ work[Redrive] = "retiring"
          BY <2>2, <3>3 DEF RedriveRetires, Retire, Move, Shape, TypeOK
        <4>2. row[e] # "none"
          BY <4>1, ActorIsAt DEF Actor
        <4>3. QED
          BY <4>1, <4>2 DEF Prepared, Sweeper, Closed, Shape, TypeOK
      <3>4. QED
        BY <2>2, <3>1, <3>2, <3>3, LetterFootprint
    <2>3. QED
      BY <2>1, <2>2
  <1>2. QED
    BY <1>1, ClosedKept DEF Closed

-----------------------------------------------------------------------------
(* The invariant, and what it implies.                                     *)

\* The initial states satisfy it.
LEMMA InitIInv == Init => IInv
  <1> SUFFICES ASSUME Init PROVE IInv
    OBVIOUS
  <1>1. Shape
    BY InitShape
  <1>2. /\ row = [e \in Event |-> "none"] /\ work = [a \in Actor |-> "idle"]
        /\ letters = [e \in Event |-> [l \in Letter |-> "none"]]
        /\ jobs = [e \in Event |-> [j \in Slot |-> NoJob]]
    BY DEF Init
  <1>3. Answer
    BY <1>2 DEF Answer, Taken, Passed, Lettered, NoJob
  <1>4. Letters
    BY <1>2 DEF Letters, Prepared, FailedHasLetter, RedrivenIsNotStale, Sweeper, Actor
  <1>5. QED
    BY <1>1, <1>3, <1>4 DEF IInv

\* Every step keeps the invariant.
LEMMA NextIInv == IInv /\ [Next]_vars => IInv'
  <1> SUFFICES ASSUME IInv, [Next]_vars PROVE IInv'
    OBVIOUS
  <1>1. CASE Next
    <2>1. Shape /\ Answer /\ Prepared
      BY DEF IInv, Letters
    <2>2. Shape'
      BY <1>1, <2>1, ShapeKept
    <2>3. \A e \in Event : Taken(e)'
      BY <1>1, <2>1, LetteredIsHeld, EndedIsHeld, ClosedIsHeld DEF Taken, Lettered, Held
    <2>4. \A a \in Actor : Passed(a)'
      BY <1>1, <2>1, PassedKept
    <2>5. Letters'
      BY <1>1, <2>1, PreparedKept, FailedHasLetterKept, RedrivenIsNotStaleKept DEF IInv, Letters
    <2>6. QED
      BY <2>2, <2>3, <2>4, <2>5 DEF IInv, Answer
  <1>2. CASE UNCHANGED vars
    BY <1>2
     DEF vars, rowVars, sweepVars, factVars, counters, IInv, Shape, TypeOK, AtWork, Untouched,
         WithinBudget, Numbered, Lettered, Answer, Taken, Held, Passed, On, JobOf, Letters,
         Prepared, FailedHasLetter, RedrivenIsNotStale
  <1>3. QED
    BY <1>1, <1>2

\* The invariant holds in every state of every behaviour.
THEOREM IngressInvariant == Spec => []IInv
  <1>1. QED
    BY InitIInv, NextIInv, PTL DEF Spec

\* Types hold, and the attempts counted on a row stay inside the replay budget.
THEOREM IngressTypeOK == Spec => []TypeOK
  <1>1. IInv => TypeOK
    BY DEF IInv, Shape
  <1>2. QED
    BY <1>1, IngressInvariant, PTL

\* An event that was answered 202 is always somebody's, with the two exceptions
\* Accounted names.
THEOREM IngressAccounted == Spec => []Accounted
  <1>1. IInv => Accounted
    <2> SUFFICES ASSUME IInv, NEW e \in Event, row[e] \notin {"none", "pending"}
                 PROVE  \/ e \in handled \cup unlettered \cup mistaken
                        \/ Open(e) # {} \/ \E j \in Slot : jobs[e][j].stage \in Owed
      BY DEF Accounted
    <2>1. row[e] \in {"dispatched", "failed"}
      BY DEF IInv, Shape, TypeOK
    <2>2. Held(e, 0)
      BY <2>1 DEF IInv, Answer, Taken
    <2>3. QED
      BY <2>2 DEF Held, Open
  <1>2. QED
    BY <1>1, IngressInvariant, PTL

\* A row marked failed has given its payload to a dead letter before.
THEOREM IngressFailedHasLetter == Spec => []FailedHasLetter
  <1>1. IInv => FailedHasLetter
    BY DEF IInv, Letters
  <1>2. QED
    BY <1>1, IngressInvariant, PTL

\* A delivery with a letter that was redriven is not replayed by a later sweep.
THEOREM IngressRedriven == Spec => []RedrivenIsNotStale
  <1>1. IInv => RedrivenIsNotStale
    BY DEF IInv, Letters
  <1>2. QED
    BY <1>1, IngressInvariant, PTL
=============================================================================
