----------------------- MODULE SessionOwnership_proofs -----------------------
(***************************************************************************)
(* Theorems about SessionOwnership, for every set of processes and         *)
(* sessions and every bound: the types, who may change a claim and what a  *)
(* stop leaves behind whether or not queries overtake each other (both     *)
(* values of Timely); and, when they do not, that an engine is covered by  *)
(* its claim and by the heartbeat.                                         *)
(***************************************************************************)
EXTENDS SessionOwnership, TLAPS

-----------------------------------------------------------------------------
\* The initial states are well typed.
LEMMA InitTypeOK == Init => TypeOK
BY OwnershipAssumption DEF Init, TypeOK, Idle, StartAt, StopAt, Statuses

\* What the operators shared by several actions do to the types.
LEMMA SpendTypes ==
    ASSUME TypeOK, NEW kind \in {"outages", "requests", "lapses"}, NEW bound, Spend(kind, bound)
    PROVE  spent' \in [{"outages", "requests", "lapses"} -> Nat]
BY DEF TypeOK, Spend

\* Start keeps the types.
LEMMA StartTypes ==
    ASSUME TypeOK, NEW n \in Node, NEW s \in Session, NEW at \in StartAt,
           start' = [start EXCEPT ![n][s] = at]
    PROVE  start' \in [Node -> [Session -> StartAt]]
<1>1. start[n] \in [Session -> StartAt]
  BY DEF TypeOK
<1>2. [start[n] EXCEPT ![s] = at] \in [Session -> StartAt]
  BY <1>1
<1>. QED BY <1>2 DEF TypeOK

\* Stop keeps the types.
LEMMA StopTypes ==
    ASSUME TypeOK, NEW n \in Node, NEW s \in Session, NEW at \in StopAt
    PROVE  [stop EXCEPT ![n][s] = at] \in [Node -> [Session -> StopAt]]
<1>1. stop[n] \in [Session -> StopAt]
  BY DEF TypeOK
<1>2. [stop[n] EXCEPT ![s] = at] \in [Session -> StopAt]
  BY <1>1
<1>. QED BY <1>2 DEF TypeOK

\* TakeClaim keeps the types.
LEMMA TakeClaimTypes ==
    ASSUME TypeOK, NEW n \in Node, NEW s \in Session, TakeClaim(n, s)
    PROVE  /\ holder' \in [Session -> Node \cup {NoNode}]
           /\ lapsed' \in [Session -> BOOLEAN]
           /\ expired' \in [Node -> SUBSET Session]
           /\ stopped' \subseteq Session
           /\ \A t \in Session : lapsed'[t] => holder'[t] # NoNode
<1>1. expired' \in [Node -> SUBSET Session] /\ stopped' \subseteq Session
  BY DEF TypeOK, TakeClaim
<1>2. holder' \in [Session -> Node \cup {NoNode}] /\ lapsed' \in [Session -> BOOLEAN]
  BY DEF TypeOK, TakeClaim
<1>3. ASSUME NEW t \in Session, lapsed'[t] PROVE holder'[t] # NoNode
  BY <1>3, OwnershipAssumption DEF TypeOK, TakeClaim
<1>. QED BY <1>1, <1>2, <1>3

\* Claim keeps the types.
LEMMA ClaimTypes ==
    ASSUME TypeOK, NEW n \in Node, NEW s \in Session, Claim(n, s)
    PROVE  /\ holder' \in [Session -> Node \cup {NoNode}]
           /\ lapsed' \in [Session -> BOOLEAN]
           /\ expired' \in [Node -> SUBSET Session]
           /\ start' \in [Node -> [Session -> StartAt]]
           /\ stopped' \subseteq Session
           /\ \A t \in Session : lapsed'[t] => holder'[t] # NoNode
<1>1. CASE Claimable(n, s)
  <2>1. start' = [start EXCEPT ![n][s] = "claimed"] /\ TakeClaim(n, s)
    BY <1>1 DEF Claim
  <2>2. start' \in [Node -> [Session -> StartAt]]
    BY <2>1, StartTypes DEF StartAt
  <2>. QED BY <2>1, <2>2, TakeClaimTypes
<1>2. CASE ~Claimable(n, s)
  <2>1. PICK at \in {"failing", "idle"} : start' = [start EXCEPT ![n][s] = at]
    BY <1>2 DEF Claim
  <2>2. start' \in [Node -> [Session -> StartAt]]
    BY <2>1, StartTypes DEF StartAt
  <2>. QED BY <1>2, <2>2 DEF Claim, TypeOK
<1>. QED BY <1>1, <1>2

\* EngineGone keeps the types.
LEMMA EngineGoneTypes ==
    ASSUME TypeOK, NEW n \in Node, NEW s \in Session, EngineGone(n, s)
    PROVE  alive' \in [Node -> SUBSET Session] /\ losing' \in [Node -> SUBSET Session]
BY DEF TypeOK, EngineGone

\* StopAfterEngine keeps the types.
LEMMA StopAfterEngineTypes ==
    ASSUME TypeOK, NEW n \in Node, NEW s \in Session
    PROVE  StopAfterEngine(n, s) \in [Node -> [Session -> StopAt]]
<1>1. stop[n][s] \in StopAt
  BY DEF TypeOK
<1>2. AfterEngine(stop[n][s]) \in StopAt
  BY <1>1 DEF AfterEngine, StopAt
<1>3. StopAfterEngine(n, s) = [stop EXCEPT ![n][s] = AfterEngine(stop[n][s])]
  BY DEF StopAfterEngine, TypeOK
<1>. QED BY <1>2, <1>3, StopTypes

\* Release keeps the types.
LEMMA ReleaseTypes ==
    ASSUME TypeOK, NEW n \in Node, NEW s \in Session, NEW caller \in {"start", "stop"},
           ReleaseUnlessActive(n, s, caller)
    PROVE  /\ owned' \in [Node -> SUBSET Session]
           /\ releasing' \in [Node -> [Session -> {"no", "start", "stop"}]]
<1>1. CASE UNCHANGED <<owned, releasing>>
  BY <1>1 DEF TypeOK
<1>2. CASE BeginRelease(n, s, caller)
  <2>1. owned' \in [Node -> SUBSET Session]
    BY <1>2 DEF BeginRelease, TypeOK
  <2>2. releasing[n] \in [Session -> {"no", "start", "stop"}]
    BY DEF TypeOK
  <2>3. [releasing[n] EXCEPT ![s] = caller] \in [Session -> {"no", "start", "stop"}]
    BY <2>2
  <2>. QED BY <1>2, <2>1, <2>3 DEF BeginRelease, TypeOK
<1>. QED BY <1>1, <1>2 DEF ReleaseUnlessActive

\* A status that is written is a status.
LEMMA StatusTypes ==
    ASSUME TypeOK, NEW s \in Session, NEW st \in Statuses, WriteStatus(s, st)
    PROVE  status' \in [Session -> Statuses]
BY DEF TypeOK, WriteStatus

\* No stage of a start() breaks the types.
LEMMA StartTypeOK ==
    ASSUME TypeOK, NEW n \in Node, NEW s \in Session, StartStep(n, s)
    PROVE  TypeOK'
<1>1. CASE StartRequested(n, s)
  <2>1. /\ holder' \in [Session -> Node \cup {NoNode}]
        /\ lapsed' \in [Session -> BOOLEAN]
        /\ expired' \in [Node -> SUBSET Session]
        /\ stopped' \subseteq Session
        /\ \A t \in Session : lapsed'[t] => holder'[t] # NoNode
        /\ start' \in [Node -> [Session -> StartAt]]
    BY <1>1, ClaimTypes DEF StartRequested
  <2>2. spent' \in [{"outages", "requests", "lapses"} -> Nat]
    BY <1>1, SpendTypes DEF StartRequested
  <2>. QED BY <1>1, <2>1, <2>2 DEF StartRequested, TypeOK, rowVars, procVars, histVars
<1>2. CASE StartFromList(n, s)
  <2>1. /\ holder' \in [Session -> Node \cup {NoNode}]
        /\ lapsed' \in [Session -> BOOLEAN]
        /\ expired' \in [Node -> SUBSET Session]
        /\ stopped' \subseteq Session
        /\ \A t \in Session : lapsed'[t] => holder'[t] # NoNode
        /\ start' \in [Node -> [Session -> StartAt]]
    BY <1>2, ClaimTypes DEF StartFromList, TypeOK
  <2>2. todo' \in [Node -> SUBSET Session]
    BY <1>2 DEF StartFromList, TypeOK
  <2>. QED BY <1>2, <2>1, <2>2 DEF StartFromList, TypeOK, rowVars, procVars, histVars
<1>3. CASE ClaimReturned(n, s)
  <2>1. start' \in [Node -> [Session -> StartAt]]
    BY <1>3, StartTypes DEF ClaimReturned, StartAt
  <2>. QED BY <1>3, <2>1 DEF ClaimReturned, TypeOK, rowVars, procVars, histVars
<1>4. CASE StartAccepted(n, s)
  <2>1. start' \in [Node -> [Session -> StartAt]]
    BY <1>4, StartTypes DEF StartAccepted, StartAt
  <2>2. status' \in [Session -> Statuses]
    BY <1>4, StatusTypes DEF StartAccepted, Statuses
  <2>. QED BY <1>4, <2>1, <2>2 DEF StartAccepted, TypeOK, rowVars, procVars, histVars
<1>5. CASE StartRefused(n, s)
  <2>1. start' \in [Node -> [Session -> StartAt]]
    BY <1>5, StartTypes DEF StartRefused, StartAt
  <2>. QED BY <1>5, <2>1 DEF StartRefused, TypeOK, rowVars, procVars, histVars
<1>6. CASE StartOpened(n, s)
  <2>1. start' \in [Node -> [Session -> StartAt]]
    BY <1>6, StartTypes DEF StartOpened, StartAt
  <2>2. alive' \in [Node -> SUBSET Session] /\ losing' \in [Node -> SUBSET Session]
    BY <1>6, EngineGoneTypes DEF StartOpened, TypeOK
  <2>3. stop' \in [Node -> [Session -> StopAt]]
    BY <1>6, StopAfterEngineTypes DEF StartOpened, TypeOK
  <2>. QED BY <1>6, <2>1, <2>2, <2>3 DEF StartOpened, TypeOK, rowVars, procVars, histVars
<1>7. CASE StartFails(n, s)
  <2>1. start' \in [Node -> [Session -> StartAt]]
    BY <1>7, StartTypes DEF StartFails, StartAt
  <2>2. alive' \in [Node -> SUBSET Session] /\ losing' \in [Node -> SUBSET Session]
    BY <1>7, EngineGoneTypes DEF StartFails
  <2>3. stop' \in [Node -> [Session -> StopAt]]
    BY <1>7, StopAfterEngineTypes DEF StartFails
  <2>4. status' \in [Session -> Statuses]
    BY <1>7, StatusTypes DEF StartFails, TypeOK, Statuses
  <2>. QED BY <1>7, <2>1, <2>2, <2>3, <2>4 DEF StartFails, TypeOK, rowVars, procVars, histVars
<1>8. CASE StartRetried(n, s)
  <2>1. /\ holder' \in [Session -> Node \cup {NoNode}]
        /\ lapsed' \in [Session -> BOOLEAN]
        /\ expired' \in [Node -> SUBSET Session]
        /\ stopped' \subseteq Session
        /\ \A t \in Session : lapsed'[t] => holder'[t] # NoNode
        /\ start' \in [Node -> [Session -> StartAt]]
    BY <1>8, ClaimTypes DEF StartRetried
  <2>. QED BY <1>8, <2>1 DEF StartRetried, TypeOK, rowVars, procVars, histVars
<1>9. CASE StartGivesUp(n, s)
  <2>1. start' \in [Node -> [Session -> StartAt]]
    BY <1>9, StartTypes DEF StartGivesUp, StartAt
  <2>2. /\ owned' \in [Node -> SUBSET Session]
        /\ releasing' \in [Node -> [Session -> {"no", "start", "stop"}]]
    BY <1>9, ReleaseTypes DEF StartGivesUp
  <2>. QED BY <1>9, <2>1, <2>2 DEF StartGivesUp, TypeOK, rowVars, procVars, histVars
<1>. QED
  BY <1>1, <1>2, <1>3, <1>4, <1>5, <1>6, <1>7, <1>8, <1>9 DEF StartStep

\* No stage of a stop(), logout() or release() breaks the types.
LEMMA StopTypeOK ==
    ASSUME TypeOK, NEW n \in Node, NEW s \in Session, StopStep(n, s)
    PROVE  TypeOK'
<1>1. CASE StopRequested(n, s)
  <2>1. stop' \in [Node -> [Session -> StopAt]]
    BY <1>1, StopTypes DEF StopRequested, StopAt
  <2>2. mark' \in [Node -> SUBSET Session]
    BY <1>1 DEF StopRequested, TypeOK
  <2>3. spent' \in [{"outages", "requests", "lapses"} -> Nat]
    BY <1>1, SpendTypes DEF StopRequested
  <2>. QED BY <1>1, <2>1, <2>2, <2>3 DEF StopRequested, TypeOK, rowVars, procVars, histVars
<1>2. CASE StopFenced(n, s)
  <2>1. PICK at \in StopAt : stop' = [stop EXCEPT ![n][s] = at]
    BY <1>2 DEF StopFenced, StopAt
  <2>2. stop' \in [Node -> [Session -> StopAt]]
    BY <1>2, <2>1, StopTypes
  <2>3. CASE UNCHANGED mark
    BY <1>2, <2>3, <2>2 DEF StopFenced, TypeOK, rowVars, histVars
  <2>4. CASE mark' = [mark EXCEPT ![n] = @ \cup {s}]
    BY <1>2, <2>4, <2>2 DEF StopFenced, TypeOK, rowVars, histVars
  <2>. QED BY <1>2, <2>1, <2>2, <2>3, <2>4 DEF StopFenced, TypeOK, rowVars, procVars, histVars
<1>3. CASE LogoutRequested(n, s)
  <2>1. stop' \in [Node -> [Session -> StopAt]]
    BY <1>3, StopTypes DEF LogoutRequested, StopAt
  <2>2. mark' \in [Node -> SUBSET Session]
    BY <1>3 DEF LogoutRequested, TypeOK
  <2>3. spent' \in [{"outages", "requests", "lapses"} -> Nat]
    BY <1>3, SpendTypes DEF LogoutRequested
  <2>. QED BY <1>3, <2>1, <2>2, <2>3 DEF LogoutRequested, TypeOK, rowVars, procVars, histVars
<1>4. CASE StopTornDown(n, s)
  <2>1. alive' \in [Node -> SUBSET Session] /\ losing' \in [Node -> SUBSET Session]
    BY <1>4, EngineGoneTypes DEF StopTornDown
  <2>2. stop' \in [Node -> [Session -> StopAt]]
    BY <1>4, StopAfterEngineTypes DEF StopTornDown
  <2>. QED BY <1>4, <2>1, <2>2 DEF StopTornDown, TypeOK, rowVars, procVars, histVars
<1>5. CASE StopReturns(n, s)
  <2>1. stop' \in [Node -> [Session -> StopAt]]
    BY <1>5, StopTypes DEF StopReturns, StopAt
  <2>2. status' \in [Session -> Statuses]
    BY <1>5, StatusTypes DEF StopReturns, Statuses
  <2>3. /\ owned' \in [Node -> SUBSET Session]
        /\ releasing' \in [Node -> [Session -> {"no", "start", "stop"}]]
    BY <1>5, ReleaseTypes DEF StopReturns, TypeOK
  <2>. QED BY <1>5, <2>1, <2>2, <2>3 DEF StopReturns, TypeOK, rowVars, procVars, histVars
<1>6. CASE LogoutReturns(n, s)
  <2>1. stop' \in [Node -> [Session -> StopAt]]
    BY <1>6, StopTypes DEF LogoutReturns, StopAt
  <2>2. status' \in [Session -> Statuses]
    BY <1>6 DEF LogoutReturns, TypeOK, Statuses
  <2>3. /\ owned' \in [Node -> SUBSET Session]
        /\ releasing' \in [Node -> [Session -> {"no", "start", "stop"}]]
    BY <1>6, ReleaseTypes DEF LogoutReturns
  <2>. QED BY <1>6, <2>1, <2>2, <2>3 DEF LogoutReturns, TypeOK, rowVars, procVars, histVars
<1>7. CASE Released(n, s)
  <2>1. releasing' \in [Node -> [Session -> {"no", "start", "stop"}]]
    <3>1. releasing[n] \in [Session -> {"no", "start", "stop"}]
      BY DEF TypeOK
    <3>2. [releasing[n] EXCEPT ![s] = "no"] \in [Session -> {"no", "start", "stop"}]
      BY <3>1
    <3>. QED BY <1>7, <3>2 DEF Released, TypeOK
  <2>2. /\ holder' \in [Session -> Node \cup {NoNode}]
        /\ lapsed' \in [Session -> BOOLEAN]
        /\ \A t \in Session : lapsed'[t] => holder'[t] # NoNode
    BY <1>7 DEF Released, TypeOK
  <2>3. stopped' \subseteq Session
    BY <1>7 DEF Released, TypeOK
  <2>. QED BY <1>7, <2>1, <2>2, <2>3 DEF Released, TypeOK
<1>8. CASE LogoutRefused(n, s)
  <2>1. /\ owned' \in [Node -> SUBSET Session]
        /\ releasing' \in [Node -> [Session -> {"no", "start", "stop"}]]
    BY <1>8, ReleaseTypes DEF LogoutRefused
  <2>2. spent' \in [{"outages", "requests", "lapses"} -> Nat]
    BY <1>8, SpendTypes DEF LogoutRefused
  <2>. QED BY <1>8, <2>1, <2>2 DEF LogoutRefused, TypeOK, rowVars
<1>. QED
  BY <1>1, <1>2, <1>3, <1>4, <1>5, <1>6, <1>7, <1>8 DEF StopStep

\* Nothing an engine reports, nor its teardown, breaks the types.
LEMMA EngineTypeOK ==
    ASSUME TypeOK, NEW n \in Node, NEW s \in Session,
           EngineStep(n, s) \/ LossTornDown(n, s)
    PROVE  TypeOK'
<1>1. CASE EngineReady(n, s)
  BY <1>1 DEF EngineReady, Statuses, TypeOK, rowVars, procVars, histVars
<1>2. CASE EngineDrops(n, s)
  <2>1. status' \in [Session -> Statuses]
    BY <1>2, StatusTypes DEF EngineDrops, TypeOK, Statuses
  <2>. QED BY <1>2, <2>1 DEF EngineDrops, TypeOK, procVars, histVars
<1>3. CASE EngineFails(n, s)
  <2>1. alive' \in [Node -> SUBSET Session] /\ losing' \in [Node -> SUBSET Session]
    BY <1>3, EngineGoneTypes DEF EngineFails
  <2>2. stop' \in [Node -> [Session -> StopAt]]
    BY <1>3, StopAfterEngineTypes DEF EngineFails
  <2>3. status' \in [Session -> Statuses]
    BY <1>3 DEF EngineFails, TypeOK, Statuses
  <2>. QED BY <1>3, <2>1, <2>2, <2>3 DEF EngineFails, TypeOK, rowVars, procVars, histVars
<1>4. CASE LossTornDown(n, s)
  <2>1. alive' \in [Node -> SUBSET Session] /\ losing' \in [Node -> SUBSET Session]
    BY <1>4, EngineGoneTypes DEF LossTornDown
  <2>2. stop' \in [Node -> [Session -> StopAt]]
    BY <1>4, StopAfterEngineTypes DEF LossTornDown
  <2>. QED BY <1>4, <2>1, <2>2 DEF LossTornDown, TypeOK, rowVars, procVars, histVars
<1>5. CASE EngineAsksQr(n, s)
  <2>1. status' \in [Session -> Statuses]
    BY <1>5, StatusTypes DEF EngineAsksQr, Statuses
  <2>. QED BY <1>5, <2>1 DEF EngineAsksQr, TypeOK, procVars, histVars
<1>. QED
  BY <1>1, <1>2, <1>3, <1>4, <1>5 DEF EngineStep

\* No stage of a heartbeat breaks the types.
LEMMA RenewTypeOK ==
    ASSUME TypeOK, NEW n \in Node, RenewStep(n)
    PROVE  TypeOK'
<1>1. CASE RenewBegins(n)
  BY <1>1 DEF RenewBegins, TypeOK, rowVars, procVars, histVars
<1>2. CASE RenewUpdates(n)
  <2>1. renewal' \in [Node -> [at : {"idle", "update", "select", "decide"},
                            held : SUBSET Session, live : SUBSET Session]]
    BY <1>2 DEF RenewUpdates, TypeOK
  <2>2. lapsed' \in [Session -> BOOLEAN]
    BY <1>2 DEF RenewUpdates
  <2>3. ASSUME NEW t \in Session, lapsed'[t] PROVE lapsed[t]
    BY <1>2, <2>3 DEF RenewUpdates
  <2>4. \A t \in Session : lapsed'[t] => holder'[t] # NoNode
    BY <1>2, <2>3 DEF RenewUpdates, TypeOK
  <2>5. UNCHANGED <<holder, status, node, owned, alive, mark, start, stop, releasing,
                    losing, todo, expired, stopped, spent>>
    BY <1>2 DEF RenewUpdates, histVars
  <2>. QED BY <2>1, <2>2, <2>4, <2>5 DEF TypeOK
<1>3. CASE RenewSelects(n)
  BY <1>3 DEF RenewSelects, Idle, TypeOK, rowVars, procVars, histVars
<1>4. CASE RenewFails(n)
  BY <1>4 DEF RenewFails, Idle, TypeOK, rowVars, procVars, histVars
<1>5. CASE RenewDecides(n)
  BY <1>5 DEF RenewDecides, Idle, TypeOK, rowVars, procVars, histVars
<1>. QED
  BY <1>1, <1>2, <1>3, <1>4, <1>5 DEF RenewStep

\* Neither the sweep nor an outage nor a restart breaks the types.
LEMMA LifeTypeOK ==
    ASSUME TypeOK, NEW n \in Node, LifeStep(n)
    PROVE  TypeOK'
<1>1. CASE SweepScans(n)
  BY <1>1 DEF SweepScans, TypeOK, rowVars, procVars, histVars
<1>2. CASE Crash(n)
  BY <1>2 DEF Crash, Forget, Spend, Idle, StartAt, StopAt, TypeOK, rowVars, procVars, histVars
<1>3. CASE ShutdownBegins(n)
  BY <1>3 DEF ShutdownBegins, Spend, TypeOK, rowVars, procVars, histVars
<1>0. ASSUME NEW s \in Session PROVE AfterEngine(stop[n][s]) \in StopAt
  BY DEF AfterEngine, StopAt, TypeOK
<1>4. CASE ShutdownEngines(n)
  <2>1. stop' \in [Node -> [Session -> StopAt]]
    BY <1>4, <1>0 DEF ShutdownEngines, TypeOK
  <2>2. alive' \in [Node -> SUBSET Session] /\ losing' \in [Node -> SUBSET Session]
    BY <1>4 DEF ShutdownEngines, TypeOK
  <2>. QED BY <1>4, <2>1, <2>2 DEF ShutdownEngines, TypeOK, rowVars, histVars
<1>8. CASE ShutdownClears(n)
  <2>1. stop' \in [Node -> [Session -> StopAt]]
    BY <1>8, <1>0 DEF ShutdownClears, TypeOK
  <2>. QED BY <1>8, <2>1 DEF ShutdownClears, TypeOK, rowVars, histVars
<1>5. CASE ShutdownReleases(n)
  <2>1. holder' \in [Session -> Node \cup {NoNode}] /\ lapsed' \in [Session -> BOOLEAN]
    BY <1>5 DEF ShutdownReleases, TypeOK
  <2>2. ASSUME NEW t \in Session, lapsed'[t] PROVE holder'[t] # NoNode
    BY <1>5, <2>2 DEF ShutdownReleases, TypeOK
  <2>3. node' \in [Node -> {"up", "draining", "closing", "closed", "released", "down"}]
        /\ owned' \in [Node -> SUBSET Session]
    BY <1>5 DEF ShutdownReleases, TypeOK
  <2>. QED BY <1>5, <2>1, <2>2, <2>3 DEF ShutdownReleases, TypeOK, histVars
<1>6. CASE Exit(n)
  BY <1>6 DEF Exit, Forget, Idle, StartAt, StopAt, TypeOK, rowVars, procVars, histVars
<1>7. CASE Boot(n)
  BY <1>7 DEF Boot, Spend, Statuses, TypeOK, rowVars, procVars, histVars
<1>. QED
  BY <1>1, <1>2, <1>3, <1>4, <1>5, <1>6, <1>7, <1>8 DEF LifeStep

\* A lease that runs out breaks no type.
LEMMA LapseTypeOK ==
    ASSUME TypeOK, NEW s \in Session, Lapse(s)
    PROVE  TypeOK'
<1>1. holder[s] \in Node
  BY DEF Lapse, TypeOK
<1>2. spent' \in [{"outages", "requests", "lapses"} -> Nat]
  BY SpendTypes DEF Lapse, TypeOK
<1>3. expired' \in [Node -> SUBSET Session]
  BY <1>1 DEF Lapse, TypeOK
<1>4. /\ lapsed' \in [Session -> BOOLEAN]
      /\ \A t \in Session : lapsed'[t] => holder'[t] # NoNode
  BY DEF Lapse, TypeOK
<1>. QED BY <1>2, <1>3, <1>4 DEF Lapse, TypeOK, procVars

\* Every step keeps the types.
LEMMA NextTypeOK == TypeOK /\ [Next]_vars => TypeOK'
<1>1. ASSUME TypeOK, UNCHANGED vars PROVE TypeOK'
  BY <1>1 DEF vars, rowVars, procVars, histVars, TypeOK
<1>2. ASSUME TypeOK, Next PROVE TypeOK'
  BY <1>2, StartTypeOK, StopTypeOK, EngineTypeOK, RenewTypeOK, LifeTypeOK, LapseTypeOK DEF Next
<1>. QED BY <1>1, <1>2

\* Every variable keeps its type and a row without a holder has no lease, for
\* every set of processes and sessions.
THEOREM OwnershipTypeOK == Spec => []TypeOK
BY InitTypeOK, NextTypeOK, PTL DEF Spec

-----------------------------------------------------------------------------
\* Only a claim, a release and a shutdown change who holds a row or which
\* sessions count as stopped.
LEMMA StartHolder ==
    ASSUME NEW n \in Node, NEW s \in Session, StartStep(n, s)
    PROVE  UNCHANGED <<holder, stopped>> \/ (Claimable(n, s) /\ TakeClaim(n, s))
<1>1. CASE Claim(n, s)
  BY <1>1 DEF Claim
<1>2. CASE UNCHANGED <<holder, stopped>>
  BY <1>2
<1>3. CASE StartRequested(n, s) \/ StartFromList(n, s) \/ StartRetried(n, s)
  BY <1>1, <1>2, <1>3 DEF StartRequested, StartFromList, StartRetried
<1>4. CASE \/ ClaimReturned(n, s) \/ StartAccepted(n, s) \/ StartRefused(n, s)
           \/ StartOpened(n, s) \/ StartFails(n, s) \/ StartGivesUp(n, s)
  BY <1>2, <1>4 DEF ClaimReturned, StartAccepted, StartRefused, StartOpened, StartFails,
                    StartGivesUp, rowVars, histVars
<1>. QED BY <1>3, <1>4 DEF StartStep

\* A stop or logout touches the row only with its release.
LEMMA StopHolder ==
    ASSUME NEW n \in Node, NEW s \in Session, StopStep(n, s)
    PROVE  UNCHANGED <<holder, stopped>> \/ Released(n, s)
<1>1. CASE \/ StopRequested(n, s) \/ StopFenced(n, s)
           \/ LogoutRequested(n, s) \/ LogoutRefused(n, s)
  BY <1>1 DEF StopRequested, StopFenced, LogoutRequested, LogoutRefused, rowVars, histVars
<1>2. CASE StopTornDown(n, s) \/ StopReturns(n, s) \/ LogoutReturns(n, s)
  BY <1>2 DEF StopTornDown, StopReturns, LogoutReturns, rowVars, histVars
<1>. QED BY <1>1, <1>2 DEF StopStep

\* Renewal, the engines and the passing of time never change who holds a row.
LEMMA OtherHolder ==
    ASSUME \/ \E n \in Node : RenewStep(n)
           \/ \E n \in Node, s \in Session : EngineStep(n, s) \/ LossTornDown(n, s)
           \/ \E s \in Session : Lapse(s)
    PROVE  UNCHANGED <<holder, stopped>>
<1>1. CASE \E n \in Node : RenewStep(n)
  BY <1>1 DEF RenewStep, RenewBegins, RenewUpdates, RenewSelects, RenewFails, RenewDecides,
              rowVars, histVars
<1>2. CASE \E n \in Node, s \in Session : EngineStep(n, s) \/ LossTornDown(n, s)
  BY <1>2 DEF EngineStep, EngineReady, EngineAsksQr, EngineDrops, EngineFails, LossTornDown,
              rowVars, histVars
<1>3. CASE \E s \in Session : Lapse(s)
  BY <1>3 DEF Lapse
<1>. QED BY <1>1, <1>2, <1>3

\* A process changes who holds its rows at the end of its shutdown only.
LEMMA LifeHolder ==
    ASSUME NEW n \in Node, LifeStep(n)
    PROVE  UNCHANGED <<holder, stopped>> \/ ShutdownReleases(n)
BY DEF LifeStep, SweepScans, Crash, ShutdownBegins, ShutdownEngines, ShutdownClears, Exit, Boot,
       rowVars, histVars

\* The three statements that write a row: claim, release, release of all.
LEMMA WhoChangesHolder ==
    ASSUME Next
    PROVE  \/ UNCHANGED <<holder, stopped>>
           \/ \E n \in Node, s \in Session : Claimable(n, s) /\ TakeClaim(n, s)
           \/ \E n \in Node, s \in Session : Released(n, s)
           \/ \E n \in Node : ShutdownReleases(n)
<1>1. CASE \E n \in Node, s \in Session : StartStep(n, s) \/ StopStep(n, s)
  BY <1>1, StartHolder, StopHolder
<1>2. CASE \E n \in Node : LifeStep(n)
  BY <1>2, LifeHolder
<1>. QED BY <1>1, <1>2, OtherHolder DEF Next

-----------------------------------------------------------------------------
\* A lease that has not lapsed is given up by its holder only, whatever the
\* database's replies overtake.
LEMMA LiveLeaseStep ==
    ASSUME TypeOK, [Next]_vars, NEW s \in Session, NEW n \in Node,
           holder[s] = n, ~lapsed[s], holder'[s] # n
    PROVE  holder'[s] = NoNode /\ (releasing[n][s] # "no" \/ node[n] = "closed")
<1>1. Next
  BY DEF vars, rowVars
<1>2. ASSUME NEW m \in Node, NEW t \in Session, Claimable(m, t), TakeClaim(m, t)
      PROVE  FALSE
  <2>1. t = s /\ m # n
    BY <1>2 DEF TakeClaim, TypeOK
  <2>. QED BY <1>2, <2>1, OwnershipAssumption DEF Claimable
<1>3. ASSUME NEW m \in Node, NEW t \in Session, Released(m, t)
      PROVE  holder'[s] = NoNode /\ releasing[n][s] # "no"
  BY <1>3 DEF Released, TypeOK
<1>4. ASSUME NEW m \in Node, ShutdownReleases(m)
      PROVE  holder'[s] = NoNode /\ node[n] = "closed"
  BY <1>4 DEF ShutdownReleases, TypeOK
<1>. QED BY <1>1, <1>2, <1>3, <1>4, WhoChangesHolder

\* claim() and release() exclude each other on a live lease: no peer takes or
\* clears it.
THEOREM OwnershipLiveLease == Spec => LiveLeaseIsExclusive
<1>1. TypeOK /\ [Next]_vars =>
        [\A s \in Session, n \in Node :
            holder[s] = n /\ ~lapsed[s] /\ holder'[s] # n =>
               /\ holder'[s] = NoNode
               /\ releasing[n][s] # "no" \/ node[n] = "closed"]_vars
  BY LiveLeaseStep
<1>. QED BY <1>1, OwnershipTypeOK, PTL DEF Spec, LiveLeaseIsExclusive

\* No step makes an orphan of a stopped session.
LEMMA StoppedStep ==
    ASSUME TypeOK, StoppedIsNoOrphan, [Next]_vars
    PROVE  StoppedIsNoOrphan'
<1>1. CASE UNCHANGED <<holder, stopped>>
  BY <1>1 DEF StoppedIsNoOrphan
<1>2. ASSUME NEW n \in Node, NEW t \in Session, TakeClaim(n, t)
      PROVE  StoppedIsNoOrphan'
  BY <1>2 DEF TakeClaim, TypeOK, StoppedIsNoOrphan
<1>3. ASSUME NEW n \in Node, NEW t \in Session, Released(n, t)
      PROVE  StoppedIsNoOrphan'
  <2>1. ASSUME NEW s \in stopped', s # t PROVE holder'[s] = NoNode
    BY <1>3, <2>1 DEF Released, TypeOK, StoppedIsNoOrphan
  <2>2. ASSUME t \in stopped' PROVE holder'[t] = NoNode
    BY <1>3, <2>2 DEF Released, HeldElsewhere, TypeOK, StoppedIsNoOrphan
  <2>. QED BY <2>1, <2>2 DEF StoppedIsNoOrphan
<1>4. ASSUME NEW n \in Node, ShutdownReleases(n)
      PROVE  StoppedIsNoOrphan'
  BY <1>4 DEF ShutdownReleases, TypeOK, StoppedIsNoOrphan, histVars
<1>5. CASE UNCHANGED vars
  BY <1>1, <1>5 DEF vars, rowVars, histVars
<1>. QED BY <1>1, <1>2, <1>3, <1>4, <1>5, WhoChangesHolder

\* After a stop the row names nobody until somebody claims it again, so that no
\* sweep reads it as an orphan.
THEOREM OwnershipStopped == Spec => []StoppedIsNoOrphan
<1>1. Init => StoppedIsNoOrphan
  BY DEF Init, StoppedIsNoOrphan
<1>. QED BY <1>1, StoppedStep, OwnershipTypeOK, PTL DEF Spec

-----------------------------------------------------------------------------
(* With ordered replies (Timely), an engine is covered by its claim and by *)
(* the heartbeat.                                                          *)

\* What keeps a session of a process safe, from the claim to the teardown: the
\* claim of a start() on its way is live; an engine has its claim unless it
\* lapsed under it; nothing runs while a release() is on its way; the heartbeat
\* looks after every engine, and never gives up a session that is starting.
ClaimIsLive(n, s) == start[n][s] \in {"claimed", "reserved"} => holder[s] = n /\ ~lapsed[s]
EngineIsClaimed(n, s) == s \in alive[n] /\ s \notin expired[n] => holder[s] = n
LapseIsNoted(n, s) ==
    holder[s] = n /\ lapsed[s] /\ (s \in alive[n] \/ start[n][s] # "idle") => s \in expired[n]
ReleaseIsQuiet(n, s) ==
    releasing[n][s] # "no" =>
        s \notin alive[n] /\ start[n][s] \notin {"claimed", "reserved", "opening"}
StartIsOwned(n, s) == start[n][s] = "reserved" => s \in owned[n]
EngineIsWatched(n, s) ==
    s \in alive[n] => s \in owned[n] \/ s \in losing[n] \/ stop[n][s] \in {"tearing", "leaving"}
LossIsReal(n, s) ==
    renewal[n].at = "decide" /\ s \in renewal[n].held => start[n][s] \notin {"claimed", "reserved"}

CoveredAt(n, s) ==
    /\ ClaimIsLive(n, s) /\ EngineIsClaimed(n, s) /\ LapseIsNoted(n, s)
    /\ ReleaseIsQuiet(n, s) /\ StartIsOwned(n, s) /\ EngineIsWatched(n, s)
    /\ LossIsReal(n, s)

\* A process that has given everything up to exit is excepted.
Covered == \A n \in Node : node[n] # "released" => \A s \in Session : CoveredAt(n, s)

\* A step that leaves the row and what a process knows of the session alone.
LEMMA UntouchedCovered ==
    ASSUME NEW n \in Node, NEW s \in Session, CoveredAt(n, s),
           holder'[s] = holder[s], lapsed'[s] = lapsed[s],
           start'[n][s] = start[n][s], stop'[n][s] = stop[n][s],
           releasing'[n][s] = releasing[n][s],
           s \in alive'[n] <=> s \in alive[n], s \in expired'[n] <=> s \in expired[n],
           s \in owned'[n] <=> s \in owned[n], s \in losing'[n] <=> s \in losing[n],
           renewal'[n] = renewal[n]
    PROVE  CoveredAt(n, s)'
BY DEF CoveredAt, ClaimIsLive, EngineIsClaimed, LapseIsNoted, ReleaseIsQuiet, StartIsOwned,
       EngineIsWatched, LossIsReal

\* An engine that leaves the registry takes its teardown with it.
LEMMA GoneCovered ==
    ASSUME TypeOK, NEW m \in Node, NEW t \in Session,
           \/ UNCHANGED <<alive, losing, stop>>
           \/ EngineGone(m, t) /\ stop' = StopAfterEngine(m, t),
           UNCHANGED <<holder, lapsed, owned, releasing, renewal, expired>>,
           NEW n \in Node, NEW s \in Session, CoveredAt(n, s),
           \/ start'[n][s] = start[n][s]
           \/ start[n][s] = "opening" /\ start'[n][s] \in {"idle", "retrying", "failing"}
    PROVE  CoveredAt(n, s)'
<1>1. \/ s \notin alive'[n]
      \/ /\ s \in alive'[n] <=> s \in alive[n]
         /\ s \in losing'[n] <=> s \in losing[n]
         /\ stop'[n][s] = stop[n][s]
  <2>0. alive \in [Node -> SUBSET Session] /\ losing \in [Node -> SUBSET Session]
        /\ stop \in [Node -> [Session -> StopAt]]
    BY DEF TypeOK
  <2>1. CASE n = m /\ s = t /\ EngineGone(m, t)
    BY <2>0, <2>1 DEF EngineGone
  <2>2. CASE ~(n = m /\ s = t) /\ EngineGone(m, t) /\ stop' = StopAfterEngine(m, t)
    <3>1. (s \in alive'[n] <=> s \in alive[n]) /\ (s \in losing'[n] <=> s \in losing[n])
      BY <2>0, <2>2 DEF EngineGone
    <3>2. stop'[n][s] = stop[n][s]
      BY <2>0, <2>2 DEF StopAfterEngine
    <3>. QED BY <3>1, <3>2
  <2>. QED BY <2>1, <2>2
<1>2. s \in alive'[n] => s \in alive[n]
  <2>1. alive \in [Node -> SUBSET Session]
    BY DEF TypeOK
  <2>2. CASE EngineGone(m, t)
    BY <2>1, <2>2 DEF EngineGone
  <2>. QED BY <2>2
<1>. QED BY <1>1, <1>2
      DEF CoveredAt, ClaimIsLive, EngineIsClaimed, LapseIsNoted, ReleaseIsQuiet, StartIsOwned,
          EngineIsWatched, LossIsReal

\* A release() begins where nothing runs.
LEMMA ReleaseCovered ==
    ASSUME TypeOK, Timely, NEW m \in Node, NEW t \in Session, NEW caller \in {"start", "stop"},
           ReleaseUnlessActive(m, t, caller) \/ UNCHANGED <<owned, releasing>>, Ready(m),
           UNCHANGED <<holder, lapsed, alive, losing, renewal, expired>>,
           NEW n \in Node, NEW s \in Session, CoveredAt(n, s),
           \/ start'[n][s] = start[n][s]
           \/ start[n][s] = "failing" /\ start'[n][s] = "idle",
           stop'[n][s] = stop[n][s] \/ stop[n][s] \in {"settling", "left"}
    PROVE  CoveredAt(n, s)'
<1>1. CASE ReleaseUnlessActive(m, t, caller) /\ ~Active(m, t) /\ n = m /\ s = t
  <2>1. s \notin alive[n] /\ start[n][s] \notin {"reserved", "opening", "claimed"}
    BY <1>1 DEF Active, Ready, ReplyPending
  <2>. QED BY <1>1, <2>1
        DEF CoveredAt, ClaimIsLive, EngineIsClaimed, LapseIsNoted, ReleaseIsQuiet, StartIsOwned,
            EngineIsWatched, LossIsReal
<1>2. CASE ~(ReleaseUnlessActive(m, t, caller) /\ ~Active(m, t) /\ n = m /\ s = t)
  <2>1. releasing'[n][s] = releasing[n][s] /\ (s \in owned'[n] <=> s \in owned[n])
    BY <1>2 DEF ReleaseUnlessActive, BeginRelease, TypeOK
  <2>. QED BY <2>1
        DEF CoveredAt, ClaimIsLive, EngineIsClaimed, LapseIsNoted, ReleaseIsQuiet, StartIsOwned,
            EngineIsWatched, LossIsReal
<1>. QED BY <1>1, <1>2

\* A claim, granted or not.
LEMMA ClaimCovered ==
    ASSUME TypeOK, Timely, Covered, NEW m \in Node, NEW t \in Session, Claim(m, t), Ready(m),
           start[m][t] \in {"idle", "retrying"},
           UNCHANGED <<node, owned, alive, stop, releasing, losing, renewal>>,
           NEW n \in Node, NEW s \in Session, node[n] # "released"
    PROVE  CoveredAt(n, s)'
<1>1. CoveredAt(n, s)
  BY DEF Covered
<1>2. /\ \A k \in Session : releasing[m][k] = "no" /\ start[m][k] # "claimed"
      /\ renewal[m].at # "decide"
  BY DEF Ready, ReplyPending
<1>3. CASE ~Claimable(m, t)
  <2>1. UNCHANGED <<holder, lapsed, expired>>
    BY <1>3 DEF Claim
  <2>2. CASE n = m /\ s = t
    <3>1. start'[n][s] = IF start[n][s] = "retrying" THEN "failing" ELSE "idle"
      BY <1>3, <2>2 DEF Claim, TypeOK
    <3>. QED BY <1>1, <2>1, <2>2, <3>1
          DEF CoveredAt, ClaimIsLive, EngineIsClaimed, LapseIsNoted, ReleaseIsQuiet, StartIsOwned,
              EngineIsWatched, LossIsReal
  <2>3. CASE ~(n = m /\ s = t)
    <3>1. start'[n][s] = start[n][s]
      BY <1>3, <2>3 DEF Claim, TypeOK
    <3>. QED BY <1>1, <2>1, <3>1, UntouchedCovered
  <2>. QED BY <2>2, <2>3
<1>4. CASE Claimable(m, t)
  <2>1. TakeClaim(m, t) /\ start' = [start EXCEPT ![m][t] = "claimed"]
    BY <1>4 DEF Claim
  <2>2. CASE s # t
    <3>1. /\ start'[n][s] = start[n][s] /\ holder'[s] = holder[s] /\ lapsed'[s] = lapsed[s]
          /\ s \in expired'[n] <=> s \in expired[n]
      BY <2>1, <2>2 DEF TakeClaim, TypeOK
    <3>. QED BY <1>1, <3>1, UntouchedCovered
  <2>3. CASE s = t /\ n = m
    <3>1. start'[n][s] = "claimed" /\ holder'[s] = n /\ ~lapsed'[s]
      BY <2>1, <2>3 DEF TakeClaim, TypeOK
    <3>. QED BY <1>1, <1>2, <2>3, <3>1
          DEF CoveredAt, ClaimIsLive, EngineIsClaimed, LapseIsNoted, ReleaseIsQuiet, StartIsOwned,
              EngineIsWatched, LossIsReal
  <2>4. CASE s = t /\ n # m
    <3>1. /\ start'[n][s] = start[n][s] /\ holder'[s] = m /\ ~lapsed'[s]
          /\ s \in expired'[n] <=> s \in expired[n]
      BY <2>1, <2>4 DEF TakeClaim, TypeOK
    <3>2. holder[s] # n \/ lapsed[s]
      BY <1>4, <2>4, OwnershipAssumption DEF Claimable
    <3>. QED BY <1>1, <2>4, <3>1, <3>2
          DEF CoveredAt, ClaimIsLive, EngineIsClaimed, LapseIsNoted, ReleaseIsQuiet, StartIsOwned,
              EngineIsWatched, LossIsReal
  <2>. QED BY <2>2, <2>3, <2>4
<1>. QED BY <1>3, <1>4

\* Every stage of a start() keeps every session covered.
LEMMA StartCovered ==
    ASSUME TypeOK, Timely, Covered, NEW m \in Node, NEW t \in Session, StartStep(m, t),
           NEW n \in Node, NEW s \in Session, node'[n] # "released"
    PROVE  CoveredAt(n, s)'
<1>1. UNCHANGED node
  BY DEF StartStep, StartRequested, StartFromList, ClaimReturned, StartAccepted, StartRefused,
         StartOpened, StartFails, StartRetried, StartGivesUp
<1>2. CoveredAt(n, s)
  BY <1>1 DEF Covered
<1>3. CASE StartRequested(m, t) \/ StartRetried(m, t)
  BY <1>1, <1>3, ClaimCovered DEF StartRequested, StartRetried, Serving
<1>4. CASE StartFromList(m, t)
  <2>1. CASE start[m][t] = "idle" /\ Claim(m, t)
    BY <1>1, <1>4, <2>1, ClaimCovered DEF StartFromList, Serving
  <2>2. CASE UNCHANGED <<holder, lapsed, expired, stopped, start>>
    BY <1>2, <1>4, <2>2, UntouchedCovered DEF StartFromList
  <2>. QED BY <1>4, <2>1, <2>2 DEF StartFromList
<1>5. CASE ClaimReturned(m, t)
  <2>1. UNCHANGED <<holder, lapsed, alive, stop, releasing, losing, renewal, expired>>
    BY <1>5 DEF ClaimReturned, rowVars, histVars
  <2>2. CASE n = m /\ s = t
    <3>1. start[n][s] = "claimed" /\ start'[n][s] = "reserved" /\ s \in owned'[n]
      BY <1>5, <2>2 DEF ClaimReturned, TypeOK
    <3>. QED BY <1>2, <2>1, <3>1
          DEF CoveredAt, ClaimIsLive, EngineIsClaimed, LapseIsNoted, ReleaseIsQuiet, StartIsOwned,
              EngineIsWatched, LossIsReal
  <2>3. CASE ~(n = m /\ s = t)
    <3>1. start'[n][s] = start[n][s] /\ (s \in owned'[n] <=> s \in owned[n])
      BY <1>5, <2>3 DEF ClaimReturned, TypeOK
    <3>. QED BY <1>2, <2>1, <3>1, UntouchedCovered
  <2>. QED BY <2>2, <2>3
<1>6. CASE StartAccepted(m, t)
  <2>1. UNCHANGED <<holder, lapsed, owned, stop, releasing, losing, renewal, expired>>
    BY <1>6 DEF StartAccepted, histVars
  <2>2. CASE n = m /\ s = t
    <3>1. start[n][s] = "reserved" /\ start'[n][s] = "opening" /\ releasing[n][s] = "no"
      BY <1>6, <2>2 DEF StartAccepted, TypeOK, Ready, ReplyPending
    <3>. QED BY <1>2, <2>1, <3>1
          DEF CoveredAt, ClaimIsLive, EngineIsClaimed, LapseIsNoted, ReleaseIsQuiet, StartIsOwned,
              EngineIsWatched, LossIsReal
  <2>3. CASE ~(n = m /\ s = t)
    <3>1. start'[n][s] = start[n][s] /\ (s \in alive'[n] <=> s \in alive[n])
      BY <1>6, <2>3 DEF StartAccepted, TypeOK
    <3>. QED BY <1>2, <2>1, <3>1, UntouchedCovered
  <2>. QED BY <2>2, <2>3
<1>7. CASE StartRefused(m, t)
  <2>1. UNCHANGED <<holder, lapsed, owned, alive, stop, releasing, losing, renewal, expired>>
    BY <1>7 DEF StartRefused, rowVars, histVars
  <2>2. start'[n][s] = start[n][s] \/ (start[n][s] = "reserved" /\ start'[n][s] = "failing")
    BY <1>7 DEF StartRefused, TypeOK
  <2>. QED BY <1>2, <2>1, <2>2
          DEF CoveredAt, ClaimIsLive, EngineIsClaimed, LapseIsNoted, ReleaseIsQuiet, StartIsOwned,
              EngineIsWatched, LossIsReal
<1>8. CASE StartOpened(m, t) \/ StartFails(m, t)
  <2>1. UNCHANGED <<holder, lapsed, owned, releasing, renewal, expired>>
    BY <1>8 DEF StartOpened, StartFails, rowVars, histVars
  <2>2. start'[n][s] = start[n][s] \/ (start[n][s] = "opening" /\ start'[n][s] \in {"idle", "retrying", "failing"})
    <3>1. PICK at \in {"idle", "retrying", "failing"} : start' = [start EXCEPT ![m][t] = at]
      BY <1>8 DEF StartOpened, StartFails
    <3>2. start[m][t] = "opening" /\ start \in [Node -> [Session -> StartAt]]
      BY <1>8 DEF StartOpened, StartFails, TypeOK
    <3>. QED BY <3>1, <3>2
  <2>3. \/ UNCHANGED <<alive, losing, stop>>
        \/ EngineGone(m, t) /\ stop' = StopAfterEngine(m, t)
    BY <1>8 DEF StartOpened, StartFails
  <2>. QED BY <1>2, <2>1, <2>2, <2>3, GoneCovered
<1>9. CASE StartGivesUp(m, t)
  <2>1. UNCHANGED <<holder, lapsed, alive, stop, losing, renewal, expired>>
    BY <1>9 DEF StartGivesUp, rowVars, histVars
  <2>2. start'[n][s] = start[n][s] \/ (start[n][s] = "failing" /\ start'[n][s] = "idle")
    BY <1>9 DEF StartGivesUp, TypeOK
  <2>. QED BY <1>2, <1>9, <2>1, <2>2, ReleaseCovered DEF StartGivesUp
<1>. QED
  BY <1>3, <1>4, <1>5, <1>6, <1>7, <1>8, <1>9 DEF StartStep

\* Every stage of a stop(), logout() or release() keeps every session covered.
LEMMA StopCovered ==
    ASSUME TypeOK, Timely, Covered, NEW m \in Node, NEW t \in Session, StopStep(m, t),
           NEW n \in Node, NEW s \in Session, node'[n] # "released"
    PROVE  CoveredAt(n, s)'
<1>1. UNCHANGED node
  BY DEF StopStep, StopRequested, StopFenced, LogoutRequested, LogoutRefused, StopTornDown,
         StopReturns, LogoutReturns, Released
<1>2. CoveredAt(n, s)
  BY <1>1 DEF Covered
<1>3. stop \in [Node -> [Session -> StopAt]]
  BY DEF TypeOK
<1>4. CASE StopRequested(m, t) \/ StopFenced(m, t) \/ LogoutRequested(m, t)
  <2>1. UNCHANGED <<holder, lapsed, owned, alive, start, releasing, losing, renewal, expired>>
    BY <1>4 DEF StopRequested, StopFenced, LogoutRequested, rowVars, histVars
  <2>2. stop[m][t] \in {"idle", "fencing"} /\ \E at : stop' = [stop EXCEPT ![m][t] = at]
    BY <1>4 DEF StopRequested, StopFenced, LogoutRequested
  <2>3. stop'[n][s] = stop[n][s] \/ stop[n][s] \in {"idle", "fencing"}
    BY <1>3, <2>2
  <2>. QED BY <1>2, <2>1, <2>3
        DEF CoveredAt, ClaimIsLive, EngineIsClaimed, LapseIsNoted, ReleaseIsQuiet, StartIsOwned,
            EngineIsWatched, LossIsReal
<1>5. CASE StopTornDown(m, t)
  BY <1>2, <1>5, GoneCovered DEF StopTornDown, rowVars, histVars
<1>6. CASE StopReturns(m, t) \/ LogoutReturns(m, t)
  <2>1. UNCHANGED <<holder, lapsed, alive, start, losing, renewal, expired>>
    BY <1>6 DEF StopReturns, LogoutReturns, histVars
  <2>2. stop[m][t] \in {"settling", "left"} /\ stop' = [stop EXCEPT ![m][t] = "idle"]
    BY <1>6 DEF StopReturns, LogoutReturns
  <2>3. stop'[n][s] = stop[n][s] \/ stop[n][s] \in {"settling", "left"}
    BY <1>3, <2>2
  <2>4. Ready(m) /\ (ReleaseUnlessActive(m, t, "stop") \/ UNCHANGED <<owned, releasing>>)
    BY <1>6 DEF StopReturns, LogoutReturns
  <2>. QED BY <1>2, <2>1, <2>3, <2>4, ReleaseCovered
<1>7. CASE Released(m, t)
  <2>1. UNCHANGED <<owned, alive, start, stop, losing, renewal, expired>>
    BY <1>7 DEF Released
  <2>2. CASE n = m /\ s = t
    <3>1. releasing[n][s] # "no" /\ releasing'[n][s] = "no"
      BY <1>7, <2>2 DEF Released, TypeOK
    <3>2. start[n][s] \notin {"claimed", "reserved"} /\ s \notin alive[n]
      BY <1>2, <3>1 DEF CoveredAt, ReleaseIsQuiet
    <3>3. lapsed'[s] => lapsed[s] /\ holder'[s] = holder[s]
      BY <1>7, <2>2 DEF Released, TypeOK
    <3>. QED BY <1>2, <2>1, <3>1, <3>2, <3>3
          DEF CoveredAt, ClaimIsLive, EngineIsClaimed, LapseIsNoted, ReleaseIsQuiet, StartIsOwned,
              EngineIsWatched, LossIsReal
  <2>3. CASE s # t
    <3>1. /\ releasing'[n][s] = releasing[n][s]
          /\ holder'[s] = holder[s] /\ lapsed'[s] = lapsed[s]
      BY <1>7, <2>3 DEF Released, TypeOK
    <3>. QED BY <1>2, <2>1, <3>1, UntouchedCovered
  <2>4. CASE s = t /\ n # m
    <3>1. releasing'[n][s] = releasing[n][s]
      BY <1>7, <2>4 DEF Released, TypeOK
    <3>2. \/ holder'[s] = holder[s] /\ lapsed'[s] = lapsed[s]
          \/ /\ holder[s] # n \/ lapsed[s]
             /\ holder'[s] = NoNode /\ ~lapsed'[s]
      BY <1>7, <2>4 DEF Released, TypeOK
    <3>3. NoNode # n
      BY OwnershipAssumption
    <3>. QED BY <1>2, <2>1, <3>1, <3>2, <3>3
          DEF CoveredAt, ClaimIsLive, EngineIsClaimed, LapseIsNoted, ReleaseIsQuiet, StartIsOwned,
              EngineIsWatched, LossIsReal
  <2>. QED BY <2>2, <2>3, <2>4
<1>8. CASE LogoutRefused(m, t)
  <2>1. Ready(m) /\ UNCHANGED <<holder, lapsed, alive, start, stop, losing, renewal, expired>>
    BY <1>8 DEF LogoutRefused, Serving, rowVars
  <2>. QED BY <1>2, <1>8, <2>1, ReleaseCovered DEF LogoutRefused
<1>. QED
  BY <1>4, <1>5, <1>6, <1>7, <1>8 DEF StopStep

\* Nothing an engine reports, nor its teardown, uncovers a session.
LEMMA EngineCovered ==
    ASSUME TypeOK, Covered, NEW m \in Node, NEW t \in Session,
           EngineStep(m, t) \/ LossTornDown(m, t),
           NEW n \in Node, NEW s \in Session, node'[n] # "released"
    PROVE  CoveredAt(n, s)'
<1>1. UNCHANGED <<holder, lapsed, node, owned, start, releasing, renewal, expired>>
  BY DEF EngineStep, EngineReady, EngineAsksQr, EngineDrops, EngineFails, LossTornDown, rowVars,
         procVars, histVars
<1>2. CoveredAt(n, s)
  BY <1>1 DEF Covered
<1>3. \/ UNCHANGED <<alive, losing, stop>>
      \/ EngineGone(m, t) /\ stop' = StopAfterEngine(m, t)
  BY DEF EngineStep, EngineReady, EngineAsksQr, EngineDrops, EngineFails, LossTornDown, procVars
<1>. QED BY <1>1, <1>2, <1>3, GoneCovered

\* No stage of a heartbeat uncovers a session: it gives up only what a row says
\* is somebody else's, and no start() has claimed since.
LEMMA RenewCovered ==
    ASSUME TypeOK, Timely, Covered, NEW m \in Node, RenewStep(m),
           NEW n \in Node, NEW s \in Session, node'[n] # "released"
    PROVE  CoveredAt(n, s)'
<1>1. UNCHANGED <<node, holder, alive, start, stop, releasing, expired>>
  BY DEF RenewStep, RenewBegins, RenewUpdates, RenewSelects, RenewFails, RenewDecides, rowVars,
         histVars
<1>2. CoveredAt(n, s)
  BY <1>1 DEF Covered
<1>3. /\ renewal \in [Node -> [at : {"idle", "update", "select", "decide"},
                            held : SUBSET Session, live : SUBSET Session]]
      /\ owned \in [Node -> SUBSET Session] /\ losing \in [Node -> SUBSET Session]
      /\ lapsed \in [Session -> BOOLEAN]
  BY DEF TypeOK
<1>4. CASE RenewBegins(m) \/ RenewFails(m)
  <2>1. UNCHANGED <<lapsed, owned, losing>>
    BY <1>4 DEF RenewBegins, RenewFails, rowVars
  <2>2. renewal'[n] = renewal[n] \/ renewal'[n].at # "decide"
    BY <1>3, <1>4 DEF RenewBegins, RenewFails, Idle
  <2>. QED BY <1>1, <1>2, <2>1, <2>2
        DEF CoveredAt, ClaimIsLive, EngineIsClaimed, LapseIsNoted, ReleaseIsQuiet, StartIsOwned,
            EngineIsWatched, LossIsReal
<1>5. CASE RenewUpdates(m)
  <2>1. UNCHANGED <<owned, losing>> /\ (lapsed'[s] => lapsed[s])
    BY <1>5 DEF RenewUpdates
  <2>2. renewal'[n] = renewal[n] \/ renewal'[n].at # "decide"
    BY <1>3, <1>5 DEF RenewUpdates
  <2>. QED BY <1>1, <1>2, <2>1, <2>2
        DEF CoveredAt, ClaimIsLive, EngineIsClaimed, LapseIsNoted, ReleaseIsQuiet, StartIsOwned,
            EngineIsWatched, LossIsReal
<1>6. CASE RenewSelects(m)
  <2>1. UNCHANGED <<lapsed, owned, losing>>
    BY <1>6 DEF RenewSelects, rowVars
  <2>2. \/ renewal'[n] = renewal[n] \/ renewal'[n].at # "decide"
        \/ \A k \in renewal'[n].held : holder[k] # n
    BY <1>3, <1>6 DEF RenewSelects, Idle
  <2>. QED BY <1>1, <1>2, <2>1, <2>2
        DEF CoveredAt, ClaimIsLive, EngineIsClaimed, LapseIsNoted, ReleaseIsQuiet, StartIsOwned,
            EngineIsWatched, LossIsReal
<1>7. CASE RenewDecides(m)
  <2>1. UNCHANGED lapsed
    BY <1>7 DEF RenewDecides, rowVars
  <2>2. CASE n = m
    <3>1. renewal[n].at = "decide" /\ renewal'[n].at # "decide"
      BY <1>3, <1>7, <2>2 DEF RenewDecides, Idle
    <3>2. /\ owned'[n] = owned[n] \ renewal[n].held
          /\ losing'[n] = losing[n] \cup (renewal[n].held \cap alive[n])
      BY <1>3, <1>7, <2>2 DEF RenewDecides
    <3>. QED BY <1>1, <1>2, <2>1, <3>1, <3>2
          DEF CoveredAt, ClaimIsLive, EngineIsClaimed, LapseIsNoted, ReleaseIsQuiet, StartIsOwned,
              EngineIsWatched, LossIsReal
  <2>3. CASE n # m
    <3>1. owned'[n] = owned[n] /\ losing'[n] = losing[n] /\ renewal'[n] = renewal[n]
      BY <1>3, <1>7, <2>3 DEF RenewDecides
    <3>. QED BY <1>1, <1>2, <2>1, <3>1, UntouchedCovered
  <2>. QED BY <2>2, <2>3
<1>. QED
  BY <1>4, <1>5, <1>6, <1>7 DEF RenewStep

\* A process that forgets everything has nothing to cover.
LEMMA ForgetCovered ==
    ASSUME TypeOK, NEW m \in Node, Forget(m), UNCHANGED rowVars,
           NEW n \in Node, NEW s \in Session, n # m => CoveredAt(n, s)
    PROVE  CoveredAt(n, s)'
<1>1. UNCHANGED <<holder, lapsed>>
  BY DEF rowVars
<1>2. CASE n = m
  <2>1. /\ alive'[n] = {} /\ start'[n][s] = "idle" /\ releasing'[n][s] = "no"
        /\ renewal'[n].at = "idle"
    BY <1>2 DEF Forget, TypeOK, Idle
  <2>. QED BY <1>1, <2>1
        DEF CoveredAt, ClaimIsLive, EngineIsClaimed, LapseIsNoted, ReleaseIsQuiet, StartIsOwned,
            EngineIsWatched, LossIsReal
<1>3. CASE n # m
  <2>1. /\ alive'[n] = alive[n] /\ start'[n] = start[n] /\ releasing'[n] = releasing[n]
        /\ renewal'[n] = renewal[n] /\ owned'[n] = owned[n] /\ losing'[n] = losing[n]
        /\ stop'[n] = stop[n] /\ expired'[n] = expired[n]
    BY <1>3 DEF Forget, TypeOK
  <2>. QED BY <1>1, <1>3, <2>1, UntouchedCovered
<1>. QED BY <1>2, <1>3

\* No outage, shutdown or restart, nor the sweep, uncovers a session.
LEMMA LifeCovered ==
    ASSUME TypeOK, Timely, Covered, NEW m \in Node, LifeStep(m),
           NEW n \in Node, NEW s \in Session, node'[n] # "released"
    PROVE  CoveredAt(n, s)'
<1>1. node \in [Node -> {"up", "draining", "closing", "closed", "released", "down"}]
  BY DEF TypeOK
<1>2. n # m => node'[n] = node[n]
  BY <1>1 DEF LifeStep, SweepScans, Crash, ShutdownBegins, ShutdownEngines, ShutdownClears,
              ShutdownReleases, Exit, Boot
<1>3. CASE Crash(m) \/ Exit(m)
  BY <1>2, <1>3, ForgetCovered DEF Covered, Crash, Exit
<1>4. CASE SweepScans(m) \/ ShutdownBegins(m) \/ Boot(m)
  <2>1. UNCHANGED <<holder, lapsed, owned, alive, start, stop, releasing, losing, renewal, expired>>
    BY <1>4 DEF SweepScans, ShutdownBegins, Boot, rowVars, histVars
  <2>2. node[n] # "released"
    BY <1>1, <1>2, <1>4 DEF SweepScans, ShutdownBegins, Boot
  <2>. QED BY <2>1, <2>2, UntouchedCovered DEF Covered
<1>5. CASE ShutdownEngines(m) \/ ShutdownClears(m)
  <2>1. UNCHANGED <<holder, lapsed, owned, start, releasing, renewal, expired>>
    BY <1>5 DEF ShutdownEngines, ShutdownClears, rowVars, histVars
  <2>2. CoveredAt(n, s)
    BY <1>1, <1>2, <1>5 DEF ShutdownEngines, ShutdownClears, Covered
  <2>3. \/ s \notin alive'[n]
        \/ /\ s \in alive'[n] <=> s \in alive[n]
           /\ s \in losing'[n] <=> s \in losing[n]
           /\ stop'[n][s] = stop[n][s]
    <3>1. CASE n # m
      <4>1. alive'[n] = alive[n] /\ losing'[n] = losing[n] /\ stop'[n] = stop[n]
        BY <1>5, <3>1 DEF ShutdownEngines, ShutdownClears, TypeOK
      <4>. QED BY <4>1
    <3>2. CASE n = m /\ ShutdownClears(m)
      BY <3>2 DEF ShutdownClears, TypeOK
    <3>3. CASE n = m /\ ShutdownEngines(m)
      <4>. DEFINE Cancels(waiting) ==
              /\ alive' = [alive EXCEPT ![m] = @ \ waiting]
              /\ losing' = [losing EXCEPT ![m] = @ \ waiting]
              /\ stop' = [stop EXCEPT ![m] = [r \in Session |->
                   IF r \in waiting THEN AfterEngine(stop[m][r]) ELSE stop[m][r]]]
      <4>0. \E waiting \in SUBSET alive[m] : Cancels(waiting)
        BY <3>3, ZenonT(30) DEF ShutdownEngines
      <4>1. PICK waiting \in SUBSET alive[m] : Cancels(waiting)
        BY <4>0
      <4>2. /\ alive'[n] = alive[n] \ waiting /\ losing'[n] = losing[n] \ waiting
            /\ s \notin waiting => stop'[n][s] = stop[n][s]
        BY <4>1, <3>3 DEF TypeOK
      <4>. QED BY <4>2
    <3>. QED BY <1>5, <3>1, <3>2, <3>3
  <2>4. s \in alive'[n] => s \in alive[n]
    <3>1. CASE ShutdownEngines(m)
      BY <3>1 DEF ShutdownEngines, TypeOK
    <3>2. CASE ShutdownClears(m)
      BY <3>2 DEF ShutdownClears, TypeOK
    <3>. QED BY <1>5, <3>1, <3>2
  <2>. QED BY <2>1, <2>2, <2>3, <2>4
        DEF CoveredAt, ClaimIsLive, EngineIsClaimed, LapseIsNoted, ReleaseIsQuiet, StartIsOwned,
            EngineIsWatched, LossIsReal
<1>6. CASE ShutdownReleases(m)
  <2>1. n # m /\ CoveredAt(n, s)
    BY <1>1, <1>2, <1>6 DEF ShutdownReleases, Covered
  <2>2. UNCHANGED <<alive, start, stop, releasing, losing, renewal, expired>> /\ owned'[n] = owned[n]
    BY <1>6, <2>1 DEF ShutdownReleases, TypeOK, histVars
  <2>3. \/ holder'[s] = holder[s] /\ lapsed'[s] = lapsed[s]
        \/ holder[s] = m /\ holder'[s] = NoNode /\ ~lapsed'[s]
    BY <1>6 DEF ShutdownReleases, TypeOK
  <2>4. NoNode # n
    BY OwnershipAssumption
  <2>. QED BY <2>1, <2>2, <2>3, <2>4
        DEF CoveredAt, ClaimIsLive, EngineIsClaimed, LapseIsNoted, ReleaseIsQuiet, StartIsOwned,
            EngineIsWatched, LossIsReal
<1>. QED
  BY <1>3, <1>4, <1>5, <1>6 DEF LifeStep

\* A lease that runs out is noted where a start() or an engine relied on it.
LEMMA LapseCovered ==
    ASSUME TypeOK, Timely, Covered, NEW t \in Session, Lapse(t),
           NEW n \in Node, NEW s \in Session, node'[n] # "released"
    PROVE  CoveredAt(n, s)'
<1>1. UNCHANGED <<holder, node, owned, alive, start, stop, releasing, losing, renewal>>
  BY DEF Lapse, procVars
<1>2. CoveredAt(n, s)
  BY <1>1 DEF Covered
<1>3. holder[t] \in Node
  BY DEF Lapse, TypeOK
<1>4. lapsed'[s] = (lapsed[s] \/ s = t)
  BY DEF Lapse, TypeOK
<1>5. CASE s = t /\ n = holder[t]
  <2>1. start[n][s] \notin {"claimed", "reserved"}
    BY <1>5 DEF Lapse, InTime
  <2>2. (s \in expired'[n]) = (s \in expired[n] \/ start[n][s] # "idle" \/ s \in alive[n])
    BY <1>5, <1>3 DEF Lapse, TypeOK
  <2>. QED BY <1>1, <1>2, <1>5, <2>1, <2>2
        DEF CoveredAt, ClaimIsLive, EngineIsClaimed, LapseIsNoted, ReleaseIsQuiet, StartIsOwned,
            EngineIsWatched, LossIsReal
<1>6. CASE ~(s = t /\ n = holder[t])
  <2>1. s \in expired'[n] <=> s \in expired[n]
    BY <1>3, <1>6 DEF Lapse, TypeOK
  <2>. QED BY <1>1, <1>2, <1>4, <1>6, <2>1
        DEF CoveredAt, ClaimIsLive, EngineIsClaimed, LapseIsNoted, ReleaseIsQuiet, StartIsOwned,
            EngineIsWatched, LossIsReal
<1>. QED BY <1>5, <1>6

\* Every step keeps every session covered.
LEMMA NextCovered ==
    ASSUME TypeOK, Timely, Covered, [Next]_vars
    PROVE  Covered'
<1> SUFFICES ASSUME NEW n \in Node, NEW s \in Session, node'[n] # "released"
             PROVE  CoveredAt(n, s)'
  BY DEF Covered
<1>1. CASE UNCHANGED vars
  BY <1>1, UntouchedCovered DEF vars, rowVars, procVars, histVars, Covered
<1>2. ASSUME Next PROVE CoveredAt(n, s)'
  BY <1>2, StartCovered, StopCovered, EngineCovered, RenewCovered, LifeCovered, LapseCovered
  DEF Next
<1>. QED BY <1>1, <1>2

\* The covering holds in every reachable state when replies keep their order.
LEMMA OwnershipCovered ==
    ASSUME Timely
    PROVE  Spec => []Covered
<1>1. Init => Covered
  BY DEF Init, Idle, Covered, CoveredAt, ClaimIsLive, EngineIsClaimed, LapseIsNoted,
         ReleaseIsQuiet, StartIsOwned, EngineIsWatched, LossIsReal
<1>2. TypeOK /\ Covered /\ [Next]_vars => Covered'
  BY NextCovered
<1>. QED BY <1>1, <1>2, OwnershipTypeOK, PTL DEF Spec

\* A running engine is looked after by its process's heartbeat or on its way
\* down, when the database's replies keep their order; through every outage,
\* and however often claims lapse.
THEOREM OwnershipWatched ==
    ASSUME Timely
    PROVE  Spec => []AliveIsWatched
<1>1. TypeOK /\ Covered => AliveIsWatched
  BY DEF TypeOK, Covered, CoveredAt, EngineIsWatched, AliveIsWatched
<1>. QED BY <1>1, OwnershipCovered, OwnershipTypeOK, PTL

\* Under the same order an engine runs on a row that names its process, unless
\* the claim lapsed under it: no stop(), start() or sweep takes it away.
THEOREM OwnershipClaimed ==
    ASSUME Timely
    PROVE  Spec => []EngineHasClaim
<1>1. TypeOK /\ Covered => EngineHasClaim
  BY DEF TypeOK, Covered, CoveredAt, EngineIsClaimed, EngineHasClaim
<1>. QED BY <1>1, OwnershipCovered, OwnershipTypeOK, PTL

\* So two processes hold one session open only after a lease lapsed under one
\* of them, however many crash, shut down and restart.
THEOREM OwnershipTwoEngines ==
    ASSUME Timely
    PROVE  Spec => []TwoEnginesOnlyAfterLapse
<1>1. EngineHasClaim => TwoEnginesOnlyAfterLapse
  BY DEF EngineHasClaim, TwoEnginesOnlyAfterLapse
<1>. QED BY <1>1, OwnershipClaimed, PTL

-----------------------------------------------------------------------------
(* With ordered replies, each session's claim is a lease in the sense of   *)
(* SessionLease, whatever the other sessions do.                           *)

\* The processes that run a session, but for those that have given everything
\* up to exit, and those whose claim of it lapsed since they took it.
Runs(s) == {n \in Node : node[n] # "released" /\ s \in alive[n]}
Overtaken(s) == {n \in Node : s \in expired[n]}

Lease(s) == INSTANCE SessionLease WITH
    holder <- holder[s], lapsed <- lapsed[s], using <- Runs(s), overtaken <- Overtaken(s)

\* A step that at most ends a session on one process, and leaves its row alone.
LEMMA CloseLease ==
    ASSUME NEW m \in Node, NEW s \in Session,
           holder'[s] = holder[s], lapsed'[s] = lapsed[s], Overtaken(s)' = Overtaken(s),
           Runs(s)' = Runs(s) \/ Runs(s)' = Runs(s) \ {m}
    PROVE  [Lease(s)!LeaseNext]_(Lease(s)!leaseVars)
<1>1. CASE Runs(s)' = Runs(s)
  BY <1>1 DEF Lease!leaseVars
<1>2. CASE Runs(s)' = Runs(s) \ {m}
  <2>1. Lease(s)!Close(m)
    BY <1>2 DEF Lease!Close
  <2>. QED BY <2>1 DEF Lease!LeaseNext
<1>. QED BY <1>1, <1>2

\* An engine that leaves the registry closes its session at most.
LEMMA GoneLease ==
    ASSUME TypeOK, NEW m \in Node, NEW t \in Session,
           \/ UNCHANGED alive
           \/ EngineGone(m, t),
           UNCHANGED <<holder, lapsed, expired, node>>, NEW s \in Session
    PROVE  [Lease(s)!LeaseNext]_(Lease(s)!leaseVars)
<1>1. Overtaken(s)' = Overtaken(s)
  BY DEF Overtaken
<1>2. Runs(s)' = Runs(s) \/ Runs(s)' = Runs(s) \ {m}
  <2>1. CASE UNCHANGED alive
    BY <2>1 DEF Runs
  <2>2. CASE EngineGone(m, t) /\ s # t
    BY <2>2 DEF Runs, EngineGone, TypeOK
  <2>3. CASE EngineGone(m, t) /\ s = t
    BY <2>3 DEF Runs, EngineGone, TypeOK
  <2>. QED BY <2>1, <2>2, <2>3
<1>. QED BY <1>1, <1>2, CloseLease

\* A claim takes the lease or changes nothing.
LEMMA ClaimLease ==
    ASSUME TypeOK, NEW m \in Node, NEW t \in Session, UNCHANGED <<node, alive>>,
           Claim(m, t) \/ UNCHANGED <<holder, lapsed, expired>>, NEW s \in Session
    PROVE  [Lease(s)!LeaseNext]_(Lease(s)!leaseVars)
<1>1. Runs(s)' = Runs(s)
  BY DEF Runs
<1>2. CASE UNCHANGED <<holder, lapsed, expired>>
  BY <1>1, <1>2, CloseLease DEF Overtaken
<1>3. CASE Claimable(m, t) /\ TakeClaim(m, t) /\ s = t
  <2>1. holder'[s] = m /\ lapsed'[s] = FALSE
    BY <1>3 DEF TakeClaim, TypeOK
  <2>2. Overtaken(s)' = Overtaken(s) \ {m}
    BY <1>3 DEF TakeClaim, TypeOK, Overtaken
  <2>3. Lease(s)!Take(m)
    BY <1>1, <1>3, <2>1, <2>2 DEF Lease!Take, Claimable
  <2>. QED BY <2>3 DEF Lease!LeaseNext
<1>4. CASE TakeClaim(m, t) /\ s # t
  <2>1. holder'[s] = holder[s] /\ lapsed'[s] = lapsed[s]
    BY <1>4 DEF TakeClaim, TypeOK
  <2>2. Overtaken(s)' = Overtaken(s)
    BY <1>4 DEF TakeClaim, TypeOK, Overtaken
  <2>. QED BY <1>1, <2>1, <2>2, CloseLease
<1>. QED BY <1>2, <1>3, <1>4 DEF Claim

\* A start() takes the lease, opens the session on a live one, or closes it.
LEMMA StartLease ==
    ASSUME TypeOK, Covered, NEW m \in Node, NEW t \in Session, StartStep(m, t), NEW s \in Session
    PROVE  [Lease(s)!LeaseNext]_(Lease(s)!leaseVars)
<1>1. CASE StartRequested(m, t) \/ StartFromList(m, t) \/ StartRetried(m, t)
  <2>1. Claim(m, t) \/ UNCHANGED <<holder, lapsed, expired>>
    BY <1>1 DEF StartRequested, StartFromList, StartRetried
  <2>2. UNCHANGED <<node, alive>>
    BY <1>1 DEF StartRequested, StartFromList, StartRetried
  <2>. QED BY <2>1, <2>2, ClaimLease
<1>2. CASE ClaimReturned(m, t) \/ StartRefused(m, t) \/ StartGivesUp(m, t)
  <2>1. UNCHANGED <<holder, lapsed, expired, node, alive>>
    BY <1>2 DEF ClaimReturned, StartRefused, StartGivesUp, rowVars, histVars
  <2>. QED BY <2>1, GoneLease
<1>3. CASE StartOpened(m, t) \/ StartFails(m, t)
  <2>1. UNCHANGED <<holder, lapsed, expired, node>>
    BY <1>3 DEF StartOpened, StartFails, rowVars, histVars
  <2>2. UNCHANGED alive \/ EngineGone(m, t)
    BY <1>3 DEF StartOpened, StartFails
  <2>. QED BY <2>1, <2>2, GoneLease
<1>4. CASE StartAccepted(m, t)
  <2>1. UNCHANGED <<holder, lapsed, node, expired>> /\ start[m][t] = "reserved"
    BY <1>4 DEF StartAccepted, histVars
  <2>2. Overtaken(s)' = Overtaken(s)
    BY <2>1 DEF Overtaken
  <2>3. CASE s # t \/ node[m] = "released"
    <3>1. Runs(s)' = Runs(s)
      BY <1>4, <2>1, <2>3 DEF StartAccepted, Runs, TypeOK
    <3>. QED BY <2>1, <2>2, <3>1, CloseLease
  <2>4. CASE s = t /\ node[m] # "released"
    <3>1. holder[s] = m /\ ~lapsed[s]
      BY <2>1, <2>4 DEF Covered, CoveredAt, ClaimIsLive
    <3>2. Runs(s)' = Runs(s) \cup {m}
      BY <1>4, <2>1, <2>4 DEF StartAccepted, Runs, TypeOK
    <3>3. Lease(s)!Open(m)
      BY <2>1, <2>2, <3>1, <3>2 DEF Lease!Open
    <3>. QED BY <3>3 DEF Lease!LeaseNext
  <2>. QED BY <2>3, <2>4
<1>. QED BY <1>1, <1>2, <1>3, <1>4 DEF StartStep

\* A stop() or logout() closes the session; a release() gives the lease up
\* where nothing runs, or clears one that has lapsed.
LEMMA StopLease ==
    ASSUME TypeOK, Covered, NEW m \in Node, NEW t \in Session, StopStep(m, t), NEW s \in Session
    PROVE  [Lease(s)!LeaseNext]_(Lease(s)!leaseVars)
<1>1. CASE \/ StopRequested(m, t) \/ StopFenced(m, t) \/ LogoutRequested(m, t)
           \/ LogoutRefused(m, t) \/ StopTornDown(m, t) \/ StopReturns(m, t)
           \/ LogoutReturns(m, t)
  <2>1. UNCHANGED <<holder, lapsed, expired, node>>
    BY <1>1 DEF StopRequested, StopFenced, LogoutRequested, LogoutRefused, StopTornDown,
                StopReturns, LogoutReturns, rowVars, histVars
  <2>2. UNCHANGED alive \/ EngineGone(m, t)
    BY <1>1 DEF StopRequested, StopFenced, LogoutRequested, LogoutRefused, StopTornDown,
                StopReturns, LogoutReturns
  <2>. QED BY <2>1, <2>2, GoneLease
<1>2. CASE Released(m, t)
  <2>1. Runs(s)' = Runs(s) /\ Overtaken(s)' = Overtaken(s)
    BY <1>2 DEF Released, Runs, Overtaken
  <2>2. CASE holder'[s] = holder[s] /\ lapsed'[s] = lapsed[s]
    BY <2>1, <2>2, CloseLease
  <2>3. CASE ~(holder'[s] = holder[s] /\ lapsed'[s] = lapsed[s])
    <3>1. /\ s = t /\ releasing[m][s] # "no"
          /\ holder[s] = m \/ lapsed[s]
          /\ holder'[s] = NoNode /\ lapsed'[s] = FALSE
      BY <1>2, <2>3 DEF Released, TypeOK
    <3>2. CASE holder[s] = m
      <4>1. m \notin Runs(s)
        BY <3>1 DEF Covered, CoveredAt, ReleaseIsQuiet, Runs
      <4>2. Lease(s)!GiveUp(m)
        BY <2>1, <3>1, <3>2, <4>1 DEF Lease!GiveUp
      <4>. QED BY <4>2 DEF Lease!LeaseNext
    <3>3. CASE holder[s] # m
      <4>1. Lease(s)!Clear
        BY <2>1, <3>1, <3>3 DEF Lease!Clear
      <4>. QED BY <4>1 DEF Lease!LeaseNext
    <3>. QED BY <3>2, <3>3
  <2>. QED BY <2>2, <2>3
<1>. QED BY <1>1, <1>2 DEF StopStep

\* What an engine reports, and the teardown of a lost one, close the session.
LEMMA EngineLease ==
    ASSUME TypeOK, NEW m \in Node, NEW t \in Session,
           EngineStep(m, t) \/ LossTornDown(m, t), NEW s \in Session
    PROVE  [Lease(s)!LeaseNext]_(Lease(s)!leaseVars)
<1>1. UNCHANGED <<holder, lapsed, expired, node>>
  BY DEF EngineStep, EngineReady, EngineAsksQr, EngineDrops, EngineFails, LossTornDown, rowVars,
         procVars, histVars
<1>2. UNCHANGED alive \/ EngineGone(m, t)
  BY DEF EngineStep, EngineReady, EngineAsksQr, EngineDrops, EngineFails, LossTornDown, procVars
<1>. QED BY <1>1, <1>2, GoneLease

\* A heartbeat renews leases its process holds, and touches no other.
LEMMA RenewLease ==
    ASSUME TypeOK, NEW m \in Node, RenewStep(m), NEW s \in Session
    PROVE  [Lease(s)!LeaseNext]_(Lease(s)!leaseVars)
<1>1. UNCHANGED <<holder, expired, node, alive>>
  BY DEF RenewStep, RenewBegins, RenewUpdates, RenewSelects, RenewFails, RenewDecides, rowVars,
         histVars
<1>2. Runs(s)' = Runs(s) /\ Overtaken(s)' = Overtaken(s)
  BY <1>1 DEF Runs, Overtaken
<1>3. \/ lapsed'[s] = lapsed[s]
      \/ holder[s] = m /\ lapsed'[s] = FALSE
  <2>1. CASE RenewUpdates(m)
    BY <2>1 DEF RenewUpdates, TypeOK
  <2>2. CASE UNCHANGED lapsed
    BY <2>2
  <2>. QED BY <2>1, <2>2 DEF RenewStep, RenewBegins, RenewSelects, RenewFails, RenewDecides,
                             rowVars
<1>4. CASE lapsed'[s] = lapsed[s]
  BY <1>1, <1>2, <1>4, CloseLease
<1>5. CASE holder[s] = m /\ lapsed'[s] = FALSE
  <2>1. Lease(s)!Renew(m)
    BY <1>1, <1>2, <1>5 DEF Lease!Renew
  <2>. QED BY <2>1 DEF Lease!LeaseNext
<1>. QED BY <1>3, <1>4, <1>5

\* A process that forgets everything dies to every lease.
LEMMA ForgetLease ==
    ASSUME TypeOK, NEW m \in Node, Forget(m), UNCHANGED rowVars,
           node' = [node EXCEPT ![m] = "down"], NEW s \in Session
    PROVE  [Lease(s)!LeaseNext]_(Lease(s)!leaseVars)
<1>1. Runs(s)' = Runs(s) \ {m} /\ Overtaken(s)' = Overtaken(s) \ {m}
  BY DEF Forget, Runs, Overtaken, TypeOK
<1>2. Lease(s)!Die(m)
  BY <1>1 DEF Lease!Die, rowVars
<1>. QED BY <1>2 DEF Lease!LeaseNext

\* A shutdown closes what it runs before it gives the leases up.
LEMMA LifeLease ==
    ASSUME TypeOK, NEW m \in Node, LifeStep(m), NEW s \in Session
    PROVE  [Lease(s)!LeaseNext]_(Lease(s)!leaseVars)
<1>1. CASE Crash(m) \/ Exit(m)
  BY <1>1, ForgetLease DEF Crash, Exit
<1>2. CASE SweepScans(m) \/ ShutdownBegins(m) \/ Boot(m)
  <2>1. UNCHANGED <<holder, lapsed, expired, alive>>
    BY <1>2 DEF SweepScans, ShutdownBegins, Boot, rowVars, histVars
  <2>2. \A n \in Node : node'[n] = "released" <=> node[n] = "released"
    BY <1>2 DEF SweepScans, ShutdownBegins, Boot, TypeOK
  <2>3. Runs(s)' = Runs(s) /\ Overtaken(s)' = Overtaken(s)
    BY <2>1, <2>2 DEF Runs, Overtaken
  <2>. QED BY <2>1, <2>3, CloseLease
<1>3. CASE ShutdownEngines(m) \/ ShutdownClears(m)
  <2>1. UNCHANGED <<holder, lapsed, expired>>
    BY <1>3 DEF ShutdownEngines, ShutdownClears, rowVars, histVars
  <2>2. \A n \in Node : node'[n] = "released" <=> node[n] = "released"
    BY <1>3 DEF ShutdownEngines, ShutdownClears, TypeOK
  <2>3. /\ \A n \in Node \ {m} : s \in alive'[n] <=> s \in alive[n]
        /\ s \in alive'[m] => s \in alive[m]
    <3>1. CASE ShutdownEngines(m)
      BY <3>1 DEF ShutdownEngines, TypeOK
    <3>2. CASE ShutdownClears(m)
      BY <3>2 DEF ShutdownClears, TypeOK
    <3>. QED BY <1>3, <3>1, <3>2
  <2>4. Runs(s)' = Runs(s) \/ Runs(s)' = Runs(s) \ {m}
    <3>1. CASE s \in alive'[m]
      BY <2>2, <2>3, <3>1 DEF Runs
    <3>2. CASE s \notin alive'[m]
      BY <2>2, <2>3, <3>2 DEF Runs
    <3>. QED BY <3>1, <3>2
  <2>. QED BY <2>1, <2>4, CloseLease DEF Overtaken
<1>4. CASE ShutdownReleases(m)
  <2>1. Overtaken(s)' = Overtaken(s)
    BY <1>4 DEF ShutdownReleases, Overtaken, histVars
  <2>2. Runs(s)' = Runs(s) \ {m}
    BY <1>4 DEF ShutdownReleases, Runs, TypeOK
  <2>3. CASE s \in owned[m] /\ holder[s] = m
    <3>1. Lease(s)!GiveUp(m)
      BY <1>4, <2>1, <2>2, <2>3 DEF ShutdownReleases, Lease!GiveUp
    <3>. QED BY <3>1 DEF Lease!LeaseNext
  <2>4. CASE ~(s \in owned[m] /\ holder[s] = m)
    <3>1. holder'[s] = holder[s] /\ lapsed'[s] = lapsed[s]
      BY <1>4, <2>4 DEF ShutdownReleases, TypeOK
    <3>. QED BY <2>1, <2>2, <3>1, CloseLease
  <2>. QED BY <2>3, <2>4
<1>. QED BY <1>1, <1>2, <1>3, <1>4 DEF LifeStep

\* A lease that runs out overtakes whoever runs the session on it.
LEMMA LapseLease ==
    ASSUME TypeOK, NEW t \in Session, Lapse(t), NEW s \in Session
    PROVE  [Lease(s)!LeaseNext]_(Lease(s)!leaseVars)
<1>1. UNCHANGED <<holder, node, alive>> /\ holder[t] \in Node
  BY DEF Lapse, procVars, TypeOK
<1>2. Runs(s)' = Runs(s)
  BY <1>1 DEF Runs
<1>3. CASE s # t
  <2>1. lapsed'[s] = lapsed[s]
    BY <1>3 DEF Lapse, TypeOK
  <2>2. Overtaken(s)' = Overtaken(s)
    BY <1>1, <1>3 DEF Lapse, Overtaken, TypeOK
  <2>. QED BY <1>1, <1>2, <2>1, <2>2, CloseLease
<1>4. CASE s = t
  <2>1. holder[s] # NoNode /\ ~lapsed[s] /\ lapsed'[s] = TRUE
    BY <1>4 DEF Lapse, TypeOK
  <2>2. \/ expired' = expired
        \/ expired' = [expired EXCEPT ![holder[s]] = @ \cup {s}]
    BY <1>4 DEF Lapse, TypeOK
  <2>3. Overtaken(s)' \in {Overtaken(s), Overtaken(s) \cup {holder[s]}}
    BY <1>1, <1>4, <2>2 DEF Overtaken, TypeOK
  <2>4. holder[s] \in Runs(s) => holder[s] \in Overtaken(s)'
    BY <1>1, <1>4 DEF Lapse, Runs, Overtaken, TypeOK
  <2>5. Lease(s)!Lapse
    BY <1>1, <1>2, <2>1, <2>3, <2>4 DEF Lease!Lapse
  <2>. QED BY <2>5 DEF Lease!LeaseNext
<1>. QED BY <1>3, <1>4

\* Every step of the processes is, to one session, a step of its lease or none.
LEMMA NextLease ==
    ASSUME TypeOK, Covered, [Next]_vars, NEW s \in Session
    PROVE  [Lease(s)!LeaseNext]_(Lease(s)!leaseVars)
<1>1. CASE UNCHANGED vars
  BY <1>1 DEF vars, rowVars, procVars, histVars, Lease!leaseVars, Runs, Overtaken
<1>2. ASSUME Next PROVE [Lease(s)!LeaseNext]_(Lease(s)!leaseVars)
  BY <1>2, StartLease, StopLease, EngineLease, RenewLease, LifeLease, LapseLease DEF Next
<1>. QED BY <1>1, <1>2

\* claim(), release(), renew() and the shutdown together implement a lease for
\* every session, when the database's replies keep their order: who runs the
\* session opened it on a live lease, and the lease changes hands only when its
\* holder has closed the session or was overtaken.
THEOREM OwnershipImplementsLease ==
    ASSUME Timely, NEW s \in Session
    PROVE  Spec => Lease(s)!LeaseSpec
<1>1. Init => Lease(s)!LeaseInit
  BY DEF Init, Lease!LeaseInit, Runs, Overtaken
<1>2. TypeOK /\ Covered /\ [Next]_vars => [Lease(s)!LeaseNext]_(Lease(s)!leaseVars)
  BY NextLease
<1>. QED BY <1>1, <1>2, OwnershipTypeOK, OwnershipCovered, PTL DEF Spec, Lease!LeaseSpec

\* What a lease promises: of two processes that run the session, one was
\* overtaken.  It rests on the abstract steps alone.
THEOREM LeaseExcludes ==
    ASSUME NEW s \in Session
    PROVE  Lease(s)!LeaseSpec => []Lease(s)!LeaseIsExclusive
<1> DEFINE Held ==
      /\ \A n \in Runs(s) : n # NoNode /\ (n = holder[s] \/ n \in Overtaken(s))
      /\ lapsed[s] /\ holder[s] \in Runs(s) => holder[s] \in Overtaken(s)
<1>1. Lease(s)!LeaseInit => Held
  BY DEF Lease!LeaseInit
<1>2. Held /\ [Lease(s)!LeaseNext]_(Lease(s)!leaseVars) => Held'
  <2> SUFFICES ASSUME Held, [Lease(s)!LeaseNext]_(Lease(s)!leaseVars) PROVE Held'
    OBVIOUS
  <2>0. NoNode \notin Node
    BY OwnershipAssumption
  <2>1. CASE UNCHANGED Lease(s)!leaseVars
    BY <2>1 DEF Lease!leaseVars
  <2>2. ASSUME NEW n \in Node, Lease(s)!Take(n)
        PROVE  Held'
    <3>1. /\ holder[s] \in {NoNode, n} \/ lapsed[s]
          /\ holder'[s] = n /\ lapsed'[s] = FALSE
          /\ Runs(s)' = Runs(s) /\ Overtaken(s)' = Overtaken(s) \ {n}
      BY <2>2 DEF Lease!Take
    <3>2. ASSUME NEW k \in Runs(s) PROVE k # NoNode /\ (k = n \/ k \in Overtaken(s) \ {n})
      BY <3>1, <3>2
    <3>. QED BY <3>1, <3>2
  <2>5. ASSUME NEW n \in Node, Lease(s)!Open(n) \/ Lease(s)!Close(n)
        PROVE  Held'
    BY <2>0, <2>5 DEF Lease!Open, Lease!Close
  <2>3. ASSUME NEW n \in Node, Lease(s)!Renew(n) \/ Lease(s)!GiveUp(n) \/ Lease(s)!Die(n)
        PROVE  Held'
    BY <2>3 DEF Lease!Renew, Lease!GiveUp, Lease!Die
  <2>4. CASE Lease(s)!Clear \/ Lease(s)!Lapse
    BY <2>4 DEF Lease!Clear, Lease!Lapse
  <2>. QED BY <2>1, <2>2, <2>3, <2>4, <2>5 DEF Lease!LeaseNext
<1>3. Held => Lease(s)!LeaseIsExclusive
  BY DEF Lease!LeaseIsExclusive
<1>. QED BY <1>1, <1>2, <1>3, PTL DEF Lease!LeaseSpec
=============================================================================
