----------------------- MODULE SessionLifecycle_proofs -----------------------
(***************************************************************************)
(* Proofs about SessionLifecycle, for any number of engines, reconnect     *)
(* attempts, calls and faults.  First what every handler does, field by    *)
(* field; then the inductive invariant, part by part; then the theorems.   *)
(***************************************************************************)
EXTENDS SessionLifecycle, TLAPS

-----------------------------------------------------------------------------
(* How the effects of handlers are stated.                                 *)

\* A memory and the fields the proofs read.  (The engines and the status are
\* stated beside it.)
Now(n, registry, mark, recon, writing, dying) ==
    /\ n \in Memory
    /\ n.registry = registry /\ n.mark = mark /\ n.recon = recon
    /\ n.writing = writing /\ n.dying = dying

\* Engine e changes its state; a teardown of e begins.
Becomes(n, m, e, st) == \A f \in Engine : n.eng[f] = IF f = e THEN st ELSE m.eng[f]
Latched(n, m, e) == \A f \in Engine : n.eng[f] = IF f = e THEN Latch(m.eng[f]) ELSE m.eng[f]

\* The status stays, or says that nothing runs.
Lowered(n, m) == n.status \in {m.status, "DISCONNECTED", "FAILED"}

\* What one launch, or one request, has come to; the others are left alone.
LaunchAs(l, at, eng, victim, waits) ==
    /\ launch' \in [Launcher -> LaunchRecord]
    /\ launch'[l].at = at /\ launch'[l].eng = eng
    /\ launch'[l].victim = victim /\ launch'[l].waits = waits
    /\ \A k \in Launcher : k # l => launch'[k] = launch[k]
RequestAs(q, at, kind, eng, waits) ==
    /\ request' \in [Request -> RequestRecord]
    /\ request'[q].at = at /\ request'[q].kind = kind
    /\ request'[q].eng = eng /\ request'[q].waits = waits
    /\ \A r \in Request : r # q => request'[r] = request[r]

USE DEF Now, Becomes, Latched, Lowered, LaunchAs, RequestAs

-----------------------------------------------------------------------------
(* What synchronous code does to the memory.                               *)

\* The types of a memory's fields.
LEMMA MemoryFields ==
    ASSUME NEW m \in Memory
    PROVE  /\ m.registry \in Engine \cup {NoEngine} /\ m.mark \in BOOLEAN /\ m.recon \in Recon
           /\ m.writing \in Engine \cup {NoEngine} /\ m.dying \in SUBSET Engine
           /\ m.eng \in [Engine -> EngineStates] /\ m.status \in Statuses
           /\ Now(m, m.registry, m.mark, m.recon, m.writing, m.dying)
BY DEF Memory

\* A status write changes nothing else.
LEMMA ReportDoes ==
    ASSUME NEW m \in Memory, NEW s \in Statuses
    PROVE  LET x == Report(m, s)
           IN  /\ Now(x, m.registry, m.mark, m.recon, m.writing, m.dying) /\ x.eng = m.eng
               /\ x.status = IF row THEN s ELSE m.status
BY DEF Memory, Report

\* An engine changes its state.
LEMMA EngDoes ==
    ASSUME NEW m \in Memory, NEW e \in Engine, NEW st \in EngineStates
    PROVE  LET x == [m EXCEPT !.eng[e] = st]
           IN  /\ Now(x, m.registry, m.mark, m.recon, m.writing, m.dying)
               /\ Becomes(x, m, e, st) /\ x.status = m.status
<1>1. m.eng \in [Engine -> EngineStates]
  BY MemoryFields
<1>2. [m.eng EXCEPT ![e] = st] \in [Engine -> EngineStates]
  BY <1>1
<1>3. [m EXCEPT !.eng[e] = st] = [m EXCEPT !.eng = [m.eng EXCEPT ![e] = st]]
  OBVIOUS
<1>. QED BY <1>1, <1>2, <1>3 DEF Memory

\* The end of a teardown.
LEMMA GoneDoes ==
    ASSUME NEW m \in Memory, NEW e \in Engine
    PROVE  LET x == Gone(m, e)
           IN  /\ Now(x, m.registry, m.mark, m.recon, m.writing, m.dying)
               /\ Becomes(x, m, e, "gone") /\ x.status = m.status
BY EngDoes DEF Gone, EngineStates

\* The beginning of one.
LEMMA ShutDoes ==
    ASSUME NEW m \in Memory, NEW e \in Engine
    PROVE  LET x == Shut(m, e)
           IN  /\ Now(x, m.registry, m.mark, m.recon, m.writing, m.dying)
               /\ Latched(x, m, e) /\ Lowered(x, m)
<1> DEFINE st == Latch(m.eng[e])
           closed == [m EXCEPT !.eng[e] = st]
<1>1. st \in EngineStates
  BY DEF Latch, EngineStates
<1>2. Shut(m, e) \in {closed, Report(closed, "DISCONNECTED")}
  BY DEF Shut
<1>3. \A f \in Engine : (IF f = e THEN st ELSE m.eng[f]) = IF f = e THEN Latch(m.eng[f]) ELSE m.eng[f]
  OBVIOUS
<1> HIDE DEF st
<1>4. /\ Now(closed, m.registry, m.mark, m.recon, m.writing, m.dying)
      /\ Latched(closed, m, e) /\ closed.status = m.status
  BY <1>1, <1>3, EngDoes
<1> HIDE DEF closed
<1>. QED BY <1>2, <1>4, ReportDoes DEF Statuses

\* The registry forgets an engine.
LEMMA DeleteIfLiveDoes ==
    ASSUME NEW m \in Memory, NEW e \in Engine
    PROVE  LET x == DeleteIfLive(m, e)
               reg == IF m.registry = e THEN NoEngine ELSE m.registry
           IN  /\ Now(x, reg, m.mark, m.recon, m.writing, m.dying)
               /\ x.eng = m.eng /\ x.status = m.status
BY DEF Memory, DeleteIfLive

\* The registry is emptied.
LEMMA EmptiedDoes ==
    ASSUME NEW m \in Memory
    PROVE  LET x == [m EXCEPT !.registry = NoEngine]
           IN  /\ Now(x, NoEngine, m.mark, m.recon, m.writing, m.dying)
               /\ x.eng = m.eng /\ x.status = m.status
BY DEF Memory

\* The reconnect state is dropped.
LEMMA CancelDoes ==
    ASSUME NEW m \in Memory
    PROVE  LET x == CancelReconnect(m)
           IN  /\ Now(x, m.registry, m.mark, NoRecon, m.writing, m.dying)
               /\ x.eng = m.eng /\ x.status = m.status
<1>1. NoRecon \in Recon
  BY LifecycleAssumption DEF NoRecon, Recon
<1>. QED BY <1>1 DEF Memory, CancelReconnect

\* The stop mark is set or taken back.
LEMMA MarkDoes ==
    ASSUME NEW m \in Memory, NEW b \in BOOLEAN
    PROVE  LET x == [m EXCEPT !.mark = b]
           IN  /\ Now(x, m.registry, b, m.recon, m.writing, m.dying)
               /\ x.eng = m.eng /\ x.status = m.status
BY DEF Memory

\* The INITIALIZING write is no longer pending.
LEMMA WrittenDoes ==
    ASSUME NEW m \in Memory, NEW w \in Engine \cup {NoEngine}
    PROVE  LET x == [m EXCEPT !.writing = w]
           IN  /\ Now(x, m.registry, m.mark, m.recon, w, m.dying)
               /\ x.eng = m.eng /\ x.status = m.status
BY DEF Memory

\* An engine's kill is left to itself, or lands.
LEMMA DyingDoes ==
    ASSUME NEW m \in Memory, NEW D \in SUBSET Engine
    PROVE  LET x == [m EXCEPT !.dying = D]
           IN  /\ Now(x, m.registry, m.mark, m.recon, m.writing, D)
               /\ x.eng = m.eng /\ x.status = m.status
BY DEF Memory

\* evictAndForceDestroy(): out of the registry, and dying.
LEMMA EvictDoes ==
    ASSUME NEW m \in Memory, NEW e \in Engine
    PROVE  LET x == Evict(m, e)
           IN  /\ Now(x, NoEngine, m.mark, m.recon, m.writing, m.dying \cup {e})
               /\ Latched(x, m, e) /\ Lowered(x, m)
<1> DEFINE x == [m EXCEPT !.registry = NoEngine]
           y == Shut(x, e)
<1>1. /\ Now(x, NoEngine, m.mark, m.recon, m.writing, m.dying)
      /\ x.eng = m.eng /\ x.status = m.status
  BY EmptiedDoes
<1> HIDE DEF x
<1>2. /\ Now(y, NoEngine, m.mark, m.recon, m.writing, m.dying)
      /\ Latched(y, m, e) /\ Lowered(y, m)
  BY <1>1, ShutDoes
<1>3. Evict(m, e) = [y EXCEPT !.dying = m.dying \cup {e}]
  BY <1>2 DEF Evict, x
<1> HIDE DEF y
<1>4. m.dying \cup {e} \in SUBSET Engine
  BY MemoryFields
<1>. QED BY <1>2, <1>3, <1>4, DyingDoes

\* The registered engine is evicted, if there is one.
LEMMA EvictRegisteredDoes ==
    ASSUME NEW m \in Memory
    PROVE  LET x == EvictRegistered(m)
           IN  /\ Now(x, NoEngine, m.mark, m.recon, m.writing, (m.dying \cup {m.registry}) \ {NoEngine})
               /\ Latched(x, m, m.registry) /\ Lowered(x, m)
<1>1. NoEngine \notin Engine /\ m.dying \in SUBSET Engine /\ m.registry \in Engine \cup {NoEngine}
  BY LifecycleAssumption, MemoryFields
<1>2. CASE m.registry = NoEngine
  <2>1. EvictRegistered(m) = m
    BY <1>2 DEF EvictRegistered
  <2>. QED BY <1>1, <1>2, <2>1
<1>3. CASE m.registry # NoEngine
  <2>1. EvictRegistered(m) = Evict(m, m.registry)
    BY <1>3 DEF EvictRegistered
  <2>2. m.registry \in Engine
    BY <1>1, <1>3
  <2>. QED BY <1>1, <2>1, <2>2, EvictDoes
<1>. QED BY <1>2, <1>3

\* decideReconnect(): nothing to do, give up, or arm the timer.
LEMMA RescheduleDoes ==
    ASSUME NEW m \in Memory, NEW stable \in BOOLEAN
    PROVE  LET x == Reschedule(m, stable)
           IN  /\ Lowered(x, m)
               /\ \/ x = m /\ ~m.recon.kept
                  \/ /\ m.recon.kept
                     /\ Now(x, NoEngine, m.mark, NoRecon, m.writing,
                            (m.dying \cup {m.registry}) \ {NoEngine})
                     /\ Latched(x, m, m.registry)
                  \/ /\ m.recon.kept /\ x.recon.kept /\ x.recon.armed
                     /\ Now(x, m.registry, m.mark, x.recon, m.writing, m.dying)
                     /\ x.eng = m.eng
<1>1. CASE ~m.recon.kept
  BY <1>1 DEF Reschedule
<1>2. CASE m.recon.kept /\ Spent(m, stable) >= MaxAttempts
  <2> DEFINE r == Report(m, "FAILED")
             v == EvictRegistered(r)
  <2>1. Reschedule(m, stable) = CancelReconnect(v)
    BY <1>2 DEF Reschedule
  <2>2. Now(r, m.registry, m.mark, m.recon, m.writing, m.dying) /\ r.eng = m.eng /\ Lowered(r, m)
    BY ReportDoes DEF Statuses
  <2> HIDE DEF r
  <2>3. /\ Now(v, NoEngine, m.mark, m.recon, m.writing, (m.dying \cup {m.registry}) \ {NoEngine})
        /\ Latched(v, m, m.registry) /\ Lowered(v, m)
    BY <2>2, EvictRegisteredDoes
  <2> HIDE DEF v
  <2>. QED BY <1>2, <2>1, <2>3, CancelDoes
<1>3. CASE m.recon.kept /\ ~(Spent(m, stable) >= MaxAttempts)
  <2> DEFINE n == Spent(m, stable) + 1
  <2>1. Reschedule(m, stable) = [m EXCEPT !.recon.armed = TRUE, !.recon.attempts = n]
    BY <1>3 DEF Reschedule
  <2>2. m.recon \in Recon
    BY MemoryFields
  <2>3. n \in 0 .. MaxAttempts
    BY <1>3, <2>2, LifecycleAssumption DEF Spent, Recon
  <2> HIDE DEF n
  <2> DEFINE c == [m.recon EXCEPT !.armed = TRUE, !.attempts = n]
  <2>4. c \in Recon /\ c.kept = m.recon.kept /\ c.armed = TRUE
    BY <2>2, <2>3 DEF Recon
  <2>5. [m EXCEPT !.recon.armed = TRUE, !.recon.attempts = n] = [m EXCEPT !.recon = c]
    BY <2>2 DEF Memory, Recon
  <2> HIDE DEF c
  <2>6. LET x == [m EXCEPT !.recon = c]
        IN  Now(x, m.registry, m.mark, c, m.writing, m.dying) /\ x.eng = m.eng /\ x.status = m.status
    BY <2>4 DEF Memory
  <2>. QED BY <1>3, <2>1, <2>4, <2>5, <2>6
<1>. QED BY <1>1, <1>2, <1>3

\* onError(), heard or not.
LEMMA ErroredDoes ==
    ASSUME NEW m \in Memory, NEW e \in Engine
    PROVE  LET x == Errored(m, e)
           IN  /\ Lowered(x, m)
               /\ \/ /\ m.registry = e
                     /\ Now(x, NoEngine, m.mark, NoRecon, m.writing, m.dying \cup {e})
                     /\ Latched(x, m, e)
                  \/ /\ m.registry # e
                     /\ Now(x, m.registry, m.mark, m.recon, m.writing, m.dying)
                     /\ \A f \in Engine :
                          x.eng[f] = IF f = e /\ m.eng[f] \in Alive THEN "lost" ELSE m.eng[f]
<1>1. CASE m.registry = e
  <2> DEFINE c == CancelReconnect(m)
             r == Report(c, "FAILED")
  <2>1. Errored(m, e) = Evict(r, e)
    BY <1>1 DEF Errored
  <2>2. Now(c, m.registry, m.mark, NoRecon, m.writing, m.dying) /\ c.eng = m.eng /\ c.status = m.status
    BY CancelDoes
  <2> HIDE DEF c
  <2>3. Now(r, m.registry, m.mark, NoRecon, m.writing, m.dying) /\ r.eng = m.eng /\ Lowered(r, m)
    BY <2>2, ReportDoes DEF Statuses
  <2> HIDE DEF r
  <2>. QED BY <1>1, <2>1, <2>3, EvictDoes
<1>2. CASE m.registry # e
  <2> DEFINE st == IF m.eng[e] \in Alive THEN "lost" ELSE m.eng[e]
  <2>1. Errored(m, e) = [m EXCEPT !.eng[e] = st]
    BY <1>2 DEF Errored
  <2>2. st \in EngineStates
    BY MemoryFields DEF EngineStates
  <2>3. \A f \in Engine : (IF f = e /\ m.eng[f] \in Alive THEN "lost" ELSE m.eng[f])
                            = IF f = e THEN st ELSE m.eng[f]
    OBVIOUS
  <2> HIDE DEF st
  <2>. QED BY <1>2, <2>1, <2>2, <2>3, EngDoes
<1>. QED BY <1>1, <1>2

\* A disconnect is reported.
LEMMA DropDoes ==
    ASSUME NEW m \in Memory, NEW e \in Engine
    PROVE  LET x == Drop(m, e)
           IN  /\ Now(x, m.registry, m.mark, m.recon, m.writing, m.dying)
               /\ Becomes(x, m, e, "lost") /\ Lowered(x, m)
<1> DEFINE y == [m EXCEPT !.eng[e] = "lost"]
<1>1. /\ Now(y, m.registry, m.mark, m.recon, m.writing, m.dying)
      /\ Becomes(y, m, e, "lost") /\ y.status = m.status
  BY EngDoes DEF EngineStates
<1>2. Drop(m, e) \in {y, Report(y, "DISCONNECTED")}
  BY DEF Drop
<1> HIDE DEF y
<1>. QED BY <1>1, <1>2, ReportDoes DEF Statuses

\* The end of a stop, a kill or a logout.
LEMMA RetiredDoes ==
    ASSUME NEW m \in Memory, NEW e \in Engine
    PROVE  LET x == Retired(m, e)
               reg == IF m.registry = e THEN NoEngine ELSE m.registry
           IN  /\ Now(x, reg, m.mark, m.recon, m.writing, m.dying) /\ x.eng = m.eng
               /\ x.status = IF row THEN "DISCONNECTED" ELSE m.status
BY DeleteIfLiveDoes, ReportDoes DEF Retired, Statuses

-----------------------------------------------------------------------------
(* Types, and which engine a launch or a request holds at which point.     *)

Early(q) == request[q].at \in {"entered", "fenced"}
Captured(q) == request[q].at \in {"waiting", "closing", "killing"}
Late(q) == request[q].at \in {"fenced again", "deleting", "purging"}
TearsDown(l) == launch[l].at \in {"reaping", "retiring", "destroying", "escalating"}

LaunchFits(l) ==
    /\ launch[l].at \in {"writing", "initializing", "killing"} => launch[l].eng \in Engine
    /\ launch[l].at \in {"idle", "fenced", "hook", "destroying", "escalating"}
         => launch[l].eng = NoEngine
    /\ IF TearsDown(l) THEN launch[l].victim \in Engine ELSE launch[l].victim = NoEngine
    /\ launch[l].at \in {"hook", "reaping"} => l = Start
    /\ launch[l].at \in {"destroying", "escalating"} => l \in Attempt

RequestFits(q) ==
    /\ Captured(q) => request[q].eng \in Engine
    /\ request[q].at = "idle" \/ Early(q) => request[q].eng = NoEngine
    /\ Late(q) \/ request[q].at = "fenced" => request[q].kind = "delete"
    /\ request[q].at = "closing" => request[q].kind \in {"stop", "logout"}

LaunchShape == \A l \in Launcher : LaunchFits(l)
RequestShape == \A q \in Request : RequestFits(q)

Typed == TypeOK /\ LaunchShape /\ RequestShape

\* What the types say of the parts that the handlers touch.
LEMMA TypedParts ==
    ASSUME Typed
    PROVE  /\ NoEngine \notin Engine /\ Start \notin Attempt
           /\ Launcher = {Start} \cup Attempt
           /\ row \in BOOLEAN /\ profile \in BOOLEAN /\ escaped \in BOOLEAN
           /\ mem \in Memory /\ mem.registry \in Engine \cup {NoEngine} /\ mem.mark \in BOOLEAN
           /\ mem.recon \in Recon /\ mem.dying \subseteq Engine
           /\ mem.eng \in [Engine -> EngineStates]
           /\ Now(mem, mem.registry, mem.mark, mem.recon, mem.writing, mem.dying)
           /\ removing \subseteq Engine /\ wiping \subseteq Engine /\ losing \subseteq Engine
           /\ launch \in [Launcher -> LaunchRecord] /\ request \in [Request -> RequestRecord]
           /\ \A l \in Launcher :
                /\ launch[l] \in LaunchRecord
                /\ launch[l].eng \in Engine \cup {NoEngine} /\ launch[l].victim \in Engine \cup {NoEngine}
                /\ launch[l].waits \subseteq Engine
           /\ \A q \in Request :
                /\ request[q] \in RequestRecord /\ request[q].kind \in Kinds
                /\ request[q].eng \in Engine \cup {NoEngine} /\ request[q].waits \subseteq Engine
<1>1. mem \in Memory /\ launch \in [Launcher -> LaunchRecord] /\ request \in [Request -> RequestRecord]
  BY DEF Typed, TypeOK
<1>2. \A l \in Launcher : launch[l] \in LaunchRecord
  BY <1>1
<1>3. \A q \in Request : request[q] \in RequestRecord
  BY <1>1
<1>4. /\ row \in BOOLEAN /\ profile \in BOOLEAN /\ escaped \in BOOLEAN
      /\ removing \subseteq Engine /\ wiping \subseteq Engine /\ losing \subseteq Engine
  BY DEF Typed, TypeOK
<1>. QED BY <1>1, <1>2, <1>3, <1>4, MemoryFields, LifecycleAssumption DEF LaunchRecord, RequestRecord, Launcher

-----------------------------------------------------------------------------
(* The handlers of a launch.                                               *)

\* A launch goes on to its next point.
LEMMA GoesDoes ==
    ASSUME Typed, NEW l \in Launcher, NEW at \in LaunchAt, Goes(l, at)
    PROVE  LaunchAs(l, at, launch[l].eng, launch[l].victim, launch[l].waits)
<1> DEFINE r == [launch[l] EXCEPT !.at = at]
<1>1. launch \in [Launcher -> LaunchRecord] /\ launch[l] \in LaunchRecord
  BY TypedParts
<1>2. /\ r \in LaunchRecord /\ r.at = at
      /\ r.eng = launch[l].eng /\ r.victim = launch[l].victim /\ r.waits = launch[l].waits
  BY <1>1 DEF LaunchRecord
<1>3. launch' = [launch EXCEPT ![l] = r]
  BY DEF Goes
<1> HIDE DEF r
<1>. QED BY <1>1, <1>2, <1>3

\* A launch is replaced by a record.
LEMMA LaunchReplaced ==
    ASSUME Typed, NEW l \in Launcher, NEW r \in LaunchRecord, launch' = [launch EXCEPT ![l] = r]
    PROVE  LaunchAs(l, r.at, r.eng, r.victim, r.waits)
BY TypedParts

\* A launch ends.
LEMMA EndsDoes ==
    ASSUME Typed, NEW l \in Launcher, Ends(l)
    PROVE  LaunchAs(l, "idle", NoEngine, NoEngine, {})
<1>1. IdleLaunch \in LaunchRecord
  BY DEF IdleLaunch, LaunchRecord, LaunchAt
<1>. QED BY <1>1, LaunchReplaced DEF Ends, IdleLaunch

\* An engine is made: its identity is one that nobody holds.
LEMMA RegisterDoes ==
    ASSUME Typed, NEW l \in Launcher, NEW m \in Memory, Register(l, m)
    PROVE  /\ profile' = profile
           /\ \E e \in Engine :
                /\ e \notin Held /\ m.eng[e] \in {"none", "gone"}
                /\ Now(mem', e, m.mark, m.recon, e, m.dying)
                /\ Becomes(mem', m, e, "made") /\ mem'.status = m.status
                /\ LaunchAs(l, "writing", e, NoEngine, {})
<1> DEFINE e == CHOOSE e \in Spare(m) : TRUE
           r == [IdleLaunch EXCEPT !.at = "writing", !.eng = e]
           x == [m EXCEPT !.registry = e, !.writing = e]
<1>1. e \in Engine /\ e \notin Held /\ m.eng[e] \in {"none", "gone"}
  BY DEF Register, Spare
<1>2. mem' = [m EXCEPT !.registry = e, !.writing = e, !.eng[e] = "made"]
      /\ launch' = [launch EXCEPT ![l] = r] /\ profile' = profile
  BY DEF Register
<1> HIDE DEF e
<1>3. Now(x, e, m.mark, m.recon, e, m.dying) /\ x.eng = m.eng /\ x.status = m.status
  BY <1>1 DEF Memory
<1> DEFINE y == [x EXCEPT !.eng[e] = "made"]
<1>4. mem' = y
  BY <1>2
<1> HIDE DEF x
<1>5. Now(y, e, m.mark, m.recon, e, m.dying) /\ Becomes(y, m, e, "made") /\ y.status = m.status
  <2>1. "made" \in EngineStates
    BY DEF EngineStates
  <2>. QED BY <1>1, <1>3, <2>1, EngDoes
<1> HIDE DEF y
<1>6. r \in LaunchRecord /\ r.at = "writing" /\ r.eng = e /\ r.victim = NoEngine /\ r.waits = {}
  BY <1>1 DEF IdleLaunch, LaunchRecord, LaunchAt
<1> HIDE DEF r
<1>7. LaunchAs(l, "writing", e, NoEngine, {})
  BY <1>2, <1>6, LaunchReplaced
<1>8. Now(mem', e, m.mark, m.recon, e, m.dying) /\ Becomes(mem', m, e, "made") /\ mem'.status = m.status
  BY <1>4, <1>5
<1>. QED BY <1>1, <1>2, <1>7, <1>8

\* The post-init guard of a retired session: its engine is torn down, if it has one.
LEMMA RetireDoes ==
    ASSUME Typed, NEW l \in Launcher, NEW m \in Memory, Retire(l, m)
    PROVE  /\ profile' = profile
           /\ Now(mem', m.registry, m.mark, m.recon, m.writing, m.dying)
           /\ Latched(mem', m, m.registry) /\ Lowered(mem', m)
           /\ \/ /\ m.registry = NoEngine
                 /\ LaunchAs(l, "repurging", launch[l].eng, launch[l].victim, launch[l].waits)
              \/ /\ m.registry \in Engine
                 /\ LaunchAs(l, "retiring", launch[l].eng, m.registry, launch[l].waits)
<1>1. profile' = profile /\ m.registry \in Engine \cup {NoEngine} /\ NoEngine \notin Engine
  BY MemoryFields, LifecycleAssumption DEF Retire
<1>2. CASE m.registry = NoEngine
  <2>1. mem' = m /\ Goes(l, "repurging")
    BY <1>2 DEF Retire
  <2>2. LaunchAs(l, "repurging", launch[l].eng, launch[l].victim, launch[l].waits)
    BY <2>1, GoesDoes DEF LaunchAt
  <2>. QED BY <1>1, <1>2, <2>1, <2>2, MemoryFields
<1>3. CASE m.registry # NoEngine
  <2> DEFINE r == [launch[l] EXCEPT !.at = "retiring", !.victim = m.registry]
  <2>1. mem' = Shut(m, m.registry) /\ launch' = [launch EXCEPT ![l] = r] /\ m.registry \in Engine
    BY <1>1, <1>3 DEF Retire
  <2>2. /\ r \in LaunchRecord /\ r.at = "retiring" /\ r.victim = m.registry
        /\ r.eng = launch[l].eng /\ r.waits = launch[l].waits
    BY <1>1, <2>1, TypedParts DEF LaunchRecord, LaunchAt
  <2> HIDE DEF r
  <2>3. LaunchAs(l, "retiring", launch[l].eng, m.registry, launch[l].waits)
    BY <2>1, <2>2, LaunchReplaced
  <2>4. /\ Now(mem', m.registry, m.mark, m.recon, m.writing, m.dying)
        /\ Latched(mem', m, m.registry) /\ Lowered(mem', m)
    BY <2>1, ShutDoes
  <2>. QED BY <1>1, <2>1, <2>3, <2>4
<1>. QED BY <1>2, <1>3

\* initializeEngine() returned: the mark decides whether the guard retires at once.
LEMMA ReturnsDoes ==
    ASSUME Typed, NEW l \in Launcher, NEW m \in Memory, Returns(l, m)
    PROVE  /\ profile' = profile
           /\ Now(mem', m.registry, m.mark, m.recon, m.writing, m.dying) /\ Lowered(mem', m)
           /\ \/ /\ ~m.mark /\ mem' = m
                 /\ LaunchAs(l, "checking", launch[l].eng, launch[l].victim, launch[l].waits)
              \/ /\ m.mark /\ m.registry = NoEngine /\ Latched(mem', m, m.registry)
                 /\ LaunchAs(l, "repurging", launch[l].eng, launch[l].victim, launch[l].waits)
              \/ /\ m.mark /\ m.registry \in Engine /\ Latched(mem', m, m.registry)
                 /\ LaunchAs(l, "retiring", launch[l].eng, m.registry, launch[l].waits)
<1>1. CASE m.mark
  <2>1. Retire(l, m)
    BY <1>1 DEF Returns
  <2>. QED BY <1>1, <2>1, RetireDoes
<1>2. CASE ~m.mark
  <2>1. mem' = m /\ Goes(l, "checking") /\ profile' = profile
    BY <1>2 DEF Returns
  <2>2. LaunchAs(l, "checking", launch[l].eng, launch[l].victim, launch[l].waits)
    BY <2>1, GoesDoes DEF LaunchAt
  <2>. QED BY <1>2, <2>1, <2>2, MemoryFields
<1>. QED BY <1>1, <1>2

\* initializeEngine() threw: whatever is registered is taken down, by start()
\* itself or, in a reconnect, on its own with the next attempt scheduled.
LEMMA ThrowsDoes ==
    ASSUME Typed, NEW l \in Launcher, NEW m \in Memory, Throws(l, m)
    PROVE  /\ profile' = profile /\ escaped' = (escaped \/ ~row)
           /\ UNCHANGED <<overlapped, crossed, refused>>
           /\ Now(mem', NoEngine, m.mark, mem'.recon, m.writing, mem'.dying)
           /\ Latched(mem', m, m.registry) /\ Lowered(mem', m)
           /\ \/ /\ l \in Attempt /\ LaunchAs(l, "idle", NoEngine, NoEngine, {})
                 /\ mem'.dying = (m.dying \cup {m.registry}) \ {NoEngine}
                 /\ \/ ~m.recon.kept /\ mem'.recon = m.recon
                    \/ m.recon.kept /\ mem'.recon = NoRecon
                    \/ m.recon.kept /\ mem'.recon.kept /\ mem'.recon.armed
              \/ /\ l = Start /\ m.registry = NoEngine
                 /\ LaunchAs(l, "idle", NoEngine, NoEngine, {})
                 /\ mem'.dying = m.dying /\ mem'.recon = NoRecon
              \/ /\ l = Start /\ m.registry \in Engine
                 /\ LaunchAs(l, "reaping", launch[l].eng, m.registry, launch[l].waits)
                 /\ mem'.dying = m.dying /\ mem'.recon = m.recon
<1>1. /\ profile' = profile /\ escaped' = (escaped \/ ~row) /\ UNCHANGED <<overlapped, crossed, refused>>
      /\ m.registry \in Engine \cup {NoEngine} /\ NoEngine \notin Engine /\ m.dying \subseteq Engine
  BY MemoryFields, LifecycleAssumption DEF Throws
<1>2. CASE l # Start
  <2> DEFINE v == EvictRegistered(m)
  <2>1. PICK stable \in BOOLEAN : Ends(l) /\ mem' = Reschedule(v, stable)
    BY <1>2 DEF Throws
  <2>2. /\ Now(v, NoEngine, m.mark, m.recon, m.writing, (m.dying \cup {m.registry}) \ {NoEngine})
        /\ Latched(v, m, m.registry) /\ Lowered(v, m)
    BY EvictRegisteredDoes
  <2> HIDE DEF v
  <2>3. v.eng \in [Engine -> EngineStates]
    BY <2>2, MemoryFields
  <2>4. /\ Now(mem', NoEngine, m.mark, mem'.recon, m.writing, (m.dying \cup {m.registry}) \ {NoEngine})
        /\ Latched(mem', m, m.registry) /\ Lowered(mem', m)
        /\ \/ ~m.recon.kept /\ mem'.recon = m.recon
           \/ m.recon.kept /\ mem'.recon = NoRecon
           \/ m.recon.kept /\ mem'.recon.kept /\ mem'.recon.armed
    BY <1>1, <2>1, <2>2, <2>3, RescheduleDoes
  <2>5. LaunchAs(l, "idle", NoEngine, NoEngine, {})
    BY <2>1, EndsDoes
  <2>6. l \in Attempt
    BY <1>2, TypedParts
  <2>. QED BY <1>1, <2>4, <2>5, <2>6
<1>3. CASE l = Start /\ m.registry = NoEngine
  <2>1. mem' = CancelReconnect(m) /\ Ends(l)
    BY <1>3 DEF Throws
  <2>2. LaunchAs(l, "idle", NoEngine, NoEngine, {})
    BY <2>1, EndsDoes
  <2>. QED BY <1>1, <1>3, <2>1, <2>2, CancelDoes
<1>4. CASE l = Start /\ m.registry # NoEngine
  <2> DEFINE r == [launch[l] EXCEPT !.at = "reaping", !.victim = m.registry]
             x == [m EXCEPT !.registry = NoEngine]
  <2>1. mem' = Shut(x, m.registry) /\ launch' = [launch EXCEPT ![l] = r] /\ m.registry \in Engine
    BY <1>1, <1>4 DEF Throws
  <2>2. /\ r \in LaunchRecord /\ r.at = "reaping" /\ r.victim = m.registry
        /\ r.eng = launch[l].eng /\ r.waits = launch[l].waits
    BY <2>1, TypedParts DEF LaunchRecord, LaunchAt
  <2>3. Now(x, NoEngine, m.mark, m.recon, m.writing, m.dying) /\ x.eng = m.eng /\ x.status = m.status
    BY EmptiedDoes
  <2> HIDE DEF r, x
  <2>4. LaunchAs(l, "reaping", launch[l].eng, m.registry, launch[l].waits)
    BY <2>1, <2>2, LaunchReplaced
  <2>5. /\ Now(mem', NoEngine, m.mark, m.recon, m.writing, m.dying)
        /\ Latched(mem', m, m.registry) /\ Lowered(mem', m)
    BY <2>1, <2>3, ShutDoes
  <2>. QED BY <1>1, <1>4, <2>1, <2>4, <2>5
<1>. QED BY <1>1, <1>2, <1>3, <1>4

\* The fences have passed, for start().
LEMMA PassStartDoes ==
    ASSUME Typed, NEW m \in Memory, PassFence(Start, m)
    PROVE  /\ profile' = profile
           /\ Now(mem', m.registry, FALSE, NoRecon, m.writing, m.dying)
           /\ mem'.eng = m.eng /\ mem'.status = m.status
           /\ LaunchAs(Start, "hook", launch[Start].eng, launch[Start].victim, launch[Start].waits)
<1> DEFINE x == [m EXCEPT !.mark = FALSE]
<1>1. mem' = CancelReconnect(x) /\ Goes(Start, "hook") /\ profile' = profile
  BY DEF PassFence
<1>2. Now(x, m.registry, FALSE, m.recon, m.writing, m.dying) /\ x.eng = m.eng /\ x.status = m.status
  BY MarkDoes
<1> HIDE DEF x
<1>3. Start \in Launcher
  BY DEF Launcher
<1>4. LaunchAs(Start, "hook", launch[Start].eng, launch[Start].victim, launch[Start].waits)
  BY <1>1, <1>3, GoesDoes DEF LaunchAt
<1>. QED BY <1>1, <1>2, <1>4, CancelDoes

\* A launch that finds removals pending waits for them.
LEMMA FenceDoes ==
    ASSUME Typed, NEW l \in Launcher, NEW m \in Memory, Fence(l, m)
    PROVE  \/ removing = {} /\ PassFence(l, m)
           \/ /\ removing # {} /\ mem' = m /\ profile' = profile
              /\ LaunchAs(l, "fenced", NoEngine, NoEngine, removing)
<1> DEFINE r == [IdleLaunch EXCEPT !.at = "fenced", !.waits = removing]
<1>1. CASE removing = {}
  BY <1>1 DEF Fence
<1>2. CASE removing # {}
  <2>1. mem' = m /\ profile' = profile /\ launch' = [launch EXCEPT ![l] = r]
    BY <1>2 DEF Fence
  <2>2. r \in LaunchRecord /\ r.at = "fenced" /\ r.eng = NoEngine /\ r.victim = NoEngine /\ r.waits = removing
    BY TypedParts DEF IdleLaunch, LaunchRecord, LaunchAt
  <2> HIDE DEF r
  <2>. QED BY <1>2, <2>1, <2>2, LaunchReplaced
<1>. QED BY <1>1, <1>2

-----------------------------------------------------------------------------
(* The handlers of a request.                                              *)

\* A request is replaced by a record.
LEMMA RequestReplaced ==
    ASSUME Typed, NEW q \in Request, NEW r \in RequestRecord, request' = [request EXCEPT ![q] = r]
    PROVE  RequestAs(q, r.at, r.kind, r.eng, r.waits)
BY TypedParts

\* A request goes on to its next point.
LEMMA StepsDoes ==
    ASSUME Typed, NEW q \in Request, NEW at \in RequestAt, Steps(q, at)
    PROVE  RequestAs(q, at, request[q].kind, request[q].eng, request[q].waits)
<1> DEFINE r == [request[q] EXCEPT !.at = at]
<1>1. r \in RequestRecord /\ r.at = at /\ r.kind = request[q].kind
      /\ r.eng = request[q].eng /\ r.waits = request[q].waits
  BY TypedParts DEF RequestRecord
<1>2. request' = [request EXCEPT ![q] = r]
  BY TypedParts DEF Steps
<1> HIDE DEF r
<1>. QED BY <1>1, <1>2, RequestReplaced

\* A request is answered.
LEMMA AnswersDoes ==
    ASSUME Typed, NEW q \in Request, Answers(q)
    PROVE  RequestAs(q, "idle", "stop", NoEngine, {})
<1>1. IdleRequest \in RequestRecord
  BY DEF IdleRequest, RequestRecord, RequestAt, Kinds
<1>. QED BY <1>1, RequestReplaced DEF Answers, IdleRequest

\* What a retiring call does first: the mark, and no more reconnects.
LEMMA RetiringDoes ==
    ASSUME Typed
    PROVE  /\ Now(Retiring, mem.registry, TRUE, NoRecon, mem.writing, mem.dying)
           /\ Retiring.eng = mem.eng /\ Retiring.status = mem.status
<1> DEFINE x == [mem EXCEPT !.mark = TRUE]
<1>1. Now(x, mem.registry, TRUE, mem.recon, mem.writing, mem.dying) /\ x.eng = mem.eng /\ x.status = mem.status
  BY TypedParts, MarkDoes
<1> HIDE DEF x
<1>2. Retiring = CancelReconnect(x)
  BY DEF Retiring, x
<1>. QED BY <1>1, <1>2, CancelDoes

\* The teardown of the captured engine begins.
LEMMA TearDownDoes ==
    ASSUME Typed, NEW q \in Request, NEW kind \in Kinds, NEW e \in Engine, NEW m \in Memory,
           TearDown(q, kind, e, m)
    PROVE  /\ Now(mem', m.registry, m.mark, m.recon, m.writing, m.dying)
           /\ Latched(mem', m, e) /\ Lowered(mem', m)
           /\ \/ kind \in {"stop", "logout"} /\ RequestAs(q, "closing", kind, e, {})
              \/ kind \notin {"stop", "logout"} /\ RequestAs(q, "killing", kind, e, {})
           /\ \/ removing' = removing
              \/ kind = "logout" /\ m.eng[e] \in Running /\ removing' = removing \cup {e}
<1> DEFINE r == [IdleRequest EXCEPT !.at = IF kind \in {"stop", "logout"} THEN "closing" ELSE "killing",
                                    !.kind = kind, !.eng = e]
<1>1. mem' = Shut(m, e) /\ request' = [request EXCEPT ![q] = r]
      /\ \/ removing' = removing
         \/ kind = "logout" /\ m.eng[e] \in Running /\ removing' = removing \cup {e}
  BY DEF TearDown
<1>2. /\ r \in RequestRecord /\ r.kind = kind /\ r.eng = e /\ r.waits = {}
      /\ \/ kind \in {"stop", "logout"} /\ r.at = "closing"
         \/ kind \notin {"stop", "logout"} /\ r.at = "killing"
  BY DEF IdleRequest, RequestRecord, RequestAt
<1> HIDE DEF r
<1>3. RequestAs(q, r.at, r.kind, r.eng, r.waits)
  BY <1>1, <1>2, RequestReplaced
<1>. QED BY <1>1, <1>2, <1>3, ShutDoes

\* An engine is captured; it is torn down at once unless its INITIALIZING write
\* is still on the way.
LEMMA CaptureDoes ==
    ASSUME Typed, NEW q \in Request, NEW kind \in Kinds, NEW m \in Memory, m.registry # NoEngine,
           Capture(q, kind, m)
    PROVE  /\ m.registry \in Engine
           /\ Now(mem', m.registry, m.mark, m.recon, m.writing, m.dying) /\ Lowered(mem', m)
           /\ \/ /\ m.writing = m.registry /\ mem' = m /\ removing' = removing
                 /\ RequestAs(q, "waiting", kind, m.registry, {})
              \/ /\ m.writing # m.registry /\ Latched(mem', m, m.registry)
                 /\ \/ kind \in {"stop", "logout"} /\ RequestAs(q, "closing", kind, m.registry, {})
                    \/ kind \notin {"stop", "logout"} /\ RequestAs(q, "killing", kind, m.registry, {})
                 /\ \/ removing' = removing
                    \/ /\ kind = "logout" /\ m.eng[m.registry] \in Running
                       /\ removing' = removing \cup {m.registry}
<1>1. m.registry \in Engine
  BY MemoryFields
<1>2. CASE m.writing # m.registry
  <2>1. TearDown(q, kind, m.registry, m)
    BY <1>2 DEF Capture
  <2>. QED BY <1>1, <1>2, <2>1, TearDownDoes
<1>3. CASE m.writing = m.registry
  <2> DEFINE r == [IdleRequest EXCEPT !.at = "waiting", !.kind = kind, !.eng = m.registry]
  <2>1. mem' = m /\ request' = [request EXCEPT ![q] = r] /\ removing' = removing
    BY <1>3 DEF Capture
  <2>2. r \in RequestRecord /\ r.at = "waiting" /\ r.kind = kind /\ r.eng = m.registry /\ r.waits = {}
    BY <1>1 DEF IdleRequest, RequestRecord, RequestAt
  <2> HIDE DEF r
  <2>3. RequestAs(q, "waiting", kind, m.registry, {})
    BY <2>1, <2>2, RequestReplaced
  <2>. QED BY <1>1, <1>3, <2>1, <2>3, MemoryFields
<1>. QED BY <1>2, <1>3

\* delete() looks at the pending removals once more.
LEMMA SecondFenceDoes ==
    ASSUME Typed, NEW q \in Request, NEW m \in Memory, SecondFence(q, m)
    PROVE  /\ mem' = m
           /\ \/ /\ removing = {}
                 /\ RequestAs(q, "deleting", request[q].kind, request[q].eng, removing)
              \/ /\ removing # {}
                 /\ RequestAs(q, "fenced again", request[q].kind, request[q].eng, removing)
<1> DEFINE r == [request[q] EXCEPT !.at = IF removing = {} THEN "deleting" ELSE "fenced again",
                                   !.waits = removing]
<1>1. /\ r \in RequestRecord /\ r.kind = request[q].kind /\ r.eng = request[q].eng /\ r.waits = removing
      /\ r.at = IF removing = {} THEN "deleting" ELSE "fenced again"
  BY TypedParts DEF RequestRecord, RequestAt
<1>2. mem' = m /\ request' = [request EXCEPT ![q] = r]
  BY TypedParts DEF SecondFence
<1> HIDE DEF r
<1>3. RequestAs(q, r.at, r.kind, r.eng, r.waits)
  BY <1>1, <1>2, RequestReplaced
<1>. QED BY <1>1, <1>2, <1>3

\* delete() past its first fence.
LEMMA DeleteBeginsDoes ==
    ASSUME Typed, NEW q \in Request, DeleteBegins(q), request[q].kind = "delete"
    PROVE  \/ /\ mem.registry = NoEngine /\ removing' = removing
              /\ Now(mem', NoEngine, TRUE, NoRecon, mem.writing, mem.dying)
              /\ mem'.eng = mem.eng /\ mem'.status = mem.status
              /\ \/ /\ removing = {} /\ RequestAs(q, "deleting", "delete", request[q].eng, removing)
                 \/ /\ removing # {} /\ RequestAs(q, "fenced again", "delete", request[q].eng, removing)
           \/ /\ mem.registry \in Engine /\ removing' = removing
              /\ Now(mem', mem.registry, TRUE, NoRecon, mem.writing, mem.dying) /\ Lowered(mem', mem)
              /\ \/ /\ mem.writing = mem.registry /\ mem'.eng = mem.eng
                    /\ RequestAs(q, "waiting", "delete", mem.registry, {})
                 \/ /\ mem.writing # mem.registry /\ Latched(mem', mem, mem.registry)
                    /\ RequestAs(q, "killing", "delete", mem.registry, {})
<1>1. /\ Now(Retiring, mem.registry, TRUE, NoRecon, mem.writing, mem.dying)
      /\ Retiring.eng = mem.eng /\ Retiring.status = mem.status
  BY RetiringDoes
<1>2. CASE mem.registry = NoEngine
  <2>1. SecondFence(q, Retiring) /\ removing' = removing
    BY <1>2 DEF DeleteBegins
  <2>. QED BY <1>1, <1>2, <2>1, SecondFenceDoes
<1>3. CASE mem.registry # NoEngine
  <2>1. Capture(q, "delete", Retiring)
    BY <1>3 DEF DeleteBegins
  <2>2. "delete" \in Kinds /\ "delete" \notin {"stop", "logout"} /\ "delete" # "logout"
    BY DEF Kinds
  <2>3. /\ Retiring.registry \in Engine
        /\ Now(mem', Retiring.registry, Retiring.mark, Retiring.recon, Retiring.writing, Retiring.dying)
        /\ Lowered(mem', Retiring) /\ removing' = removing
        /\ \/ /\ Retiring.writing = Retiring.registry /\ mem' = Retiring
              /\ RequestAs(q, "waiting", "delete", Retiring.registry, {})
           \/ /\ Retiring.writing # Retiring.registry /\ Latched(mem', Retiring, Retiring.registry)
              /\ RequestAs(q, "killing", "delete", Retiring.registry, {})
    <3>1. Retiring.registry # NoEngine /\ Retiring \in Memory
      BY <1>1, <1>3
    <3>. QED BY <2>1, <2>2, <3>1, CaptureDoes
  <2>4. CASE mem.writing = mem.registry
    BY <1>1, <2>3, <2>4
  <2>5. CASE mem.writing # mem.registry
    BY <1>1, <2>3, <2>5
  <2>. QED BY <2>4, <2>5
<1>. QED BY <1>2, <1>3

-----------------------------------------------------------------------------
(* What each step does: the launches.                                      *)

\* A launch has an engine registered now: one that nobody held, and m was the
\* memory before.
Registered(l, m, mark, recon) ==
    \E e \in Engine :
        /\ e \notin Held /\ m.eng[e] \in {"none", "gone"}
        /\ Now(mem', e, mark, recon, e, m.dying)
        /\ Becomes(mem', m, e, "made") /\ mem'.status = m.status
        /\ LaunchAs(l, "writing", e, NoEngine, {})

\* start(), up to its first await.
LEMMA StartCalledDoes ==
    ASSUME Typed, StartCalled
    PROVE  /\ launch[Start].at = "idle" /\ row /\ mem.registry = NoEngine
           /\ \/ /\ removing = {} /\ mem'.eng = mem.eng /\ mem'.status = mem.status
                 /\ Now(mem', NoEngine, FALSE, NoRecon, mem.writing, mem.dying)
                 /\ LaunchAs(Start, "hook", NoEngine, NoEngine, launch[Start].waits)
              \/ /\ removing # {} /\ mem' = mem
                 /\ LaunchAs(Start, "fenced", NoEngine, NoEngine, removing)
           /\ Begun /\ UNCHANGED <<row, profile, elsewhere, refused, escaped>>
<1>1. /\ launch[Start].at = "idle" /\ row /\ mem.registry = NoEngine /\ Fence(Start, mem)
      /\ Begun /\ UNCHANGED <<row, elsewhere, refused, escaped>>
  BY DEF StartCalled, InFlight
<1>2. Start \in Launcher /\ mem \in Memory
  BY TypedParts
<1>3. launch[Start].eng = NoEngine /\ launch[Start].victim = NoEngine
  BY <1>1, <1>2 DEF Typed, LaunchShape, LaunchFits, TearsDown
<1>4. CASE removing = {} /\ PassFence(Start, mem)
  BY <1>1, <1>2, <1>3, <1>4, PassStartDoes
<1>5. CASE ~(removing = {} /\ PassFence(Start, mem))
  BY <1>1, <1>2, <1>5, FenceDoes
<1>. QED BY <1>4, <1>5

\* The removals a launch waited for have settled.
LEMMA FenceOpensDoes ==
    ASSUME Typed, NEW l \in Launcher, FenceOpens(l)
    PROVE  /\ launch[l].at = "fenced" /\ launch[l].waits \cap removing = {}
           /\ \/ /\ l = Start /\ mem'.eng = mem.eng /\ mem'.status = mem.status
                 /\ Now(mem', mem.registry, FALSE, NoRecon, mem.writing, mem.dying)
                 /\ LaunchAs(Start, "hook", NoEngine, NoEngine, launch[Start].waits)
              \/ l \in Attempt /\ Registered(l, mem, mem.mark, mem.recon)
           /\ UNCHANGED <<row, profile, elsewhere, histVars>>
<1>1. /\ launch[l].at = "fenced" /\ launch[l].waits \cap removing = {} /\ PassFence(l, mem)
      /\ UNCHANGED <<row, elsewhere, histVars>>
  BY DEF FenceOpens
<1>2. mem \in Memory
  BY TypedParts
<1>3. launch[l].eng = NoEngine /\ launch[l].victim = NoEngine
  BY <1>1 DEF Typed, LaunchShape, LaunchFits, TearsDown
<1>4. CASE l = Start
  BY <1>1, <1>2, <1>3, <1>4, PassStartDoes
<1>5. CASE l # Start
  <2>1. Register(l, mem) /\ l \in Attempt
    BY <1>1, <1>5, TypedParts DEF PassFence
  <2>. QED BY <1>1, <1>2, <2>1, RegisterDoes DEF Registered
<1>. QED BY <1>4, <1>5

\* The wait is over and the removals are not.
LEMMA FenceRefusesDoes ==
    ASSUME Typed, NEW l \in Launcher, FenceRefuses(l)
    PROVE  /\ launch[l].at = "fenced" /\ LaunchAs(l, "idle", NoEngine, NoEngine, {})
           /\ \/ l = Start /\ mem' = mem /\ escaped' = escaped
              \/ /\ l \in Attempt /\ escaped' = (escaped \/ ~row)
                 /\ Now(mem', NoEngine, mem.mark, mem'.recon, mem.writing, (mem.dying \cup {mem.registry}) \ {NoEngine})
                 /\ Latched(mem', mem, mem.registry) /\ Lowered(mem', mem)
                 /\ \/ ~mem.recon.kept /\ mem'.recon = mem.recon
                    \/ mem.recon.kept /\ mem'.recon = NoRecon
                    \/ mem.recon.kept /\ mem'.recon.kept /\ mem'.recon.armed
           /\ UNCHANGED <<row, profile, elsewhere, overlapped, crossed, refused>>
<1>1. /\ launch[l].at = "fenced" /\ UNCHANGED <<row, elsewhere>>
      /\ IF l = Start THEN Ends(l) /\ UNCHANGED <<mem, profile, histVars>> ELSE Throws(l, mem)
  BY DEF FenceRefuses
<1>2. CASE l = Start
  BY <1>1, <1>2, EndsDoes DEF histVars
<1>3. CASE l # Start
  BY <1>1, <1>3, TypedParts, ThrowsDoes
<1>. QED BY <1>2, <1>3

\* The session:starting hook is done.
LEMMA HookDoneDoes ==
    ASSUME Typed, HookDone
    PROVE  /\ launch[Start].at = "hook" /\ Registered(Start, mem, mem.mark, FreshRecon)
           /\ UNCHANGED <<row, profile, elsewhere, histVars>>
<1> DEFINE m == [mem EXCEPT !.recon = FreshRecon, !.recovered = FALSE]
<1>1. /\ launch[Start].at = "hook" /\ Register(Start, m)
      /\ UNCHANGED <<row, elsewhere, histVars>>
  BY DEF HookDone
<1>2. FreshRecon \in Recon
  <2>1. NoRecon \in Recon
    BY LifecycleAssumption DEF NoRecon, Recon
  <2>. QED BY <2>1 DEF FreshRecon, Recon
<1>3. Now(m, mem.registry, mem.mark, FreshRecon, mem.writing, mem.dying)
      /\ m.eng = mem.eng /\ m.status = mem.status
  BY <1>2, TypedParts DEF Memory
<1> HIDE DEF m
<1>4. Start \in Launcher
  BY TypedParts
<1>5. profile' = profile /\ Registered(Start, m, m.mark, m.recon)
  BY <1>1, <1>3, <1>4, RegisterDoes DEF Registered
<1>6. Registered(Start, mem, mem.mark, FreshRecon)
  BY <1>3, <1>5 DEF Registered
<1>. QED BY <1>1, <1>5, <1>6

\* The INITIALIZING write settled: the engine is opened, or the launch is over.
LEMMA WriteSettlesDoes ==
    ASSUME Typed, NEW l \in Launcher, WriteSettles(l)
    PROVE  LET e == launch[l].eng
               w == IF mem.writing = e THEN NoEngine ELSE mem.writing
           IN  /\ launch[l].at = "writing" /\ e \in Engine /\ launch[l].victim = NoEngine
               /\ Now(mem', mem.registry, mem.mark, mem.recon, w, mem.dying)
               /\ mem'.status \in {mem.status, "INITIALIZING", "DISCONNECTED", "FAILED"}
               /\ \/ /\ mem.registry = e /\ ~mem.mark
                     /\ \A f \in Engine : mem'.eng[f] = IF f = e /\ mem.eng[f] = "made" THEN "open" ELSE mem.eng[f]
                     /\ profile' \in BOOLEAN
                     /\ LaunchAs(l, "initializing", e, NoEngine, launch[l].waits)
                  \/ /\ mem.registry # e /\ ~mem.mark /\ mem'.eng = mem.eng /\ profile' = profile
                     /\ LaunchAs(l, "checking", e, NoEngine, launch[l].waits)
                  \/ /\ mem.mark /\ Latched(mem', mem, mem.registry) /\ profile' = profile
                     /\ \/ /\ mem.registry = NoEngine
                           /\ LaunchAs(l, "repurging", e, NoEngine, launch[l].waits)
                        \/ /\ mem.registry \in Engine
                           /\ LaunchAs(l, "retiring", e, mem.registry, launch[l].waits)
               /\ UNCHANGED <<row, elsewhere, histVars>>
<1> DEFINE e == launch[l].eng
           w == IF mem.writing = e THEN NoEngine ELSE mem.writing
           r == Report(mem, "INITIALIZING")
           m == [r EXCEPT !.writing = w]
           st == IF m.eng[e] = "made" THEN "open" ELSE m.eng[e]
           x == [m EXCEPT !.eng[e] = st]
<1>1. /\ launch[l].at = "writing" /\ UNCHANGED <<row, elsewhere, histVars>>
      /\ IF m.registry # e \/ m.mark THEN Returns(l, m)
         ELSE mem' = x /\ profile' = (profile \/ m.eng[e] = "made") /\ Goes(l, "initializing")
  <2>1. r.writing = mem.writing
    BY TypedParts, ReportDoes DEF Statuses
  <2>2. m = [r EXCEPT !.writing = IF @ = e THEN NoEngine ELSE @]
    BY <2>1
  <2>. QED BY <2>2 DEF WriteSettles
<1>2. e \in Engine /\ launch[l].victim = NoEngine
  BY <1>1 DEF Typed, LaunchShape, LaunchFits, TearsDown
<1> HIDE DEF e
<1>3. /\ Now(r, mem.registry, mem.mark, mem.recon, mem.writing, mem.dying) /\ r.eng = mem.eng
      /\ r.status \in {mem.status, "INITIALIZING"}
  BY TypedParts, ReportDoes DEF Statuses
<1> HIDE DEF r
<1>4. /\ Now(m, mem.registry, mem.mark, mem.recon, w, mem.dying) /\ m.eng = mem.eng
      /\ m.status \in {mem.status, "INITIALIZING"}
  <2>1. w \in Engine \cup {NoEngine}
    BY TypedParts, MemoryFields
  <2> HIDE DEF w
  <2>. QED BY <1>3, <2>1, WrittenDoes
<1> HIDE DEF m
<1>5. CASE m.registry # e \/ m.mark
  <2>1. Returns(l, m)
    BY <1>1, <1>5
  <2>2. /\ profile' = profile
        /\ Now(mem', m.registry, m.mark, m.recon, m.writing, m.dying) /\ Lowered(mem', m)
        /\ \/ /\ ~m.mark /\ mem' = m
              /\ LaunchAs(l, "checking", e, NoEngine, launch[l].waits)
           \/ /\ m.mark /\ m.registry = NoEngine /\ Latched(mem', m, m.registry)
              /\ LaunchAs(l, "repurging", e, NoEngine, launch[l].waits)
           \/ /\ m.mark /\ m.registry \in Engine /\ Latched(mem', m, m.registry)
              /\ LaunchAs(l, "retiring", e, m.registry, launch[l].waits)
    BY <1>2, <1>4, <2>1, ReturnsDoes DEF e
  <2> HIDE DEF w, st, x
  <2>3. CASE ~m.mark
    BY <1>1, <1>2, <1>4, <1>5, <2>2, <2>3 DEF e, w
  <2>4. CASE m.mark
    BY <1>1, <1>2, <1>4, <2>2, <2>4 DEF e, w
  <2>. QED BY <2>3, <2>4
<1>6. CASE m.registry = e /\ ~m.mark
  <2>1. mem' = x /\ profile' = (profile \/ m.eng[e] = "made") /\ Goes(l, "initializing")
    BY <1>1, <1>6
  <2>2. LaunchAs(l, "initializing", e, NoEngine, launch[l].waits)
    BY <1>2, <2>1, GoesDoes DEF LaunchAt, e
  <2>3. st \in EngineStates /\ \A f \in Engine :
            (IF f = e THEN st ELSE m.eng[f]) = IF f = e /\ mem.eng[f] = "made" THEN "open" ELSE mem.eng[f]
    BY <1>2, <1>4, MemoryFields DEF EngineStates
  <2>4. profile' \in BOOLEAN
    BY <2>1, TypedParts
  <2> HIDE DEF st
  <2>5. Now(x, m.registry, m.mark, m.recon, m.writing, m.dying) /\ Becomes(x, m, e, st) /\ x.status = m.status
    BY <1>2, <1>4, <2>3, EngDoes
  <2> HIDE DEF x
  <2>. QED BY <1>1, <1>2, <1>4, <1>6, <2>1, <2>2, <2>3, <2>4, <2>5 DEF e
<1>. QED BY <1>5, <1>6

\* The INITIALIZING write was rejected.
LEMMA WriteFailsDoes ==
    ASSUME Typed, NEW l \in Launcher, WriteFails(l)
    PROVE  LET e == launch[l].eng
               w == IF mem.writing = e THEN NoEngine ELSE mem.writing
           IN  /\ launch[l].at = "writing" /\ e \in Engine
               /\ Now(mem', NoEngine, mem.mark, mem'.recon, w, mem'.dying)
               /\ Latched(mem', mem, mem.registry) /\ Lowered(mem', mem)
               /\ \/ /\ l \in Attempt /\ LaunchAs(l, "idle", NoEngine, NoEngine, {})
                     /\ mem'.dying = (mem.dying \cup {mem.registry}) \ {NoEngine}
                     /\ \/ ~mem.recon.kept /\ mem'.recon = mem.recon
                        \/ mem.recon.kept /\ mem'.recon = NoRecon
                        \/ mem.recon.kept /\ mem'.recon.kept /\ mem'.recon.armed
                  \/ /\ l = Start /\ mem.registry = NoEngine
                     /\ LaunchAs(l, "idle", NoEngine, NoEngine, {})
                     /\ mem'.dying = mem.dying /\ mem'.recon = NoRecon
                  \/ /\ l = Start /\ mem.registry \in Engine
                     /\ LaunchAs(l, "reaping", e, mem.registry, launch[l].waits)
                     /\ mem'.dying = mem.dying /\ mem'.recon = mem.recon
               /\ escaped' = (escaped \/ ~row)
               /\ UNCHANGED <<row, profile, elsewhere, overlapped, crossed, refused>>
<1> DEFINE e == launch[l].eng
           w == IF mem.writing = e THEN NoEngine ELSE mem.writing
           m == [mem EXCEPT !.writing = w]
<1>1. launch[l].at = "writing" /\ Throws(l, m) /\ UNCHANGED <<row, elsewhere>>
  <2>1. m = [mem EXCEPT !.writing = IF @ = e THEN NoEngine ELSE @]
    OBVIOUS
  <2>. QED BY <2>1 DEF WriteFails
<1>2. e \in Engine
  BY <1>1 DEF Typed, LaunchShape, LaunchFits
<1>3. Now(m, mem.registry, mem.mark, mem.recon, w, mem.dying) /\ m.eng = mem.eng /\ m.status = mem.status
  <2>1. w \in Engine \cup {NoEngine}
    BY TypedParts, MemoryFields
  <2> HIDE DEF w
  <2>. QED BY <2>1, TypedParts, WrittenDoes
<1> HIDE DEF m
<1>. QED BY <1>1, <1>2, <1>3, ThrowsDoes

\* initialize() resolved.
LEMMA InitResolvesDoes ==
    ASSUME Typed, NEW l \in Launcher, InitResolves(l)
    PROVE  /\ launch[l].at = "initializing"
           /\ Now(mem', mem.registry, mem.mark, mem.recon, mem.writing, mem.dying) /\ Lowered(mem', mem)
           /\ \/ /\ ~mem.mark /\ mem' = mem
                 /\ LaunchAs(l, "checking", launch[l].eng, NoEngine, launch[l].waits)
              \/ /\ mem.mark /\ mem.registry = NoEngine /\ Latched(mem', mem, mem.registry)
                 /\ LaunchAs(l, "repurging", launch[l].eng, NoEngine, launch[l].waits)
              \/ /\ mem.mark /\ mem.registry \in Engine /\ Latched(mem', mem, mem.registry)
                 /\ LaunchAs(l, "retiring", launch[l].eng, mem.registry, launch[l].waits)
           /\ UNCHANGED <<row, profile, elsewhere, histVars>>
<1>1. launch[l].at = "initializing" /\ Returns(l, mem) /\ UNCHANGED <<row, elsewhere, histVars>>
  BY DEF InitResolves
<1>2. launch[l].victim = NoEngine
  BY <1>1 DEF Typed, LaunchShape, LaunchFits, TearsDown
<1>. QED BY <1>1, <1>2, TypedParts, ReturnsDoes

\* initialize() was rejected: onError() first, then the caller's catch block.
LEMMA InitRejectsDoes ==
    ASSUME Typed, NEW l \in Launcher, InitRejects(l)
    PROVE  LET e == launch[l].eng
           IN  /\ launch[l].at = "initializing" /\ e \in Engine
               /\ Now(mem', NoEngine, mem.mark, mem'.recon, mem.writing, mem'.dying) /\ Lowered(mem', mem)
               /\ \/ /\ mem.registry = e /\ Latched(mem', mem, e)
                     /\ LaunchAs(l, "idle", NoEngine, NoEngine, {})
                     /\ mem'.dying = mem.dying \cup {e} /\ mem'.recon = NoRecon
                  \/ /\ mem.registry # e
                     /\ \A f \in Engine :
                          mem'.eng[f] = IF f = mem.registry THEN Latch(mem.eng[f])
                                        ELSE IF f = e /\ mem.eng[f] \in Alive THEN "lost" ELSE mem.eng[f]
                     /\ \/ /\ l \in Attempt /\ LaunchAs(l, "idle", NoEngine, NoEngine, {})
                           /\ mem'.dying = (mem.dying \cup {mem.registry}) \ {NoEngine}
                           /\ \/ ~mem.recon.kept /\ mem'.recon = mem.recon
                              \/ mem.recon.kept /\ mem'.recon = NoRecon
                              \/ mem.recon.kept /\ mem'.recon.kept /\ mem'.recon.armed
                        \/ /\ l = Start /\ mem.registry = NoEngine
                           /\ LaunchAs(l, "idle", NoEngine, NoEngine, {})
                           /\ mem'.dying = mem.dying /\ mem'.recon = NoRecon
                        \/ /\ l = Start /\ mem.registry \in Engine
                           /\ LaunchAs(l, "reaping", e, mem.registry, launch[l].waits)
                           /\ mem'.dying = mem.dying /\ mem'.recon = mem.recon
               /\ escaped' = (escaped \/ ~row)
               /\ UNCHANGED <<row, profile, elsewhere, overlapped, crossed, refused>>
<1> DEFINE e == launch[l].eng
           m == Errored(mem, e)
<1>1. launch[l].at = "initializing" /\ Throws(l, m) /\ UNCHANGED <<row, elsewhere>>
  BY DEF InitRejects
<1>2. e \in Engine /\ NoEngine \notin Engine /\ mem.dying \subseteq Engine
  BY <1>1, TypedParts DEF Typed, LaunchShape, LaunchFits
<1>3. mem \in Memory
  BY TypedParts
<1>4. CASE mem.registry = e
  <2>1. Now(m, NoEngine, mem.mark, NoRecon, mem.writing, mem.dying \cup {e}) /\ Latched(m, mem, e) /\ Lowered(m, mem)
    BY <1>2, <1>3, <1>4, ErroredDoes
  <2>2. ~NoRecon.kept
    BY DEF NoRecon
  <2> HIDE DEF m, e
  <2>. QED BY <1>1, <1>2, <1>4, <2>1, <2>2, ThrowsDoes DEF e
<1>5. CASE mem.registry # e
  <2>1. /\ Now(m, mem.registry, mem.mark, mem.recon, mem.writing, mem.dying) /\ Lowered(m, mem)
        /\ \A f \in Engine : m.eng[f] = IF f = e /\ mem.eng[f] \in Alive THEN "lost" ELSE mem.eng[f]
    BY <1>2, <1>3, <1>5, ErroredDoes
  <2> HIDE DEF m, e
  <2>. QED BY <1>1, <1>2, <1>5, <2>1, ThrowsDoes DEF e
<1>. QED BY <1>4, <1>5

\* The deadline of initialize() has passed.
LEMMA InitTimesOutDoes ==
    ASSUME Typed, NEW l \in Launcher, InitTimesOut(l)
    PROVE  /\ launch[l].at = "initializing" /\ launch[l].eng \in Engine
           /\ Now(mem', NoEngine, mem.mark, mem.recon, mem.writing, mem.dying)
           /\ Latched(mem', mem, launch[l].eng) /\ Lowered(mem', mem)
           /\ LaunchAs(l, "killing", launch[l].eng, NoEngine, launch[l].waits)
           /\ UNCHANGED <<row, profile, elsewhere, histVars>>
<1> DEFINE x == [mem EXCEPT !.registry = NoEngine]
<1>1. /\ launch[l].at = "initializing" /\ mem' = Shut(x, launch[l].eng) /\ Goes(l, "killing")
      /\ UNCHANGED <<row, profile, elsewhere, histVars>>
  BY DEF InitTimesOut
<1>2. launch[l].victim = NoEngine /\ launch[l].eng \in Engine
  BY <1>1 DEF Typed, LaunchShape, LaunchFits, TearsDown
<1>3. Now(x, NoEngine, mem.mark, mem.recon, mem.writing, mem.dying) /\ x.eng = mem.eng /\ x.status = mem.status
  BY TypedParts, EmptiedDoes
<1> HIDE DEF x
<1>4. LaunchAs(l, "killing", launch[l].eng, NoEngine, launch[l].waits)
  BY <1>1, <1>2, GoesDoes DEF LaunchAt
<1>. QED BY <1>1, <1>2, <1>3, <1>4, ShutDoes

\* The kill that followed is done; the launch has failed.
LEMMA LateKillEndsDoes ==
    ASSUME Typed, NEW l \in Launcher, LateKillEnds(l)
    PROVE  LET e == launch[l].eng
           IN  /\ launch[l].at = "killing" /\ e \in Engine
               /\ Now(mem', NoEngine, mem.mark, mem'.recon, mem.writing, mem'.dying) /\ Lowered(mem', mem)
               /\ \A f \in Engine :
                    mem'.eng[f] = IF f = e THEN "gone"
                                  ELSE IF f = mem.registry THEN Latch(mem.eng[f]) ELSE mem.eng[f]
               /\ \/ /\ l \in Attempt /\ LaunchAs(l, "idle", NoEngine, NoEngine, {})
                     /\ mem'.dying = (mem.dying \cup {mem.registry}) \ {NoEngine}
                     /\ \/ ~mem.recon.kept /\ mem'.recon = mem.recon
                        \/ mem.recon.kept /\ mem'.recon = NoRecon
                        \/ mem.recon.kept /\ mem'.recon.kept /\ mem'.recon.armed
                  \/ /\ l = Start /\ mem.registry = NoEngine
                     /\ LaunchAs(l, "idle", NoEngine, NoEngine, {})
                     /\ mem'.dying = mem.dying /\ mem'.recon = NoRecon
                  \/ /\ l = Start /\ mem.registry \in Engine
                     /\ LaunchAs(l, "reaping", e, mem.registry, launch[l].waits)
                     /\ mem'.dying = mem.dying /\ mem'.recon = mem.recon
               /\ escaped' = (escaped \/ ~row)
               /\ UNCHANGED <<row, profile, elsewhere, overlapped, crossed, refused>>
<1> DEFINE e == launch[l].eng
           x == Gone(mem, e)
           m == Report(x, "DISCONNECTED")
<1>1. launch[l].at = "killing" /\ Throws(l, m) /\ UNCHANGED <<row, elsewhere>>
  BY DEF LateKillEnds
<1>2. e \in Engine
  BY <1>1 DEF Typed, LaunchShape, LaunchFits
<1>3. Now(x, mem.registry, mem.mark, mem.recon, mem.writing, mem.dying)
      /\ Becomes(x, mem, e, "gone") /\ x.status = mem.status
  BY <1>2, TypedParts, GoneDoes
<1> HIDE DEF x
<1>4. Now(m, mem.registry, mem.mark, mem.recon, mem.writing, mem.dying)
      /\ Becomes(m, mem, e, "gone") /\ Lowered(m, mem)
  BY <1>3, ReportDoes DEF Statuses
<1> HIDE DEF m
<1>5. Latch("gone") = "gone"
  BY DEF Latch
<1> HIDE DEF e
<1>. QED BY <1>1, <1>2, <1>4, <1>5, ThrowsDoes DEF e

\* The two reconnect states that are written as constants.
LEMMA ReconConstants ==
    /\ NoRecon \in Recon /\ ~NoRecon.kept /\ ~NoRecon.armed
    /\ FreshRecon \in Recon /\ FreshRecon.kept /\ ~FreshRecon.armed
<1>1. NoRecon \in Recon /\ ~NoRecon.kept /\ ~NoRecon.armed
  BY LifecycleAssumption DEF NoRecon, Recon
<1>. QED BY <1>1 DEF FreshRecon, Recon

\* start() has reaped its engine.
LEMMA ReapEndsDoes ==
    ASSUME Typed, ReapEnds
    PROVE  /\ launch[Start].at = "reaping"
           /\ Now(mem', mem.registry, mem.mark, NoRecon, mem.writing, mem.dying)
           /\ Becomes(mem', mem, launch[Start].victim, "gone") /\ Lowered(mem', mem)
           /\ LaunchAs(Start, "idle", NoEngine, NoEngine, {})
           /\ UNCHANGED <<row, profile, elsewhere, histVars>>
<1> DEFINE v == launch[Start].victim
           x == Gone(mem, v)
           r == Report(x, "FAILED")
<1>1. /\ launch[Start].at = "reaping" /\ mem' = CancelReconnect(r) /\ Ends(Start)
      /\ UNCHANGED <<row, profile, elsewhere, histVars>>
  BY DEF ReapEnds
<1>2. Start \in Launcher
  BY TypedParts
<1>3. v \in Engine
  BY <1>1, <1>2 DEF Typed, LaunchShape, LaunchFits, TearsDown
<1>4. Now(x, mem.registry, mem.mark, mem.recon, mem.writing, mem.dying)
      /\ Becomes(x, mem, v, "gone") /\ x.status = mem.status
  BY <1>3, TypedParts, GoneDoes
<1> HIDE DEF x
<1>5. Now(r, mem.registry, mem.mark, mem.recon, mem.writing, mem.dying)
      /\ Becomes(r, mem, v, "gone") /\ Lowered(r, mem)
  BY <1>4, ReportDoes DEF Statuses
<1> HIDE DEF r
<1>6. LaunchAs(Start, "idle", NoEngine, NoEngine, {})
  BY <1>1, <1>2, EndsDoes
<1>. QED BY <1>1, <1>5, <1>6, CancelDoes

\* The guard has read the row.
LEMMA RowReadDoes ==
    ASSUME Typed, NEW l \in Launcher, RowRead(l)
    PROVE  /\ launch[l].at = "checking"
           /\ \/ row /\ mem' = mem /\ LaunchAs(l, "idle", NoEngine, NoEngine, {})
              \/ /\ ~row /\ Latched(mem', mem, mem.registry) /\ Lowered(mem', mem)
                 /\ Now(mem', mem.registry, mem.mark, mem.recon, mem.writing, mem.dying)
                 /\ \/ /\ mem.registry = NoEngine
                       /\ LaunchAs(l, "repurging", launch[l].eng, NoEngine, launch[l].waits)
                    \/ /\ mem.registry \in Engine
                       /\ LaunchAs(l, "retiring", launch[l].eng, mem.registry, launch[l].waits)
           /\ escaped' = (escaped \/ (row /\ DeleteUnderWay))
           /\ UNCHANGED <<row, profile, elsewhere, overlapped, crossed, refused>>
<1>1. /\ launch[l].at = "checking" /\ escaped' = (escaped \/ (row /\ DeleteUnderWay))
      /\ IF row THEN Ends(l) /\ UNCHANGED <<mem, profile>> ELSE Retire(l, mem)
      /\ UNCHANGED <<row, elsewhere, overlapped, crossed, refused>>
  BY DEF RowRead
<1>2. launch[l].victim = NoEngine
  BY <1>1 DEF Typed, LaunchShape, LaunchFits, TearsDown
<1>3. CASE row
  BY <1>1, <1>3, EndsDoes
<1>4. CASE ~row
  BY <1>1, <1>2, <1>4, TypedParts, RetireDoes
<1>. QED BY <1>3, <1>4

\* The guard's teardown is over, one way or the other.
LEMMA RetireEndsDoes ==
    ASSUME Typed, NEW l \in Launcher, RetireEnds(l) \/ RetireTimesOut(l)
    PROVE  LET v == launch[l].victim
               reg == IF mem.registry = v THEN NoEngine ELSE mem.registry
           IN  /\ launch[l].at = "retiring" /\ v \in Engine
               /\ Now(mem', reg, mem.mark, mem.recon, mem.writing, mem.dying) /\ mem'.status = mem.status
               /\ \/ Becomes(mem', mem, v, "gone")
                  \/ mem.eng[v] = "closing" /\ Becomes(mem', mem, v, "leaked")
               /\ LaunchAs(l, "repurging", launch[l].eng, NoEngine, launch[l].waits)
               /\ UNCHANGED <<row, profile, elsewhere, histVars>>
<1> DEFINE v == launch[l].victim
           reg == IF mem.registry = v THEN NoEngine ELSE mem.registry
           r == [launch[l] EXCEPT !.at = "repurging", !.victim = NoEngine]
           g == Gone(mem, v)
           k == [mem EXCEPT !.eng[v] = "leaked"]
<1>1. /\ launch[l].at = "retiring" /\ launch' = [launch EXCEPT ![l] = r]
      /\ UNCHANGED <<row, profile, elsewhere, histVars>>
      /\ \/ mem' = DeleteIfLive(g, v)
         \/ mem.eng[v] = "closing" /\ mem' = DeleteIfLive(k, v)
  BY DEF RetireEnds, RetireTimesOut
<1>2. v \in Engine
  BY <1>1 DEF Typed, LaunchShape, LaunchFits, TearsDown
<1>3. r \in LaunchRecord /\ r.at = "repurging" /\ r.victim = NoEngine
      /\ r.eng = launch[l].eng /\ r.waits = launch[l].waits
  BY TypedParts DEF LaunchRecord, LaunchAt
<1> HIDE DEF r
<1>4. LaunchAs(l, "repurging", launch[l].eng, NoEngine, launch[l].waits)
  BY <1>1, <1>3, LaunchReplaced
<1> HIDE DEF v
<1>5. Now(g, mem.registry, mem.mark, mem.recon, mem.writing, mem.dying)
      /\ Becomes(g, mem, v, "gone") /\ g.status = mem.status
  BY <1>2, TypedParts, GoneDoes
<1>6. Now(k, mem.registry, mem.mark, mem.recon, mem.writing, mem.dying)
      /\ Becomes(k, mem, v, "leaked") /\ k.status = mem.status
  <2>1. "leaked" \in EngineStates
    BY DEF EngineStates
  <2>. QED BY <1>2, <2>1, TypedParts, EngDoes
<1> HIDE DEF g, k
<1>7. /\ Now(mem', reg, mem.mark, mem.recon, mem.writing, mem.dying) /\ mem'.status = mem.status
      /\ \/ Becomes(mem', mem, v, "gone")
         \/ mem.eng[v] = "closing" /\ Becomes(mem', mem, v, "leaked")
  <2>1. CASE mem' = DeleteIfLive(g, v)
    BY <1>2, <1>5, <2>1, DeleteIfLiveDoes
  <2>2. CASE mem.eng[v] = "closing" /\ mem' = DeleteIfLive(k, v)
    BY <1>2, <1>6, <2>2, DeleteIfLiveDoes
  <2>. QED BY <1>1, <2>1, <2>2
<1> HIDE DEF reg
<1>. QED BY <1>1, <1>2, <1>4, <1>7 DEF v, reg

\* The directories of a deleted session are removed once more.
LEMMA RepurgedDoes ==
    ASSUME Typed, NEW l \in Launcher, Repurged(l)
    PROVE  /\ launch[l].at = "repurging" /\ LaunchAs(l, "idle", NoEngine, NoEngine, {})
           /\ profile' = (profile /\ row)
           /\ UNCHANGED <<row, mem, elsewhere, histVars>>
BY EndsDoes DEF Repurged

\* The reconnect timer fires.
LEMMA TimerFiresDoes ==
    ASSUME Typed, NEW l \in Attempt, TimerFires(l)
    PROVE  /\ launch[l].at = "idle" /\ mem.recon.armed
           /\ mem'.recon.kept = mem.recon.kept /\ ~mem'.recon.armed
           /\ \/ /\ mem.mark /\ mem'.eng = mem.eng /\ mem'.status = mem.status
                 /\ Now(mem', mem.registry, mem.mark, mem'.recon, mem.writing, mem.dying)
                 /\ UNCHANGED <<launch, overlapped, crossed>>
              \/ /\ ~mem.mark /\ mem.registry = NoEngine /\ removing = {} /\ Begun
                 /\ Registered(l, mem, mem.mark, mem'.recon)
              \/ /\ ~mem.mark /\ mem.registry = NoEngine /\ removing # {} /\ Begun
                 /\ mem'.eng = mem.eng /\ mem'.status = mem.status
                 /\ Now(mem', mem.registry, mem.mark, mem'.recon, mem.writing, mem.dying)
                 /\ LaunchAs(l, "fenced", NoEngine, NoEngine, removing)
              \/ /\ ~mem.mark /\ mem.registry \in Engine /\ Begun
                 /\ Now(mem', mem.registry, mem.mark, mem'.recon, mem.writing, mem.dying)
                 /\ Latched(mem', mem, mem.registry) /\ Lowered(mem', mem)
                 /\ LaunchAs(l, "destroying", NoEngine, mem.registry, {})
           /\ UNCHANGED <<row, profile, elsewhere, refused, escaped>>
<1> DEFINE c == [mem.recon EXCEPT !.armed = FALSE]
           m == [mem EXCEPT !.recon = c]
           r == [IdleLaunch EXCEPT !.at = "destroying", !.victim = mem.registry]
<1>1. mem \in Memory /\ mem.recon \in Recon /\ mem.registry \in Engine \cup {NoEngine} /\ l \in Launcher
      /\ l # Start
  BY TypedParts
<1>2. c \in Recon /\ c.kept = mem.recon.kept /\ ~c.armed
  BY <1>1 DEF Recon
<1>3. m = [mem EXCEPT !.recon.armed = FALSE]
  OBVIOUS
<1> HIDE DEF c
<1>4. Now(m, mem.registry, mem.mark, c, mem.writing, mem.dying) /\ m.eng = mem.eng /\ m.status = mem.status
  BY <1>1, <1>2 DEF Memory
<1>5. /\ launch[l].at = "idle" /\ mem.recon.armed /\ UNCHANGED <<row, elsewhere, refused, escaped>>
      /\ \/ m.mark /\ mem' = m /\ UNCHANGED <<launch, profile, overlapped, crossed>>
         \/ ~m.mark /\ Begun /\ m.registry = NoEngine /\ Fence(l, m)
         \/ /\ ~m.mark /\ Begun /\ m.registry # NoEngine
            /\ mem' = Shut(m, m.registry) /\ launch' = [launch EXCEPT ![l] = r] /\ profile' = profile
  BY <1>3, <1>4 DEF TimerFires, InFlight
<1> HIDE DEF m
<1>6. CASE m.mark /\ mem' = m /\ UNCHANGED <<launch, profile, overlapped, crossed>>
  BY <1>2, <1>4, <1>5, <1>6
<1>7. CASE ~m.mark /\ Begun /\ m.registry = NoEngine /\ Fence(l, m)
  <2>1. CASE removing = {} /\ PassFence(l, m)
    <3>1. Register(l, m)
      BY <1>1, <2>1 DEF PassFence
    <3>2. profile' = profile /\ Registered(l, m, m.mark, m.recon)
      BY <1>1, <1>4, <3>1, RegisterDoes DEF Registered
    <3>3. Registered(l, mem, mem.mark, c) /\ mem'.recon = c
      BY <1>4, <3>2 DEF Registered
    <3>. QED BY <1>2, <1>4, <1>5, <1>7, <2>1, <3>2, <3>3
  <2>2. CASE ~(removing = {} /\ PassFence(l, m))
    BY <1>1, <1>2, <1>4, <1>5, <1>7, <2>2, FenceDoes
  <2>. QED BY <2>1, <2>2
<1>8. CASE /\ ~m.mark /\ Begun /\ m.registry # NoEngine
           /\ mem' = Shut(m, m.registry) /\ launch' = [launch EXCEPT ![l] = r] /\ profile' = profile
  <2>1. mem.registry \in Engine
    BY <1>1, <1>4, <1>8
  <2>2. r \in LaunchRecord /\ r.at = "destroying" /\ r.victim = mem.registry /\ r.eng = NoEngine /\ r.waits = {}
    BY <2>1 DEF IdleLaunch, LaunchRecord, LaunchAt
  <2> HIDE DEF r
  <2>3. LaunchAs(l, "destroying", NoEngine, mem.registry, {})
    BY <1>1, <1>8, <2>2, LaunchReplaced
  <2>4. /\ Now(mem', mem.registry, mem.mark, c, mem.writing, mem.dying)
        /\ Latched(mem', mem, mem.registry) /\ Lowered(mem', mem)
    BY <1>4, <1>8, <2>1, ShutDoes
  <2>. QED BY <1>2, <1>4, <1>5, <1>8, <2>1, <2>3, <2>4
<1>. QED BY <1>5, <1>6, <1>7, <1>8

\* The engine a reconnect replaces is gone.
LEMMA OldEngineGoneDoes ==
    ASSUME Typed, NEW l \in Launcher, OldEngineGone(l)
    PROVE  LET v == launch[l].victim
               reg == IF mem.registry = v THEN NoEngine ELSE mem.registry
           IN  /\ launch[l].at \in {"destroying", "escalating"} /\ v \in Engine /\ l \in Attempt
               /\ mem'.status = mem.status
               /\ \/ /\ removing = {}
                     /\ \E e \in Engine :
                          /\ e \notin Held /\ mem.eng[e] \in {"none", "gone"}
                          /\ Now(mem', e, mem.mark, mem.recon, e, mem.dying)
                          /\ \A f \in Engine : mem'.eng[f] = IF f = e THEN "made"
                                                           ELSE IF f = v THEN "gone" ELSE mem.eng[f]
                          /\ LaunchAs(l, "writing", e, NoEngine, {})
                  \/ /\ removing # {}
                     /\ Now(mem', reg, mem.mark, mem.recon, mem.writing, mem.dying)
                     /\ Becomes(mem', mem, v, "gone")
                     /\ LaunchAs(l, "fenced", NoEngine, NoEngine, removing)
               /\ UNCHANGED <<row, profile, elsewhere, histVars>>
<1> DEFINE v == launch[l].victim
           reg == IF mem.registry = v THEN NoEngine ELSE mem.registry
           g == Gone(mem, v)
           m == DeleteIfLive(g, v)
<1>1. /\ launch[l].at \in {"destroying", "escalating"} /\ Fence(l, m)
      /\ UNCHANGED <<row, elsewhere, histVars>>
  BY DEF OldEngineGone
<1>2. v \in Engine /\ l \in Attempt /\ l # Start
  BY <1>1, TypedParts DEF Typed, LaunchShape, LaunchFits, TearsDown
<1> HIDE DEF v
<1>3. Now(g, mem.registry, mem.mark, mem.recon, mem.writing, mem.dying)
      /\ Becomes(g, mem, v, "gone") /\ g.status = mem.status
  BY <1>2, TypedParts, GoneDoes
<1> HIDE DEF g
<1>4. Now(m, reg, mem.mark, mem.recon, mem.writing, mem.dying)
      /\ Becomes(m, mem, v, "gone") /\ m.status = mem.status
  BY <1>2, <1>3, DeleteIfLiveDoes
<1> HIDE DEF m, reg
<1>5. CASE removing = {} /\ PassFence(l, m)
  <2>1. Register(l, m)
    BY <1>2, <1>5 DEF PassFence
  <2>2. profile' = profile /\ Registered(l, m, m.mark, m.recon)
    BY <1>4, <2>1, RegisterDoes DEF Registered
  <2>3. PICK e \in Engine :
            /\ e \notin Held /\ m.eng[e] \in {"none", "gone"}
            /\ Now(mem', e, m.mark, m.recon, e, m.dying)
            /\ Becomes(mem', m, e, "made") /\ mem'.status = m.status
            /\ LaunchAs(l, "writing", e, NoEngine, {})
    BY <2>2 DEF Registered
  <2>4. /\ Now(mem', e, mem.mark, mem.recon, e, mem.dying)
        /\ \A f \in Engine : mem'.eng[f] = IF f = e THEN "made" ELSE IF f = v THEN "gone" ELSE mem.eng[f]
        /\ mem'.status = mem.status
    BY <1>4, <2>3
  <2>5. v \in Held
    BY <1>2, TypedParts DEF v, Held
  <2>6. mem.eng[e] \in {"none", "gone"}
    BY <1>4, <2>3, <2>5
  <2>. QED BY <1>1, <1>2, <1>5, <2>2, <2>3, <2>4, <2>6 DEF v
<1>6. CASE ~(removing = {} /\ PassFence(l, m))
  <2>1. removing # {} /\ mem' = m /\ profile' = profile /\ LaunchAs(l, "fenced", NoEngine, NoEngine, removing)
    BY <1>1, <1>4, <1>6, FenceDoes
  <2>. QED BY <1>1, <1>2, <1>4, <2>1 DEF v, reg
<1>. QED BY <1>5, <1>6

\* The old engine's destroy has timed out and a kill follows.
LEMMA DestroyTimesOutDoes ==
    ASSUME Typed, NEW l \in Launcher, DestroyTimesOut(l)
    PROVE  /\ launch[l].at = "destroying"
           /\ LaunchAs(l, "escalating", launch[l].eng, launch[l].victim, launch[l].waits)
           /\ UNCHANGED <<row, profile, mem, elsewhere, histVars>>
BY GoesDoes DEF DestroyTimesOut, LaunchAt

-----------------------------------------------------------------------------
(* What each step does: the requests.                                      *)

\* stop() or delete() marks the session.
LEMMA CalledDoes ==
    ASSUME Typed, NEW q \in Request, NEW kind \in Kinds, Called(q, kind)
    PROVE  /\ Now(mem', mem.registry, TRUE, mem.recon, mem.writing, mem.dying)
           /\ mem'.eng = mem.eng /\ mem'.status = mem.status
           /\ RequestAs(q, "entered", kind, NoEngine, {})
           /\ UNCHANGED <<row, profile, removing, wiping, launch, losing>>
<1> DEFINE r == [IdleRequest EXCEPT !.at = "entered", !.kind = kind]
<1>1. /\ mem' = [mem EXCEPT !.mark = TRUE] /\ request' = [request EXCEPT ![q] = r]
      /\ UNCHANGED <<row, profile, removing, wiping, launch, losing>>
  BY DEF Called
<1>2. r \in RequestRecord /\ r.at = "entered" /\ r.kind = kind /\ r.eng = NoEngine /\ r.waits = {}
  BY DEF IdleRequest, RequestRecord, RequestAt
<1> HIDE DEF r
<1>3. RequestAs(q, "entered", kind, NoEngine, {})
  BY <1>1, <1>2, RequestReplaced
<1>. QED BY <1>1, <1>3, TypedParts, MarkDoes

\* logout() or forceKill() marks the session and captures its engine.
LEMMA EngineCalledDoes ==
    ASSUME Typed, NEW q \in Request, NEW kind \in Kinds, EngineCalled(q, kind)
    PROVE  /\ row /\ mem.registry \in Engine
           /\ Now(mem', mem.registry, TRUE, NoRecon, mem.writing, mem.dying) /\ Lowered(mem', mem)
           /\ \/ /\ mem.writing = mem.registry /\ mem'.eng = mem.eng /\ removing' = removing
                 /\ RequestAs(q, "waiting", kind, mem.registry, {})
              \/ /\ mem.writing # mem.registry /\ Latched(mem', mem, mem.registry)
                 /\ \/ kind \in {"stop", "logout"} /\ RequestAs(q, "closing", kind, mem.registry, {})
                    \/ kind \notin {"stop", "logout"} /\ RequestAs(q, "killing", kind, mem.registry, {})
                 /\ \/ removing' = removing
                    \/ /\ kind = "logout" /\ mem.eng[mem.registry] \in Running
                       /\ removing' = removing \cup {mem.registry}
           /\ UNCHANGED <<row, profile, wiping, launch, losing>>
<1> DEFINE m == Retiring
<1>1. /\ row /\ mem.registry # NoEngine /\ Capture(q, kind, m)
      /\ UNCHANGED <<row, profile, wiping, launch, losing>>
  BY DEF EngineCalled
<1>2. Now(m, mem.registry, TRUE, NoRecon, mem.writing, mem.dying) /\ m.eng = mem.eng /\ m.status = mem.status
  BY RetiringDoes
<1> HIDE DEF m
<1>3. /\ m.registry \in Engine
      /\ Now(mem', m.registry, m.mark, m.recon, m.writing, m.dying) /\ Lowered(mem', m)
      /\ \/ /\ m.writing = m.registry /\ mem' = m /\ removing' = removing
            /\ RequestAs(q, "waiting", kind, m.registry, {})
         \/ /\ m.writing # m.registry /\ Latched(mem', m, m.registry)
            /\ \/ kind \in {"stop", "logout"} /\ RequestAs(q, "closing", kind, m.registry, {})
               \/ kind \notin {"stop", "logout"} /\ RequestAs(q, "killing", kind, m.registry, {})
            /\ \/ removing' = removing
               \/ /\ kind = "logout" /\ m.eng[m.registry] \in Running
                  /\ removing' = removing \cup {m.registry}
  BY <1>1, <1>2, CaptureDoes
<1>4. CASE mem.writing = mem.registry
  BY <1>1, <1>2, <1>3, <1>4
<1>5. CASE mem.writing # mem.registry
  BY <1>1, <1>2, <1>3, <1>5
<1>. QED BY <1>4, <1>5

\* stop() has the row.
LEMMA StopCapturesDoes ==
    ASSUME Typed, NEW q \in Request, StopCaptures(q)
    PROVE  /\ request[q].at = "entered" /\ row /\ removing' = removing
           /\ Now(mem', mem.registry, TRUE, NoRecon, mem.writing, mem.dying) /\ Lowered(mem', mem)
           /\ \/ /\ mem.registry = NoEngine /\ mem'.eng = mem.eng /\ mem'.status = "DISCONNECTED"
                 /\ RequestAs(q, "idle", "stop", NoEngine, {})
              \/ /\ mem.registry \in Engine /\ mem.writing = mem.registry /\ mem'.eng = mem.eng
                 /\ RequestAs(q, "waiting", "stop", mem.registry, {})
              \/ /\ mem.registry \in Engine /\ mem.writing # mem.registry
                 /\ Latched(mem', mem, mem.registry)
                 /\ RequestAs(q, "closing", "stop", mem.registry, {})
           /\ UNCHANGED <<row, profile, wiping, launch, losing, histVars>>
<1> DEFINE m == Retiring
<1>1. /\ request[q].at = "entered" /\ row /\ UNCHANGED <<row, profile, wiping, launch, losing, histVars>>
      /\ IF mem.registry = NoEngine
         THEN mem' = Report(m, "DISCONNECTED") /\ Answers(q) /\ UNCHANGED removing
         ELSE Capture(q, "stop", m)
  BY DEF StopCaptures
<1>2. Now(m, mem.registry, TRUE, NoRecon, mem.writing, mem.dying) /\ m.eng = mem.eng /\ m.status = mem.status
  BY RetiringDoes
<1> HIDE DEF m
<1>3. CASE mem.registry = NoEngine
  BY <1>1, <1>2, <1>3, AnswersDoes, ReportDoes DEF Statuses
<1>4. CASE mem.registry # NoEngine
  <2>1. "stop" \in Kinds /\ "stop" \in {"stop", "logout"} /\ "stop" # "logout"
    BY DEF Kinds
  <2>2. /\ m.registry \in Engine /\ removing' = removing
        /\ Now(mem', m.registry, m.mark, m.recon, m.writing, m.dying) /\ Lowered(mem', m)
        /\ \/ /\ m.writing = m.registry /\ mem' = m
              /\ RequestAs(q, "waiting", "stop", m.registry, {})
           \/ /\ m.writing # m.registry /\ Latched(mem', m, m.registry)
              /\ RequestAs(q, "closing", "stop", m.registry, {})
    BY <1>1, <1>2, <1>4, <2>1, CaptureDoes
  <2>3. CASE mem.writing = mem.registry
    BY <1>1, <1>2, <2>2, <2>3
  <2>4. CASE mem.writing # mem.registry
    BY <1>1, <1>2, <2>2, <2>4
  <2>. QED BY <2>3, <2>4
<1>. QED BY <1>3, <1>4

\* The captured engine's write is no longer pending.
LEMMA WaitEndsDoes ==
    ASSUME Typed, NEW q \in Request, WaitEnds(q)
    PROVE  LET e == request[q].eng
               kind == request[q].kind
           IN  /\ request[q].at = "waiting" /\ e \in Engine
               /\ Now(mem', mem.registry, mem.mark, mem.recon, mem.writing, mem.dying)
               /\ Latched(mem', mem, e) /\ Lowered(mem', mem)
               /\ \/ kind \in {"stop", "logout"} /\ RequestAs(q, "closing", kind, e, {})
                  \/ kind \notin {"stop", "logout"} /\ RequestAs(q, "killing", kind, e, {})
               /\ \/ removing' = removing
                  \/ kind = "logout" /\ mem.eng[e] \in Running /\ removing' = removing \cup {e}
               /\ UNCHANGED <<row, profile, wiping, launch, losing, histVars>>
<1>1. /\ request[q].at = "waiting" /\ TearDown(q, request[q].kind, request[q].eng, mem)
      /\ UNCHANGED <<row, profile, wiping, launch, losing, histVars>>
  BY DEF WaitEnds
<1>2. request[q].eng \in Engine /\ request[q].kind \in Kinds /\ mem \in Memory
  BY <1>1, TypedParts DEF Typed, RequestShape, RequestFits, Captured
<1>. QED BY <1>1, <1>2, TearDownDoes

\* The teardown is over and the call is answered; after a delete()'s kill, the
\* second fence.
LEMMA ClosesDoes ==
    ASSUME Typed, NEW q \in Request, StopCloses(q) \/ LogoutReturns(q) \/ KillEnds(q)
    PROVE  LET e == request[q].eng
               reg == IF mem.registry = e THEN NoEngine ELSE mem.registry
           IN  /\ request[q].at \in {"closing", "killing"} /\ e \in Engine
               /\ Now(mem', reg, mem.mark, mem.recon, mem.writing, mem.dying)
               /\ Becomes(mem', mem, e, "gone")
               /\ \/ /\ request[q].kind # "delete" /\ RequestAs(q, "idle", "stop", NoEngine, {})
                     /\ mem'.status = IF row THEN "DISCONNECTED" ELSE mem.status
                  \/ /\ request[q].kind = "delete" /\ request[q].at = "killing"
                     /\ mem'.status = mem.status
                     /\ \/ removing = {} /\ RequestAs(q, "deleting", "delete", e, removing)
                        \/ removing # {} /\ RequestAs(q, "fenced again", "delete", e, removing)
               /\ UNCHANGED <<row, profile, removing, wiping, launch, losing, histVars>>
<1> DEFINE e == request[q].eng
           reg == IF mem.registry = e THEN NoEngine ELSE mem.registry
           g == Gone(mem, e)
<1>1. /\ UNCHANGED <<row, profile, removing, wiping, launch, losing, histVars>>
      /\ \/ /\ request[q].at \in {"closing", "killing"} /\ request[q].kind # "delete"
            /\ mem' = Retired(g, e) /\ Answers(q)
         \/ /\ request[q].at = "killing" /\ request[q].kind = "delete"
            /\ SecondFence(q, DeleteIfLive(g, e))
  <2>1. CASE StopCloses(q)
    BY <2>1 DEF StopCloses
  <2>2. CASE LogoutReturns(q)
    BY <2>2 DEF LogoutReturns
  <2>3. CASE KillEnds(q)
    BY <2>3 DEF KillEnds
  <2>. QED BY <2>1, <2>2, <2>3
<1>2. e \in Engine
  BY <1>1 DEF Typed, RequestShape, RequestFits, Captured
<1>3. Now(g, mem.registry, mem.mark, mem.recon, mem.writing, mem.dying)
      /\ Becomes(g, mem, e, "gone") /\ g.status = mem.status
  BY <1>2, TypedParts, GoneDoes
<1> HIDE DEF g
<1>4. CASE /\ request[q].at \in {"closing", "killing"} /\ request[q].kind # "delete"
           /\ mem' = Retired(g, e) /\ Answers(q)
  <2>1. /\ Now(mem', reg, mem.mark, mem.recon, mem.writing, mem.dying) /\ mem'.eng = g.eng
        /\ mem'.status = IF row THEN "DISCONNECTED" ELSE mem.status
    BY <1>2, <1>3, <1>4, RetiredDoes
  <2>2. RequestAs(q, "idle", "stop", NoEngine, {})
    BY <1>4, AnswersDoes
  <2>3. Becomes(mem', mem, e, "gone")
    BY <1>3, <2>1
  <2> HIDE DEF e, reg
  <2>. QED BY <1>1, <1>2, <1>4, <2>1, <2>2, <2>3 DEF e, reg
<1>5. CASE /\ request[q].at = "killing" /\ request[q].kind = "delete"
           /\ SecondFence(q, DeleteIfLive(g, e))
  <2> DEFINE m == DeleteIfLive(g, e)
  <2>1. Now(m, reg, mem.mark, mem.recon, mem.writing, mem.dying) /\ m.eng = g.eng /\ m.status = mem.status
    BY <1>2, <1>3, DeleteIfLiveDoes
  <2> HIDE DEF m
  <2>2. /\ mem' = m
        /\ \/ removing = {} /\ RequestAs(q, "deleting", request[q].kind, request[q].eng, removing)
           \/ removing # {} /\ RequestAs(q, "fenced again", request[q].kind, request[q].eng, removing)
    BY <1>5, <2>1, SecondFenceDoes DEF m
  <2>. QED BY <1>1, <1>2, <1>3, <1>5, <2>1, <2>2
<1>. QED BY <1>1, <1>4, <1>5

\* A logout answers before its removal has settled.
LEMMA LogoutOverrunsDoes ==
    ASSUME Typed, NEW q \in Request, LogoutOverruns(q)
    PROVE  LET e == request[q].eng
               reg == IF mem.registry = e THEN NoEngine ELSE mem.registry
           IN  /\ request[q].at = "closing" /\ request[q].kind = "logout" /\ e \in Engine
               /\ Now(mem', reg, mem.mark, mem.recon, mem.writing, mem.dying \cup {e})
               /\ mem'.eng = mem.eng /\ mem'.status = IF row THEN "DISCONNECTED" ELSE mem.status
               /\ RequestAs(q, "idle", "stop", NoEngine, {})
               /\ UNCHANGED <<row, profile, removing, wiping, launch, losing, histVars>>
<1> DEFINE e == request[q].eng
           D == mem.dying \cup {e}
           x == [mem EXCEPT !.dying = D]
<1>1. /\ request[q].at = "closing" /\ request[q].kind = "logout" /\ mem' = Retired(x, e) /\ Answers(q)
      /\ UNCHANGED <<row, profile, removing, wiping, launch, losing, histVars>>
  BY DEF LogoutOverruns
<1>2. e \in Engine /\ D \in SUBSET Engine
  BY <1>1, TypedParts DEF Typed, RequestShape, RequestFits, Captured
<1> HIDE DEF D
<1>3. Now(x, mem.registry, mem.mark, mem.recon, mem.writing, D) /\ x.eng = mem.eng /\ x.status = mem.status
  <2>1. mem \in Memory
    BY TypedParts
  <2>. QED BY <1>2, <2>1, DyingDoes
<1> HIDE DEF x
<1>. QED BY <1>1, <1>2, <1>3, AnswersDoes, RetiredDoes DEF D

\* A stop's disconnect failed and a kill follows.
LEMMA StopEscalatesDoes ==
    ASSUME Typed, NEW q \in Request, StopEscalates(q)
    PROVE  /\ request[q].at = "closing" /\ request[q].kind = "stop"
           /\ RequestAs(q, "killing", request[q].kind, request[q].eng, request[q].waits)
           /\ UNCHANGED <<row, profile, mem, removing, wiping, launch, losing, histVars>>
BY StepsDoes DEF StopEscalates, RequestAt

\* delete() at its first fence: it waits, or begins.
DeleteStarts(q) ==
    /\ Now(mem', mem.registry, TRUE, NoRecon, mem.writing, mem.dying) /\ Lowered(mem', mem)
    /\ \/ /\ mem.registry = NoEngine /\ mem'.eng = mem.eng
          /\ \/ removing = {} /\ RequestAs(q, "deleting", "delete", NoEngine, removing)
             \/ removing # {} /\ RequestAs(q, "fenced again", "delete", NoEngine, removing)
       \/ /\ mem.registry \in Engine /\ mem.writing = mem.registry /\ mem'.eng = mem.eng
          /\ RequestAs(q, "waiting", "delete", mem.registry, {})
       \/ /\ mem.registry \in Engine /\ mem.writing # mem.registry
          /\ Latched(mem', mem, mem.registry)
          /\ RequestAs(q, "killing", "delete", mem.registry, {})

\* delete() has the row.
LEMMA DeleteEntersDoes ==
    ASSUME Typed, NEW q \in Request, DeleteEnters(q)
    PROVE  /\ request[q].at = "entered" /\ row
           /\ \/ DeleteStarts(q)
              \/ mem' = mem /\ RequestAs(q, "fenced", "delete", NoEngine, removing)
           /\ UNCHANGED <<row, profile, removing, wiping, launch, losing, histVars>>
<1>1. /\ request[q].at = "entered" /\ request[q].kind = "delete" /\ row
      /\ UNCHANGED <<row, profile, wiping, launch, losing, histVars>>
      /\ \/ DeleteBegins(q)
         \/ /\ request' = [request EXCEPT ![q].at = "fenced", ![q].waits = removing]
            /\ UNCHANGED <<mem, removing>>
  BY DEF DeleteEnters
<1>2. request[q].eng = NoEngine
  BY <1>1 DEF Typed, RequestShape, RequestFits, Early
<1>3. CASE DeleteBegins(q)
  BY <1>1, <1>2, <1>3, DeleteBeginsDoes DEF DeleteStarts
<1>4. CASE /\ request' = [request EXCEPT ![q].at = "fenced", ![q].waits = removing]
           /\ UNCHANGED <<mem, removing>>
  <2> DEFINE r == [request[q] EXCEPT !.at = "fenced", !.waits = removing]
  <2>1. /\ r \in RequestRecord /\ r.kind = request[q].kind /\ r.eng = request[q].eng /\ r.waits = removing
        /\ r.at = "fenced"
    BY TypedParts DEF RequestRecord, RequestAt
  <2>2. request' = [request EXCEPT ![q] = r]
    BY <1>4, TypedParts
  <2> HIDE DEF r
  <2>. QED BY <1>1, <1>2, <1>4, <2>1, <2>2, RequestReplaced
<1>. QED BY <1>1, <1>3, <1>4

\* The removals that delete() waited for have settled.
LEMMA DeleteFenceOpensDoes ==
    ASSUME Typed, NEW q \in Request, DeleteFenceOpens(q)
    PROVE  /\ request[q].waits \cap removing = {}
           /\ \/ request[q].at = "fenced" /\ DeleteStarts(q)
              \/ /\ request[q].at = "fenced again" /\ mem' = mem
                 /\ RequestAs(q, "deleting", "delete", request[q].eng, request[q].waits)
           /\ UNCHANGED <<row, profile, removing, wiping, launch, losing, histVars>>
<1>1. /\ request[q].waits \cap removing = {} /\ UNCHANGED <<row, profile, wiping, launch, losing, histVars>>
      /\ \/ request[q].at = "fenced" /\ DeleteBegins(q)
         \/ request[q].at = "fenced again" /\ Steps(q, "deleting") /\ UNCHANGED <<mem, removing>>
  BY DEF DeleteFenceOpens
<1>2. CASE request[q].at = "fenced" /\ DeleteBegins(q)
  <2>1. request[q].eng = NoEngine /\ request[q].kind = "delete"
    BY <1>2 DEF Typed, RequestShape, RequestFits, Early
  <2>. QED BY <1>1, <1>2, <2>1, DeleteBeginsDoes DEF DeleteStarts
<1>3. CASE request[q].at = "fenced again" /\ Steps(q, "deleting") /\ UNCHANGED <<mem, removing>>
  <2>1. request[q].kind = "delete"
    BY <1>3 DEF Typed, RequestShape, RequestFits, Late
  <2>2. RequestAs(q, "deleting", request[q].kind, request[q].eng, request[q].waits)
    BY <1>3, StepsDoes DEF RequestAt
  <2>. QED BY <1>1, <1>3, <2>1, <2>2
<1>. QED BY <1>1, <1>2, <1>3

\* delete() answers 409.
LEMMA DeleteRefusedDoes ==
    ASSUME Typed, NEW q \in Request, DeleteRefused(q)
    PROVE  /\ RequestAs(q, "idle", "stop", NoEngine, {})
           /\ \/ request[q].at = "fenced" /\ refused' = TRUE /\ mem' = mem
              \/ /\ request[q].at = "fenced again" /\ refused' = refused
                 /\ Now(mem', mem.registry, FALSE, mem.recon, mem.writing, mem.dying)
                 /\ mem'.eng = mem.eng /\ Lowered(mem', mem)
           /\ UNCHANGED <<row, profile, removing, wiping, launch, losing, overlapped, crossed, escaped>>
<1> DEFINE m == IF request[q].eng = NoEngine THEN mem ELSE Report(mem, "DISCONNECTED")
<1>1. /\ \/ request[q].at = "fenced" /\ refused' = TRUE /\ UNCHANGED mem
         \/ request[q].at = "fenced again" /\ mem' = [m EXCEPT !.mark = FALSE] /\ UNCHANGED refused
      /\ Answers(q)
      /\ UNCHANGED <<row, profile, removing, wiping, launch, losing, overlapped, crossed, escaped>>
  BY DEF DeleteRefused
<1>2. Now(m, mem.registry, mem.mark, mem.recon, mem.writing, mem.dying)
      /\ m.eng = mem.eng /\ Lowered(m, mem)
  BY TypedParts, ReportDoes DEF Statuses
<1> HIDE DEF m
<1>3. CASE request[q].at = "fenced"
  BY <1>1, <1>3, AnswersDoes
<1>4. CASE request[q].at # "fenced"
  <2> DEFINE x == [m EXCEPT !.mark = FALSE]
  <2>1. /\ request[q].at = "fenced again" /\ mem' = x /\ refused' = refused
    BY <1>1, <1>4
  <2>2. Now(x, mem.registry, FALSE, mem.recon, mem.writing, mem.dying)
        /\ x.eng = mem.eng /\ Lowered(x, mem)
    BY <1>2, MarkDoes
  <2> HIDE DEF x
  <2>. QED BY <1>1, <2>1, <2>2, AnswersDoes
<1>. QED BY <1>3, <1>4

\* The row goes.
LEMMA RowDeletedDoes ==
    ASSUME Typed, NEW q \in Request, RowDeleted(q)
    PROVE  /\ request[q].at = "deleting" /\ row' = FALSE
           /\ RequestAs(q, "purging", "delete", request[q].eng, request[q].waits)
           /\ UNCHANGED <<profile, mem, removing, wiping, launch, losing, histVars>>
<1>1. /\ request[q].at = "deleting" /\ row' = FALSE /\ Steps(q, "purging")
      /\ UNCHANGED <<profile, mem, removing, wiping, launch, losing, histVars>>
  BY DEF RowDeleted
<1>2. request[q].kind = "delete"
  BY <1>1 DEF Typed, RequestShape, RequestFits, Late
<1>. QED BY <1>1, <1>2, StepsDoes DEF RequestAt

\* A call takes the mark back: a 404, a delete() that failed, one that is done.
LEMMA UnmarksDoes ==
    ASSUME Typed, NEW q \in Request, NotFound(q) \/ DeleteFails(q) \/ Purged(q)
    PROVE  /\ \/ request[q].at = "entered" /\ ~row /\ profile' = profile
              \/ request[q].at = "deleting" /\ profile' = profile
              \/ request[q].at = "purging" /\ profile' = FALSE
           /\ Now(mem', mem.registry, FALSE, mem.recon, mem.writing, mem.dying)
           /\ mem'.eng = mem.eng /\ mem'.status = mem.status
           /\ RequestAs(q, "idle", "stop", NoEngine, {})
           /\ UNCHANGED <<row, removing, wiping, launch, losing, histVars>>
<1> DEFINE x == [mem EXCEPT !.mark = FALSE]
           y == [mem EXCEPT !.mark = FALSE, !.recovered = FALSE]
<1>1. Now(x, mem.registry, FALSE, mem.recon, mem.writing, mem.dying)
      /\ x.eng = mem.eng /\ x.status = mem.status
  BY TypedParts, MarkDoes
<1>2. Now(y, mem.registry, FALSE, mem.recon, mem.writing, mem.dying)
      /\ y.eng = mem.eng /\ y.status = mem.status
  BY TypedParts DEF Memory
<1>3. CASE NotFound(q) \/ DeleteFails(q)
  <2>1. /\ mem' = x /\ Answers(q)
        /\ \/ request[q].at = "entered" /\ ~row
           \/ request[q].at = "deleting"
        /\ UNCHANGED <<row, profile, removing, wiping, launch, losing, histVars>>
    BY <1>3 DEF NotFound, DeleteFails
  <2> HIDE DEF x
  <2>. QED BY <1>1, <2>1, AnswersDoes
<1>4. CASE Purged(q)
  <2>1. /\ mem' = y /\ Answers(q) /\ request[q].at = "purging" /\ profile' = FALSE
        /\ UNCHANGED <<row, removing, wiping, launch, losing, histVars>>
    BY <1>4 DEF Purged
  <2> HIDE DEF y
  <2>. QED BY <1>2, <2>1, AnswersDoes
<1>. QED BY <1>3, <1>4

-----------------------------------------------------------------------------
(* What each step does: engines, and what runs in the background.          *)

\* A kill, or a destroy that had timed out, completes.
LEMMA KillLandsDoes ==
    ASSUME Typed, NEW e \in Engine, KillLands(e) \/ LeakEnds(e)
    PROVE  /\ \/ e \in mem.dying \ removing /\ mem'.dying = mem.dying \ {e}
              \/ mem.eng[e] = "leaked" /\ mem'.dying = mem.dying
           /\ Now(mem', mem.registry, mem.mark, mem.recon, mem.writing, mem'.dying)
           /\ Becomes(mem', mem, e, "gone") /\ mem'.status = mem.status
           /\ UNCHANGED <<others, profile, removing, wiping, losing>>
<1> DEFINE g == Gone(mem, e)
           D == mem.dying \ {e}
           x == [g EXCEPT !.dying = D]
<1>1. Now(g, mem.registry, mem.mark, mem.recon, mem.writing, mem.dying)
      /\ Becomes(g, mem, e, "gone") /\ g.status = mem.status
  BY TypedParts, GoneDoes
<1> HIDE DEF g
<1>2. D \in SUBSET Engine
  BY TypedParts
<1> HIDE DEF D
<1>3. Now(x, mem.registry, mem.mark, mem.recon, mem.writing, D)
      /\ Becomes(x, mem, e, "gone") /\ x.status = mem.status
  BY <1>1, <1>2, DyingDoes
<1> HIDE DEF x
<1>4. CASE KillLands(e)
  <2>1. mem' = x
    BY <1>1, <1>4 DEF KillLands, x, g, D
  <2>2. e \in mem.dying \ removing /\ UNCHANGED <<others, profile, removing, wiping, losing>>
    BY <1>4 DEF KillLands
  <2>. QED BY <1>3, <2>1, <2>2 DEF D
<1>5. CASE LeakEnds(e)
  BY <1>1, <1>5 DEF LeakEnds, g
<1>. QED BY <1>4, <1>5

\* An open engine becomes ready, or a ready one stops answering.
LEMMA EngineRunsDoes ==
    ASSUME Typed, NEW e \in Engine, EngineReady(e) \/ EngineWedges(e)
    PROVE  /\ mem.eng[e] \in {"open", "ready"}
           /\ \E st \in {"ready", "wedged"} : Becomes(mem', mem, e, st)
           /\ Now(mem', mem.registry, mem.mark, mem'.recon, mem.writing, mem.dying)
           /\ mem'.recon.kept = mem.recon.kept /\ mem'.recon.armed = mem.recon.armed
           /\ \/ mem'.status = mem.status
              \/ mem.registry = e /\ mem'.status \in {mem.status, "READY"}
           /\ UNCHANGED <<others, profile, removing, wiping, losing>>
<1>0. mem \in Memory /\ {"ready", "wedged"} \subseteq EngineStates
  BY TypedParts DEF EngineStates
<1>1. CASE EngineReady(e)
  <2> DEFINE up == [mem EXCEPT !.eng[e] = "ready"]
             c == [up.recon EXCEPT !.attempts = 0]
             x == [up EXCEPT !.recon = c, !.misses = 0, !.recovered = FALSE]
             y == Report(x, "READY")
  <2>1. Now(up, mem.registry, mem.mark, mem.recon, mem.writing, mem.dying)
        /\ Becomes(up, mem, e, "ready") /\ up.status = mem.status
    BY <1>0, EngDoes
  <2>2. /\ mem.eng[e] = "open" /\ UNCHANGED <<others, profile, removing, wiping, losing>>
        /\ mem' = IF mem.registry # e THEN up
                  ELSE Report([up EXCEPT !.recon.attempts = 0, !.misses = 0, !.recovered = FALSE], "READY")
    BY <1>1 DEF EngineReady
  <2> HIDE DEF up
  <2>3. x = [up EXCEPT !.recon.attempts = 0, !.misses = 0, !.recovered = FALSE]
    OBVIOUS
  <2>4. c \in Recon /\ c.kept = up.recon.kept /\ c.armed = up.recon.armed
    BY <2>1, MemoryFields, LifecycleAssumption DEF Recon
  <2> HIDE DEF c
  <2>5. Now(x, mem.registry, mem.mark, c, mem.writing, mem.dying)
        /\ x.eng = up.eng /\ x.status = mem.status
    <3>1. up \in Memory /\ up.registry = mem.registry /\ up.mark = mem.mark
          /\ up.writing = mem.writing /\ up.dying = mem.dying /\ up.status = mem.status
      BY <2>1
    <3>2. x \in Memory
      <4> DEFINE a == [up EXCEPT !.recon = c]
                 b == [a EXCEPT !.misses = 0]
      <4>1. a \in Memory
        BY <2>4, <3>1 DEF Memory
      <4>2. x = [b EXCEPT !.recovered = FALSE]
        OBVIOUS
      <4> HIDE DEF a
      <4>3. b \in Memory
        BY <4>1 DEF Memory
      <4> HIDE DEF b, x
      <4>. QED BY <4>2, <4>3 DEF Memory
    <3>3. /\ x.registry = up.registry /\ x.mark = up.mark /\ x.recon = c /\ x.writing = up.writing
          /\ x.dying = up.dying /\ x.eng = up.eng /\ x.status = up.status
      BY <3>1 DEF Memory
    <3> HIDE DEF x
    <3>. QED BY <3>1, <3>2, <3>3
  <2>6. mem' = IF mem.registry # e THEN up ELSE y
    BY <2>2, <2>3
  <2> HIDE DEF x
  <2>7. Now(y, mem.registry, mem.mark, c, mem.writing, mem.dying)
        /\ y.eng = up.eng /\ y.status \in {mem.status, "READY"}
    BY <2>5, ReportDoes DEF Statuses
  <2> HIDE DEF y
  <2>8. CASE mem.registry # e
    BY <2>1, <2>2, <2>6, <2>8
  <2>9. CASE mem.registry = e
    BY <2>1, <2>2, <2>4, <2>6, <2>7, <2>9
  <2>. QED BY <2>8, <2>9
<1>2. CASE EngineWedges(e)
  <2> DEFINE x == [mem EXCEPT !.eng[e] = "wedged"]
  <2>1. Now(x, mem.registry, mem.mark, mem.recon, mem.writing, mem.dying)
        /\ Becomes(x, mem, e, "wedged") /\ x.status = mem.status
    BY <1>0, EngDoes
  <2>2. /\ mem.eng[e] = "ready" /\ mem' = x /\ UNCHANGED <<others, profile, removing, wiping, losing>>
    BY <1>2 DEF EngineWedges
  <2> HIDE DEF x
  <2>. QED BY <2>1, <2>2
<1>. QED BY <1>1, <1>2

\* An engine's end is reported: it is lost, or evicted; or nothing the proofs
\* read has changed.
LEMMA EngineEndsDoes ==
    ASSUME Typed, NEW e \in Engine,
           EngineDrops(e) \/ EngineUnlinked(e) \/ EngineFails(e) \/ StuckAuth(e) \/ WipeLands(e)
    PROVE  /\ \/ /\ mem.eng[e] \in Alive
                 /\ Now(mem', mem.registry, mem.mark, mem.recon, mem.writing, mem.dying)
                 /\ Becomes(mem', mem, e, "lost") /\ Lowered(mem', mem)
                 /\ losing' = losing \cup (IF mem.registry = e THEN {e} ELSE {})
                 /\ removing' \in {removing, removing \cup {e}}
              \/ /\ mem.eng[e] \in Alive /\ mem.registry = e
                 /\ Now(mem', NoEngine, mem.mark, NoRecon, mem.writing, mem.dying \cup {e})
                 /\ Latched(mem', mem, e) /\ Lowered(mem', mem)
                 /\ losing' = losing /\ removing' = removing
              \/ /\ Now(mem', mem.registry, mem.mark, mem.recon, mem.writing, mem.dying)
                 /\ mem'.eng = mem.eng /\ mem'.status = mem.status
                 /\ losing' = losing /\ removing' = removing
           /\ wiping' \subseteq Engine /\ profile' \in {profile, FALSE}
           /\ UNCHANGED others
<1>0. mem \in Memory /\ wiping \subseteq Engine /\ "open" \in Alive
  BY TypedParts DEF Alive
<1>1. CASE EngineDrops(e)
  <2>1. /\ mem.eng[e] \in Alive /\ mem' = Drop(mem, e) /\ losing' = losing \cup (IF mem.registry = e THEN {e} ELSE {})
        /\ UNCHANGED <<others, profile, removing, wiping>>
    BY <1>1 DEF EngineDrops, Loses
  <2>. QED BY <1>0, <2>1, DropDoes
<1>2. CASE EngineUnlinked(e)
  <2>1. /\ mem.eng[e] \in Alive /\ mem' = Drop(mem, e) /\ losing' = losing \cup (IF mem.registry = e THEN {e} ELSE {})
        /\ removing' = removing \cup {e} /\ UNCHANGED <<others, profile, wiping>>
    BY <1>2 DEF EngineUnlinked, Loses
  <2>. QED BY <1>0, <2>1, DropDoes
<1> DEFINE m == Errored(mem, e)
<1>3. ASSUME mem.eng[e] \in Alive
      PROVE  \/ /\ mem.registry # e
                /\ Now(m, mem.registry, mem.mark, mem.recon, mem.writing, mem.dying)
                /\ Becomes(m, mem, e, "lost") /\ Lowered(m, mem)
             \/ /\ mem.registry = e
                /\ Now(m, NoEngine, mem.mark, NoRecon, mem.writing, mem.dying \cup {e})
                /\ Latched(m, mem, e) /\ Lowered(m, mem)
  <2>1. CASE mem.registry = e
    BY <1>0, <2>1, ErroredDoes
  <2>2. CASE mem.registry # e
    <3>1. /\ Now(m, mem.registry, mem.mark, mem.recon, mem.writing, mem.dying) /\ Lowered(m, mem)
          /\ \A f \in Engine : m.eng[f] = IF f = e /\ mem.eng[f] \in Alive THEN "lost" ELSE mem.eng[f]
      BY <1>0, <2>2, ErroredDoes
    <3> HIDE DEF m
    <3>. QED BY <1>3, <2>2, <3>1
  <2>. QED BY <2>1, <2>2
<1> HIDE DEF m
<1>4. CASE EngineFails(e)
  <2>1. mem.eng[e] \in Alive /\ mem' = m /\ UNCHANGED <<others, profile, removing, wiping, losing>>
    BY <1>4 DEF EngineFails, m
  <2>2. CASE mem.registry = e
    BY <1>0, <1>3, <2>1, <2>2
  <2>3. CASE mem.registry # e
    BY <1>0, <1>3, <2>1, <2>3
  <2>. QED BY <2>2, <2>3
<1>5. CASE StuckAuth(e)
  <2>1. CASE mem' = m /\ wiping' = wiping
    <3>1. mem.eng[e] \in Alive /\ UNCHANGED <<others, profile, removing, losing>>
      BY <1>0, <1>5 DEF StuckAuth
    <3>2. CASE mem.registry = e
      BY <1>0, <1>3, <2>1, <3>1, <3>2
    <3>3. CASE mem.registry # e
      BY <1>0, <1>3, <2>1, <3>1, <3>3
    <3>. QED BY <3>2, <3>3
  <2>2. CASE ~(mem' = m /\ wiping' = wiping)
    <3>1. mem' = [mem EXCEPT !.recovered = TRUE] /\ wiping' = wiping \cup {e}
          /\ UNCHANGED <<others, profile, removing, losing>>
      BY <1>5, <2>2 DEF StuckAuth, m
    <3>. QED BY <1>0, <3>1 DEF Memory
  <2>. QED BY <2>1, <2>2
<1>6. CASE WipeLands(e)
  <2>1. wiping' = wiping \ {e} /\ profile' = FALSE /\ UNCHANGED <<others, removing>>
        /\ \/ /\ mem.eng[e] \in Alive /\ mem' = Drop(mem, e)
              /\ losing' = losing \cup (IF mem.registry = e THEN {e} ELSE {})
           \/ mem' = mem /\ losing' = losing
    BY <1>6 DEF WipeLands, Loses
  <2>2. CASE /\ mem.eng[e] \in Alive /\ mem' = Drop(mem, e)
             /\ losing' = losing \cup (IF mem.registry = e THEN {e} ELSE {})
    <3>1. /\ Now(mem', mem.registry, mem.mark, mem.recon, mem.writing, mem.dying)
          /\ Becomes(mem', mem, e, "lost") /\ Lowered(mem', mem)
      BY <1>0, <2>2, DropDoes
    <3>2. wiping' \subseteq Engine /\ removing' = removing /\ profile' = FALSE
      BY <1>0, <2>1
    <3>. QED BY <2>1, <2>2, <3>1, <3>2
  <2>3. CASE mem' = mem /\ losing' = losing
    BY <1>0, <2>1, <2>3, TypedParts
  <2>. QED BY <2>1, <2>2, <2>3
<1>. QED BY <1>1, <1>2, <1>4, <1>5, <1>6

\* The watchdog probes.
LEMMA ProbesDoes ==
    ASSUME Typed, NEW e \in Engine, ProbeFails(e) \/ ProbePasses
    PROVE  /\ Now(mem', mem.registry, mem.mark, mem.recon, mem.writing, mem.dying)
           /\ mem'.eng = mem.eng /\ mem'.status = mem.status
           /\ \/ losing' = losing
              \/ mem.registry = e /\ mem.eng[e] = "wedged" /\ losing' = losing \cup {e}
           /\ UNCHANGED <<others, profile, removing, wiping>>
<1>1. \A n \in 0 .. 1 : LET x == [mem EXCEPT !.misses = n]
                        IN  /\ Now(x, mem.registry, mem.mark, mem.recon, mem.writing, mem.dying)
                            /\ x.eng = mem.eng /\ x.status = mem.status
  BY TypedParts DEF Memory
<1>2. \E n \in 0 .. 1 : mem' = [mem EXCEPT !.misses = n]
  BY DEF ProbeFails, ProbePasses
<1>3. /\ UNCHANGED <<others, profile, removing, wiping>>
      /\ \/ losing' = losing
         \/ mem.registry = e /\ mem.eng[e] = "wedged" /\ losing' = losing \cup {e}
  BY DEF ProbeFails, ProbePasses
<1>. QED BY <1>1, <1>2, <1>3

\* A disconnect is handled: nothing to do, the reconnects are given up, or the
\* timer is armed.
LEMMA DropHandledDoes ==
    ASSUME Typed, NEW e \in Engine, DropHandled(e)
    PROVE  /\ e \in losing /\ losing' = losing \ {e} /\ Lowered(mem', mem)
           /\ \/ /\ ~(row /\ mem.registry = e /\ mem.recon.kept) /\ overlapped' \in {overlapped, TRUE}
                 /\ Now(mem', mem.registry, mem.mark, mem.recon, mem.writing, mem.dying)
                 /\ mem'.eng = mem.eng
              \/ /\ row /\ mem.registry = e /\ mem.recon.kept
                 /\ overlapped' = (overlapped \/ \E l \in Attempt : InFlight(l))
                 /\ Now(mem', NoEngine, mem.mark, NoRecon, mem.writing, mem.dying \cup {e})
                 /\ Latched(mem', mem, e)
              \/ /\ row /\ mem.registry = e /\ mem.recon.kept /\ mem'.recon.kept /\ mem'.recon.armed
                 /\ overlapped' = overlapped
                 /\ Now(mem', mem.registry, mem.mark, mem'.recon, mem.writing, mem.dying)
                 /\ mem'.eng = mem.eng
           /\ UNCHANGED <<row, launch, request, crossed, refused, escaped, profile, removing, wiping>>
<1> DEFINE r == Report(mem, "DISCONNECTED")
<1>1. /\ e \in losing /\ losing' = losing \ {e}
      /\ UNCHANGED <<row, launch, request, crossed, refused, escaped, profile, removing, wiping>>
      /\ \/ ~(row /\ mem.registry = e) /\ UNCHANGED <<mem, overlapped>>
         \/ /\ row /\ mem.registry = e
            /\ \E stable \in BOOLEAN : mem' = Reschedule(r, stable)
            /\ overlapped' = (overlapped \/ (mem'.recon = NoRecon /\ \E l \in Attempt : InFlight(l)))
  BY DEF DropHandled
<1>2. Now(r, mem.registry, mem.mark, mem.recon, mem.writing, mem.dying) /\ r.eng = mem.eng
      /\ Lowered(r, mem)
  BY TypedParts, ReportDoes DEF Statuses
<1>3. overlapped \in BOOLEAN
  BY DEF Typed, TypeOK
<1> HIDE DEF r
<1>4. CASE ~(row /\ mem.registry = e) /\ UNCHANGED <<mem, overlapped>>
  BY <1>1, <1>4, TypedParts
<1>5. CASE /\ row /\ mem.registry = e
           /\ \E stable \in BOOLEAN : mem' = Reschedule(r, stable)
           /\ overlapped' = (overlapped \/ (mem'.recon = NoRecon /\ \E l \in Attempt : InFlight(l)))
  <2>1. PICK stable \in BOOLEAN : mem' = Reschedule(r, stable)
    BY <1>5
  <2>2. /\ Lowered(mem', r)
        /\ \/ mem' = r /\ ~r.recon.kept
           \/ /\ r.recon.kept
              /\ Now(mem', NoEngine, r.mark, NoRecon, r.writing, (r.dying \cup {r.registry}) \ {NoEngine})
              /\ Latched(mem', r, r.registry)
           \/ /\ r.recon.kept /\ mem'.recon.kept /\ mem'.recon.armed
              /\ Now(mem', r.registry, r.mark, mem'.recon, r.writing, r.dying)
              /\ mem'.eng = r.eng
    BY <1>2, <2>1, RescheduleDoes
  <2>3. Lowered(mem', mem)
    BY <1>2, <2>2
  <2>4. CASE mem' = r /\ ~r.recon.kept
    BY <1>1, <1>2, <1>3, <1>5, <2>3, <2>4
  <2>5. CASE /\ r.recon.kept
             /\ Now(mem', NoEngine, r.mark, NoRecon, r.writing, (r.dying \cup {r.registry}) \ {NoEngine})
             /\ Latched(mem', r, r.registry)
    <3>1. (r.dying \cup {r.registry}) \ {NoEngine} = mem.dying \cup {e}
      BY <1>2, <1>5, TypedParts
    <3>. QED BY <1>1, <1>2, <1>5, <2>3, <2>5, <3>1
  <2>6. CASE /\ r.recon.kept /\ mem'.recon.kept /\ mem'.recon.armed
             /\ Now(mem', r.registry, r.mark, mem'.recon, r.writing, r.dying)
             /\ mem'.eng = r.eng
    <3>1. mem'.recon # NoRecon
      BY <2>6, ReconConstants
    <3>2. overlapped' = overlapped
      BY <1>3, <1>5, <3>1
    <3>. QED BY <1>1, <1>2, <1>5, <2>3, <2>6, <3>2
  <2>. QED BY <2>2, <2>4, <2>5, <2>6
<1>. QED BY <1>1, <1>4, <1>5

\* A disconnect is dropped.
LEMMA DropUnreadDoes ==
    ASSUME Typed, NEW e \in Engine, DropUnread(e)
    PROVE  /\ e \in losing /\ losing' = losing \ {e}
           /\ Now(mem', mem.registry, mem.mark, mem.recon, mem.writing, mem.dying)
           /\ \A f \in Engine : mem'.eng[f] = IF f = e /\ mem.eng[f] = "lost" THEN "unheard" ELSE mem.eng[f]
           /\ mem'.status = mem.status
           /\ UNCHANGED <<others, profile, removing, wiping>>
<1> DEFINE st == IF mem.eng[e] = "lost" THEN "unheard" ELSE mem.eng[e]
           x == [mem EXCEPT !.eng[e] = st]
<1>1. /\ e \in losing /\ losing' = losing \ {e} /\ mem' = x
      /\ UNCHANGED <<others, profile, removing, wiping>>
  BY DEF DropUnread
<1>2. /\ st \in EngineStates
      /\ \A f \in Engine : (IF f = e THEN st ELSE mem.eng[f])
                              = IF f = e /\ mem.eng[f] = "lost" THEN "unheard" ELSE mem.eng[f]
  BY TypedParts DEF EngineStates
<1> HIDE DEF st
<1>3. mem \in Memory
  BY TypedParts
<1>4. Now(x, mem.registry, mem.mark, mem.recon, mem.writing, mem.dying)
      /\ Becomes(x, mem, e, st) /\ x.status = mem.status
  BY <1>2, <1>3, EngDoes
<1> HIDE DEF x
<1>. QED BY <1>1, <1>2, <1>4

-----------------------------------------------------------------------------
(* The steps of Next, in the groups above.                                 *)

\* A retiring call is made, in a place that is free.
CallMade(q, kind) ==
    /\ request[q].at = "idle"
    /\ \/ kind \in {"stop", "delete"} /\ Called(q, kind)
       \/ kind \in {"logout", "kill"} /\ EngineCalled(q, kind)
    /\ crossed' = (crossed \/ \E l \in Launcher : Unborn(l))
    /\ UNCHANGED <<overlapped, refused, escaped>>

StartSteps == StartCalled \/ HookDone \/ ReapEnds

LaunchSteps(l) ==
    \/ FenceOpens(l) \/ FenceRefuses(l) \/ WriteSettles(l) \/ WriteFails(l)
    \/ InitResolves(l) \/ InitRejects(l) \/ InitTimesOut(l) \/ LateKillEnds(l)
    \/ RowRead(l) \/ (RetireEnds(l) \/ RetireTimesOut(l)) \/ Repurged(l)
    \/ OldEngineGone(l) \/ DestroyTimesOut(l)

RequestSteps(q) ==
    \/ StopCaptures(q) \/ WaitEnds(q) \/ (StopCloses(q) \/ LogoutReturns(q) \/ KillEnds(q))
    \/ LogoutOverruns(q) \/ StopEscalates(q) \/ DeleteEnters(q) \/ DeleteFenceOpens(q)
    \/ DeleteRefused(q) \/ RowDeleted(q) \/ (NotFound(q) \/ DeleteFails(q) \/ Purged(q))

EngineSteps(e) ==
    \/ (KillLands(e) \/ LeakEnds(e)) \/ RemovalSettles(e) \/ (EngineReady(e) \/ EngineWedges(e))
    \/ (EngineDrops(e) \/ EngineUnlinked(e) \/ EngineFails(e) \/ StuckAuth(e) \/ WipeLands(e))
    \/ (ProbeFails(e) \/ ProbePasses) \/ DropHandled(e) \/ DropUnread(e)

\* Every step is one of these.
LEMMA NextCases ==
    ASSUME Typed, [Next]_vars
    PROVE  \/ UNCHANGED vars
           \/ StartSteps
           \/ \E l \in Launcher : LaunchSteps(l)
           \/ \E l \in Attempt : TimerFires(l)
           \/ \E q \in Request, kind \in Kinds : CallMade(q, kind)
           \/ \E q \in Request : RequestSteps(q)
           \/ \E e \in Engine : EngineSteps(e)
<1>1. CASE Call
  <2>1. CASE StartCalled
    BY <2>1 DEF StartSteps
  <2>2. CASE ~StartCalled
    <3> DEFINE q == CHOOSE r \in Idle : TRUE
    <3>1. /\ crossed' = (crossed \/ \E l \in Launcher : Unborn(l)) /\ Idle # {}
          /\ \/ Called(q, "stop") \/ Called(q, "delete")
             \/ EngineCalled(q, "logout") \/ EngineCalled(q, "kill")
          /\ UNCHANGED <<overlapped, refused, escaped>>
      BY <1>1, <2>2 DEF Call
    <3>2. q \in Idle
      BY <3>1
    <3> HIDE DEF q
    <3>3. q \in Request /\ request[q].at = "idle"
      BY <3>2 DEF Idle
    <3>. QED BY <3>1, <3>3 DEF CallMade, Kinds
  <2>. QED BY <2>1, <2>2
<1>2. CASE Fault
  <2>1. CASE \E l \in Launcher : LaunchFails(l)
    BY <2>1 DEF LaunchFails, LaunchSteps
  <2>2. CASE \E q \in Request : RequestFails(q)
    BY <2>2 DEF RequestFails, RequestSteps
  <2>3. CASE \E e \in Engine : EngineFault(e)
    BY <2>3 DEF EngineFault, EngineSteps
  <2>. QED BY <1>2, <2>1, <2>2, <2>3 DEF Fault
<1>3. CASE Step
  <2>1. CASE HookDone \/ ReapEnds
    BY <2>1 DEF StartSteps
  <2>2. CASE \E l \in Launcher : LaunchStep(l)
    BY <2>2 DEF LaunchStep, LaunchSteps
  <2>3. CASE \E q \in Request : RequestStep(q)
    BY <2>3 DEF RequestStep, RequestSteps
  <2>4. CASE \E e \in Engine : BackgroundStep(e) \/ EngineReady(e) \/ LeakEnds(e) \/ ProbeFails(e)
    BY <2>4 DEF BackgroundStep, EngineSteps
  <2>5. CASE ProbePasses
    <3>1. mem.registry \in Engine
      BY <2>5, TypedParts DEF ProbePasses
    <3>. QED BY <2>5, <3>1 DEF EngineSteps
  <2>. QED BY <1>3, <2>1, <2>2, <2>3, <2>4, <2>5 DEF Step
<1>. QED BY <1>1, <1>2, <1>3 DEF Next

-----------------------------------------------------------------------------
(* Types.                                                                  *)

\* Typed, in its parts.
LEMMA TypedShapes ==
    ASSUME Typed
    PROVE  /\ LaunchShape /\ RequestShape
           /\ overlapped \in BOOLEAN /\ crossed \in BOOLEAN /\ refused \in BOOLEAN
BY DEF Typed, TypeOK

\* What the steps of a group leave alone.
LEMMA StartStepsLeave == ASSUME StartSteps PROVE UNCHANGED elsewhere
BY DEF StartSteps, StartCalled, HookDone, ReapEnds, elsewhere

\* The steps of a launch likewise.
LEMMA LaunchStepsLeave == ASSUME NEW l \in Launcher, LaunchSteps(l) PROVE UNCHANGED elsewhere
BY DEF LaunchSteps, elsewhere, FenceOpens, FenceRefuses, WriteSettles, WriteFails, InitResolves,
       InitRejects, InitTimesOut, LateKillEnds, RowRead, RetireEnds, RetireTimesOut, Repurged,
       OldEngineGone, DestroyTimesOut

\* And the steps of a request.
LEMMA RequestStepsLeave ==
    ASSUME NEW q \in Request, RequestSteps(q) PROVE UNCHANGED <<launch, wiping, losing>>
BY DEF RequestSteps, StopCaptures, WaitEnds, StopCloses, LogoutReturns, KillEnds, LogoutOverruns,
       StopEscalates, DeleteEnters, DeleteFenceOpens, DeleteRefused, RowDeleted, NotFound,
       DeleteFails, Purged

\* And what happens to an engine.
LEMMA EngineStepsLeave == ASSUME NEW e \in Engine, EngineSteps(e) PROVE UNCHANGED <<launch, request>>
BY DEF EngineSteps, others, KillLands, LeakEnds, RemovalSettles, EngineReady, EngineWedges,
       EngineDrops, EngineUnlinked, EngineFails, StuckAuth, WipeLands, ProbeFails, ProbePasses,
       DropHandled, DropUnread

\* A launch that moves leaves the others as they are.
LEMMA LaunchMoves ==
    ASSUME LaunchShape, NEW l \in Launcher, LaunchFits(l)',
           \A k \in Launcher : k # l => launch'[k] = launch[k]
    PROVE  LaunchShape'
BY DEF LaunchShape, LaunchFits, TearsDown

\* So does a request.
LEMMA RequestMoves ==
    ASSUME RequestShape, NEW q \in Request, RequestFits(q)',
           \A r \in Request : r # q => request'[r] = request[r]
    PROVE  RequestShape'
BY DEF RequestShape, RequestFits, Early, Captured, Late

\* Every step leaves every launch with the engines of its point.
LEMMA LaunchShapeStep ==
    ASSUME Typed, [Next]_vars
    PROVE  LaunchShape'
<1>0. LaunchShape
  BY TypedShapes
<1>1. CASE launch' = launch
  BY <1>0, <1>1 DEF LaunchShape, LaunchFits, TearsDown
<1>2. ASSUME StartSteps, NEW l \in Launcher, l = Start
      PROVE  LaunchFits(l)' /\ \A k \in Launcher : k # l => launch'[k] = launch[k]
  <2>1. CASE StartCalled
    BY <2>1, <1>2, <1>0, TypedParts, StartCalledDoes DEF elsewhere, Begun, LaunchFits, TearsDown, LaunchShape
  <2>2. CASE HookDone
    BY <2>2, <1>2, <1>0, TypedParts, HookDoneDoes DEF elsewhere, Registered, histVars, LaunchFits, TearsDown, LaunchShape
  <2>3. CASE ReapEnds
    BY <2>3, <1>2, <1>0, TypedParts, ReapEndsDoes DEF elsewhere, histVars, LaunchFits, TearsDown, LaunchShape
  <2>. QED BY <2>1, <2>2, <2>3, <1>2 DEF StartSteps
<1>3. ASSUME NEW l \in Launcher, LaunchSteps(l)
      PROVE  LaunchFits(l)' /\ \A k \in Launcher : k # l => launch'[k] = launch[k]
  <2>1. CASE FenceOpens(l)
    <3>1. CASE l = Start
      BY <2>1, <3>1, TypedParts, FenceOpensDoes DEF LaunchFits, TearsDown
    <3>2. CASE l # Start
      <4>1. PICK e \in Engine : LaunchAs(l, "writing", e, NoEngine, {})
        BY <2>1, <3>2, FenceOpensDoes DEF Registered
      <4>. QED BY <4>1 DEF LaunchFits, TearsDown
    <3>. QED BY <3>1, <3>2
  <2>2. CASE FenceRefuses(l)
    BY <2>2, <1>0, TypedParts, FenceRefusesDoes DEF elsewhere, LaunchFits, TearsDown, LaunchShape
  <2>3. CASE WriteSettles(l)
    BY <2>3, <1>0, TypedParts, WriteSettlesDoes DEF elsewhere, histVars, LaunchFits, TearsDown, LaunchShape
  <2>4. CASE WriteFails(l)
    BY <2>4, <1>0, TypedParts, WriteFailsDoes DEF elsewhere, LaunchFits, TearsDown, LaunchShape
  <2>5. CASE InitResolves(l)
    BY <2>5, <1>0, TypedParts, InitResolvesDoes DEF elsewhere, histVars, LaunchFits, TearsDown, LaunchShape
  <2>6. CASE InitRejects(l)
    BY <2>6, <1>0, TypedParts, InitRejectsDoes DEF elsewhere, LaunchFits, TearsDown, LaunchShape
  <2>7. CASE InitTimesOut(l)
    BY <2>7, <1>0, TypedParts, InitTimesOutDoes DEF elsewhere, histVars, LaunchFits, TearsDown, LaunchShape
  <2>8. CASE LateKillEnds(l)
    BY <2>8, <1>0, TypedParts, LateKillEndsDoes DEF elsewhere, LaunchFits, TearsDown, LaunchShape
  <2>9. CASE RowRead(l)
    BY <2>9, <1>0, TypedParts, RowReadDoes DEF elsewhere, LaunchFits, TearsDown, LaunchShape
  <2>10. CASE RetireEnds(l) \/ RetireTimesOut(l)
    BY <2>10, <1>0, TypedParts, RetireEndsDoes DEF elsewhere, histVars, LaunchFits, TearsDown, LaunchShape
  <2>11. CASE Repurged(l)
    BY <2>11, <1>0, TypedParts, RepurgedDoes DEF elsewhere, histVars, LaunchFits, TearsDown, LaunchShape
  <2>12. CASE OldEngineGone(l)
    BY <2>12, <1>0, TypedParts, OldEngineGoneDoes DEF elsewhere, histVars, LaunchFits, TearsDown, LaunchShape
  <2>13. CASE DestroyTimesOut(l)
    BY <2>13, <1>0, TypedParts, DestroyTimesOutDoes DEF elsewhere, histVars, LaunchFits, TearsDown, LaunchShape
  <2>. QED BY <2>1, <2>2, <2>3, <2>4, <2>5, <2>6, <2>7, <2>8, <2>9, <2>10, <2>11, <2>12, <2>13, <1>3 DEF LaunchSteps
<1>4. ASSUME NEW l \in Attempt, TimerFires(l)
      PROVE  LaunchFits(l)' /\ \A k \in Launcher : k # l => launch'[k] = launch[k]
  BY <1>4, <1>0, TypedParts, TimerFiresDoes DEF elsewhere, Begun, Registered, LaunchFits, TearsDown, LaunchShape
<1>5. Start \in Launcher /\ Attempt \subseteq Launcher
  BY DEF Launcher
<1>6. CASE StartSteps
  BY <1>0, <1>2, <1>5, <1>6, LaunchMoves
<1>7. CASE \E l \in Launcher : LaunchSteps(l)
  BY <1>0, <1>3, <1>7, LaunchMoves
<1>8. CASE \E l \in Attempt : TimerFires(l)
  BY <1>0, <1>4, <1>5, <1>8, LaunchMoves
<1>9. CASE \E q \in Request, kind \in Kinds : CallMade(q, kind)
  BY <1>1, <1>9 DEF CallMade, Called, EngineCalled
<1>. QED BY <1>1, <1>6, <1>7, <1>8, <1>9, RequestStepsLeave, EngineStepsLeave, NextCases DEF vars

\* Every step leaves every request with the engine of its point.
LEMMA RequestShapeStep ==
    ASSUME Typed, [Next]_vars
    PROVE  RequestShape'
<1>0. RequestShape
  BY TypedShapes
<1>1. CASE request' = request
  BY <1>0, <1>1 DEF RequestShape, RequestFits, Early, Captured, Late
<1>5. ASSUME NEW q \in Request, NEW kind \in Kinds, CallMade(q, kind)
      PROVE  RequestFits(q)' /\ \A r \in Request : r # q => request'[r] = request[r]
  <2>1. CASE kind \in {"stop", "delete"} /\ Called(q, kind)
    BY <2>1, TypedParts, CalledDoes DEF RequestFits, Early, Captured, Late
  <2>2. CASE kind \in {"logout", "kill"} /\ EngineCalled(q, kind)
    <3>1. kind \in Kinds /\ EngineCalled(q, kind)
      BY <1>5, <2>2
    <3>2. mem.registry \in Engine /\ mem.registry # NoEngine
      BY <3>1, TypedParts, EngineCalledDoes
    <3>3. \/ RequestAs(q, "waiting", kind, mem.registry, {})
          \/ kind \in {"stop", "logout"} /\ RequestAs(q, "closing", kind, mem.registry, {})
          \/ RequestAs(q, "killing", kind, mem.registry, {})
      BY <3>1, EngineCalledDoes
    <3>. QED BY <3>2, <3>3 DEF RequestFits, Early, Captured, Late
  <2>. QED BY <2>1, <2>2, <1>5 DEF CallMade
<1>6. ASSUME NEW q \in Request, RequestSteps(q)
      PROVE  RequestFits(q)' /\ \A r \in Request : r # q => request'[r] = request[r]
  <2>1. CASE StopCaptures(q)
    BY <2>1, <1>0, TypedParts, StopCapturesDoes DEF histVars, RequestFits, Early, Captured, Late, RequestShape
  <2>2. CASE WaitEnds(q)
    BY <2>2, <1>0, TypedParts, WaitEndsDoes DEF histVars, RequestFits, Early, Captured, Late, RequestShape
  <2>3. CASE StopCloses(q) \/ LogoutReturns(q) \/ KillEnds(q)
    BY <2>3, <1>0, TypedParts, ClosesDoes DEF histVars, RequestFits, Early, Captured, Late, RequestShape
  <2>4. CASE LogoutOverruns(q)
    BY <2>4, <1>0, TypedParts, LogoutOverrunsDoes DEF histVars, RequestFits, Early, Captured, Late, RequestShape
  <2>5. CASE StopEscalates(q)
    BY <2>5, <1>0, TypedParts, StopEscalatesDoes DEF histVars, RequestFits, Early, Captured, Late, RequestShape
  <2>6. CASE DeleteEnters(q)
    BY <2>6, <1>0, TypedParts, DeleteEntersDoes DEF DeleteStarts, histVars, RequestFits, Early, Captured, Late, RequestShape
  <2>7. CASE DeleteFenceOpens(q)
    BY <2>7, <1>0, TypedParts, DeleteFenceOpensDoes DEF DeleteStarts, histVars, RequestFits, Early, Captured, Late, RequestShape
  <2>8. CASE DeleteRefused(q)
    BY <2>8, <1>0, TypedParts, DeleteRefusedDoes DEF RequestFits, Early, Captured, Late, RequestShape
  <2>9. CASE RowDeleted(q)
    BY <2>9, <1>0, TypedParts, RowDeletedDoes DEF histVars, RequestFits, Early, Captured, Late, RequestShape
  <2>10. CASE NotFound(q) \/ DeleteFails(q) \/ Purged(q)
    BY <2>10, <1>0, TypedParts, UnmarksDoes DEF histVars, RequestFits, Early, Captured, Late, RequestShape
  <2>. QED BY <2>1, <2>2, <2>3, <2>4, <2>5, <2>6, <2>7, <2>8, <2>9, <2>10, <1>6 DEF RequestSteps
<1>7. CASE \E q \in Request, kind \in Kinds : CallMade(q, kind)
  BY <1>0, <1>5, <1>7, RequestMoves
<1>8. CASE \E q \in Request : RequestSteps(q)
  BY <1>0, <1>6, <1>8, RequestMoves
<1>9. CASE \E l \in Attempt : TimerFires(l)
  BY <1>1, <1>9 DEF TimerFires, elsewhere
<1>. QED BY <1>1, <1>7, <1>8, <1>9, StartStepsLeave, LaunchStepsLeave, EngineStepsLeave, NextCases DEF vars, elsewhere

\* Every step leaves the memory with its type.
LEMMA MemoryStep ==
    ASSUME Typed, [Next]_vars
    PROVE  mem' \in Memory
<1>1. CASE UNCHANGED vars
  BY <1>1, TypedParts DEF vars
<1>2. CASE StartSteps
  <2>1. CASE StartCalled
    BY <2>1, TypedParts, StartCalledDoes DEF elsewhere, Begun
  <2>2. CASE HookDone
    BY <2>2, TypedParts, HookDoneDoes DEF elsewhere, Registered, histVars
  <2>3. CASE ReapEnds
    BY <2>3, TypedParts, ReapEndsDoes DEF elsewhere, histVars
  <2>. QED BY <2>1, <2>2, <2>3, <1>2 DEF StartSteps
<1>3. ASSUME NEW l \in Launcher, LaunchSteps(l)
      PROVE  mem' \in Memory
  <2>1. CASE FenceOpens(l)
    BY <2>1, TypedParts, FenceOpensDoes DEF elsewhere, Registered, histVars
  <2>2. CASE FenceRefuses(l)
    BY <2>2, TypedParts, FenceRefusesDoes DEF elsewhere
  <2>3. CASE WriteSettles(l)
    BY <2>3, TypedParts, WriteSettlesDoes DEF elsewhere, histVars
  <2>4. CASE WriteFails(l)
    BY <2>4, TypedParts, WriteFailsDoes DEF elsewhere
  <2>5. CASE InitResolves(l)
    BY <2>5, TypedParts, InitResolvesDoes DEF elsewhere, histVars
  <2>6. CASE InitRejects(l)
    BY <2>6, TypedParts, InitRejectsDoes DEF elsewhere
  <2>7. CASE InitTimesOut(l)
    BY <2>7, TypedParts, InitTimesOutDoes DEF elsewhere, histVars
  <2>8. CASE LateKillEnds(l)
    BY <2>8, TypedParts, LateKillEndsDoes DEF elsewhere
  <2>9. CASE RowRead(l)
    BY <2>9, TypedParts, RowReadDoes DEF elsewhere
  <2>10. CASE RetireEnds(l) \/ RetireTimesOut(l)
    BY <2>10, TypedParts, RetireEndsDoes DEF elsewhere, histVars
  <2>11. CASE Repurged(l)
    BY <2>11, TypedParts, RepurgedDoes
  <2>12. CASE OldEngineGone(l)
    BY <2>12, TypedParts, OldEngineGoneDoes DEF elsewhere, histVars
  <2>13. CASE DestroyTimesOut(l)
    BY <2>13, TypedParts, DestroyTimesOutDoes DEF elsewhere, histVars
  <2>. QED BY <2>1, <2>2, <2>3, <2>4, <2>5, <2>6, <2>7, <2>8, <2>9, <2>10, <2>11, <2>12, <2>13, <1>3 DEF LaunchSteps
<1>4. ASSUME NEW l \in Attempt, TimerFires(l)
      PROVE  mem' \in Memory
  BY <1>4, TypedParts, TimerFiresDoes DEF elsewhere, Begun, Registered
<1>5. ASSUME NEW q \in Request, NEW kind \in Kinds, CallMade(q, kind)
      PROVE  mem' \in Memory
  <2>1. CASE kind \in {"stop", "delete"} /\ Called(q, kind)
    BY <1>5, <2>1, TypedParts, CalledDoes DEF CallMade
  <2>2. CASE kind \in {"logout", "kill"} /\ EngineCalled(q, kind)
    BY <1>5, <2>2, TypedParts, EngineCalledDoes DEF CallMade
  <2>. QED BY <2>1, <2>2, <1>5 DEF CallMade
<1>6. ASSUME NEW q \in Request, RequestSteps(q)
      PROVE  mem' \in Memory
  <2>1. CASE StopCaptures(q)
    BY <2>1, TypedParts, StopCapturesDoes DEF histVars
  <2>2. CASE WaitEnds(q)
    BY <2>2, TypedParts, WaitEndsDoes DEF histVars
  <2>3. CASE StopCloses(q) \/ LogoutReturns(q) \/ KillEnds(q)
    BY <2>3, TypedParts, ClosesDoes DEF histVars
  <2>4. CASE LogoutOverruns(q)
    BY <2>4, TypedParts, LogoutOverrunsDoes DEF histVars
  <2>5. CASE StopEscalates(q)
    BY <2>5, TypedParts, StopEscalatesDoes DEF histVars
  <2>6. CASE DeleteEnters(q)
    BY <2>6, TypedParts, DeleteEntersDoes DEF DeleteStarts, histVars
  <2>7. CASE DeleteFenceOpens(q)
    BY <2>7, TypedParts, DeleteFenceOpensDoes DEF DeleteStarts, histVars
  <2>8. CASE DeleteRefused(q)
    BY <2>8, TypedParts, DeleteRefusedDoes
  <2>9. CASE RowDeleted(q)
    BY <2>9, TypedParts, RowDeletedDoes DEF histVars
  <2>10. CASE NotFound(q) \/ DeleteFails(q) \/ Purged(q)
    BY <2>10, TypedParts, UnmarksDoes DEF histVars
  <2>. QED BY <2>1, <2>2, <2>3, <2>4, <2>5, <2>6, <2>7, <2>8, <2>9, <2>10, <1>6 DEF RequestSteps
<1>7. ASSUME NEW e \in Engine, EngineSteps(e)
      PROVE  mem' \in Memory
  <2>1. CASE KillLands(e) \/ LeakEnds(e)
    BY <2>1, TypedParts, KillLandsDoes DEF others, histVars
  <2>2. CASE RemovalSettles(e)
    BY <2>2, TypedParts DEF RemovalSettles, others, histVars
  <2>3. CASE EngineReady(e) \/ EngineWedges(e)
    BY <2>3, TypedParts, EngineRunsDoes DEF others, histVars
  <2>4. CASE EngineDrops(e) \/ EngineUnlinked(e) \/ EngineFails(e) \/ StuckAuth(e) \/ WipeLands(e)
    BY <2>4, TypedParts, EngineEndsDoes DEF others, histVars
  <2>5. CASE ProbeFails(e) \/ ProbePasses
    BY <2>5, TypedParts, ProbesDoes DEF others, histVars
  <2>6. CASE DropHandled(e)
    BY <2>6, TypedParts, DropHandledDoes
  <2>7. CASE DropUnread(e)
    BY <2>7, TypedParts, DropUnreadDoes DEF others, histVars
  <2>. QED BY <2>1, <2>2, <2>3, <2>4, <2>5, <2>6, <2>7, <1>7 DEF EngineSteps
<1>. QED BY <1>1, <1>2, <1>3, <1>4, <1>5, <1>6, <1>7, NextCases


\* Every step leaves the launches with their type.
LEMMA LaunchesStep ==
    ASSUME Typed, [Next]_vars
    PROVE  launch' \in [Launcher -> LaunchRecord]
<1>1. CASE launch' = launch
  BY <1>1, TypedParts
<1>2. CASE StartSteps
  <2>1. CASE StartCalled
    BY <2>1, TypedParts, StartCalledDoes DEF elsewhere, Begun
  <2>2. CASE HookDone
    BY <2>2, TypedParts, HookDoneDoes DEF elsewhere, Registered, histVars
  <2>3. CASE ReapEnds
    BY <2>3, TypedParts, ReapEndsDoes DEF elsewhere, histVars
  <2>. QED BY <2>1, <2>2, <2>3, <1>2 DEF StartSteps
<1>3. ASSUME NEW l \in Launcher, LaunchSteps(l)
      PROVE  launch' \in [Launcher -> LaunchRecord]
  <2>1. CASE FenceOpens(l)
    <3>1. CASE l = Start
      BY <2>1, <3>1, TypedParts, FenceOpensDoes
    <3>2. CASE l # Start
      BY <2>1, <3>2, FenceOpensDoes DEF Registered
    <3>. QED BY <3>1, <3>2
  <2>2. CASE FenceRefuses(l)
    BY <2>2, TypedParts, FenceRefusesDoes DEF elsewhere
  <2>3. CASE WriteSettles(l)
    BY <2>3, TypedParts, WriteSettlesDoes DEF elsewhere, histVars
  <2>4. CASE WriteFails(l)
    BY <2>4, TypedParts, WriteFailsDoes DEF elsewhere
  <2>5. CASE InitResolves(l)
    BY <2>5, TypedParts, InitResolvesDoes DEF elsewhere, histVars
  <2>6. CASE InitRejects(l)
    BY <2>6, TypedParts, InitRejectsDoes DEF elsewhere
  <2>7. CASE InitTimesOut(l)
    BY <2>7, TypedParts, InitTimesOutDoes DEF elsewhere, histVars
  <2>8. CASE LateKillEnds(l)
    BY <2>8, TypedParts, LateKillEndsDoes DEF elsewhere
  <2>9. CASE RowRead(l)
    BY <2>9, TypedParts, RowReadDoes DEF elsewhere
  <2>10. CASE RetireEnds(l) \/ RetireTimesOut(l)
    BY <2>10, TypedParts, RetireEndsDoes DEF elsewhere, histVars
  <2>11. CASE Repurged(l)
    BY <2>11, TypedParts, RepurgedDoes DEF elsewhere, histVars
  <2>12. CASE OldEngineGone(l)
    BY <2>12, TypedParts, OldEngineGoneDoes DEF elsewhere, histVars
  <2>13. CASE DestroyTimesOut(l)
    BY <2>13, TypedParts, DestroyTimesOutDoes DEF elsewhere, histVars
  <2>. QED BY <2>1, <2>2, <2>3, <2>4, <2>5, <2>6, <2>7, <2>8, <2>9, <2>10, <2>11, <2>12, <2>13, <1>3 DEF LaunchSteps
<1>4. ASSUME NEW l \in Attempt, TimerFires(l)
      PROVE  launch' \in [Launcher -> LaunchRecord]
  BY <1>4, TypedParts, TimerFiresDoes DEF elsewhere, Begun, Registered
<1>5. CASE \E q \in Request, kind \in Kinds : CallMade(q, kind)
  BY <1>1, <1>5 DEF CallMade, Called, EngineCalled
<1>. QED BY <1>1, <1>2, <1>3, <1>4, <1>5, RequestStepsLeave, EngineStepsLeave, NextCases DEF vars


\* And the requests.
LEMMA RequestsStep ==
    ASSUME Typed, [Next]_vars
    PROVE  request' \in [Request -> RequestRecord]
<1>1. CASE request' = request
  BY <1>1, TypedParts
<1>5. ASSUME NEW q \in Request, NEW kind \in Kinds, CallMade(q, kind)
      PROVE  request' \in [Request -> RequestRecord]
  <2>1. CASE kind \in {"stop", "delete"} /\ Called(q, kind)
    BY <2>1, CalledDoes
  <2>2. CASE kind \in {"logout", "kill"} /\ EngineCalled(q, kind)
    BY <1>5, <2>2, EngineCalledDoes
  <2>. QED BY <2>1, <2>2, <1>5 DEF CallMade
<1>6. ASSUME NEW q \in Request, RequestSteps(q)
      PROVE  request' \in [Request -> RequestRecord]
  <2>1. CASE StopCaptures(q)
    BY <2>1, TypedParts, StopCapturesDoes DEF histVars
  <2>2. CASE WaitEnds(q)
    BY <2>2, TypedParts, WaitEndsDoes DEF histVars
  <2>3. CASE StopCloses(q) \/ LogoutReturns(q) \/ KillEnds(q)
    BY <2>3, TypedParts, ClosesDoes DEF histVars
  <2>4. CASE LogoutOverruns(q)
    BY <2>4, TypedParts, LogoutOverrunsDoes DEF histVars
  <2>5. CASE StopEscalates(q)
    BY <2>5, TypedParts, StopEscalatesDoes DEF histVars
  <2>6. CASE DeleteEnters(q)
    BY <2>6, TypedParts, DeleteEntersDoes DEF DeleteStarts, histVars
  <2>7. CASE DeleteFenceOpens(q)
    BY <2>7, TypedParts, DeleteFenceOpensDoes DEF DeleteStarts, histVars
  <2>8. CASE DeleteRefused(q)
    BY <2>8, TypedParts, DeleteRefusedDoes
  <2>9. CASE RowDeleted(q)
    BY <2>9, TypedParts, RowDeletedDoes DEF histVars
  <2>10. CASE NotFound(q) \/ DeleteFails(q) \/ Purged(q)
    BY <2>10, TypedParts, UnmarksDoes DEF histVars
  <2>. QED BY <2>1, <2>2, <2>3, <2>4, <2>5, <2>6, <2>7, <2>8, <2>9, <2>10, <1>6 DEF RequestSteps
<1>9. CASE \E l \in Attempt : TimerFires(l)
  BY <1>1, <1>9 DEF TimerFires, elsewhere
<1>. QED BY <1>1, <1>5, <1>6, <1>9, StartStepsLeave, LaunchStepsLeave, EngineStepsLeave, NextCases DEF vars, elsewhere

\* Every step leaves the flags Boolean.
LEMMA FlagsStep ==
    ASSUME Typed, [Next]_vars
    PROVE  row' \in BOOLEAN /\ profile' \in BOOLEAN
<1>1. CASE UNCHANGED vars
  BY <1>1, TypedParts DEF vars, histVars
<1>2. CASE StartSteps
  <2>1. CASE StartCalled
    BY <2>1, TypedParts, StartCalledDoes DEF elsewhere, Begun
  <2>2. CASE HookDone
    BY <2>2, TypedParts, HookDoneDoes DEF elsewhere, Registered, histVars
  <2>3. CASE ReapEnds
    BY <2>3, TypedParts, ReapEndsDoes DEF elsewhere, histVars
  <2>. QED BY <2>1, <2>2, <2>3, <1>2 DEF StartSteps
<1>3. ASSUME NEW l \in Launcher, LaunchSteps(l)
      PROVE  row' \in BOOLEAN /\ profile' \in BOOLEAN
  <2>1. CASE FenceOpens(l)
    BY <2>1, TypedParts, FenceOpensDoes DEF elsewhere, Registered, histVars
  <2>2. CASE FenceRefuses(l)
    BY <2>2, TypedParts, FenceRefusesDoes DEF elsewhere
  <2>3. CASE WriteSettles(l)
    BY <2>3, TypedParts, WriteSettlesDoes DEF elsewhere, histVars
  <2>4. CASE WriteFails(l)
    BY <2>4, TypedParts, WriteFailsDoes DEF elsewhere
  <2>5. CASE InitResolves(l)
    BY <2>5, TypedParts, InitResolvesDoes DEF elsewhere, histVars
  <2>6. CASE InitRejects(l)
    BY <2>6, TypedParts, InitRejectsDoes DEF elsewhere
  <2>7. CASE InitTimesOut(l)
    BY <2>7, TypedParts, InitTimesOutDoes DEF elsewhere, histVars
  <2>8. CASE LateKillEnds(l)
    BY <2>8, TypedParts, LateKillEndsDoes DEF elsewhere
  <2>9. CASE RowRead(l)
    BY <2>9, TypedParts, RowReadDoes DEF elsewhere
  <2>10. CASE RetireEnds(l) \/ RetireTimesOut(l)
    BY <2>10, TypedParts, RetireEndsDoes DEF elsewhere, histVars
  <2>11. CASE Repurged(l)
    BY <2>11, TypedParts, RepurgedDoes DEF elsewhere, histVars
  <2>12. CASE OldEngineGone(l)
    BY <2>12, TypedParts, OldEngineGoneDoes DEF elsewhere, histVars
  <2>13. CASE DestroyTimesOut(l)
    BY <2>13, TypedParts, DestroyTimesOutDoes DEF elsewhere, histVars
  <2>. QED BY <2>1, <2>2, <2>3, <2>4, <2>5, <2>6, <2>7, <2>8, <2>9, <2>10, <2>11, <2>12, <2>13, <1>3 DEF LaunchSteps
<1>4. ASSUME NEW l \in Attempt, TimerFires(l)
      PROVE  row' \in BOOLEAN /\ profile' \in BOOLEAN
  BY <1>4, TypedParts, TimerFiresDoes DEF elsewhere, Begun, Registered
<1>5. ASSUME NEW q \in Request, NEW kind \in Kinds, CallMade(q, kind)
      PROVE  row' \in BOOLEAN /\ profile' \in BOOLEAN
  <2>1. CASE kind \in {"stop", "delete"} /\ Called(q, kind)
    BY <1>5, <2>1, TypedParts, CalledDoes DEF CallMade
  <2>2. CASE kind \in {"logout", "kill"} /\ EngineCalled(q, kind)
    BY <1>5, <2>2, TypedParts, EngineCalledDoes DEF CallMade
  <2>. QED BY <2>1, <2>2, <1>5 DEF CallMade
<1>6. ASSUME NEW q \in Request, RequestSteps(q)
      PROVE  row' \in BOOLEAN /\ profile' \in BOOLEAN
  <2>1. CASE StopCaptures(q)
    BY <2>1, TypedParts, StopCapturesDoes DEF histVars
  <2>2. CASE WaitEnds(q)
    BY <2>2, TypedParts, WaitEndsDoes DEF histVars
  <2>3. CASE StopCloses(q) \/ LogoutReturns(q) \/ KillEnds(q)
    BY <2>3, TypedParts, ClosesDoes DEF histVars
  <2>4. CASE LogoutOverruns(q)
    BY <2>4, TypedParts, LogoutOverrunsDoes DEF histVars
  <2>5. CASE StopEscalates(q)
    BY <2>5, TypedParts, StopEscalatesDoes DEF histVars
  <2>6. CASE DeleteEnters(q)
    BY <2>6, TypedParts, DeleteEntersDoes DEF DeleteStarts, histVars
  <2>7. CASE DeleteFenceOpens(q)
    BY <2>7, TypedParts, DeleteFenceOpensDoes DEF DeleteStarts, histVars
  <2>8. CASE DeleteRefused(q)
    BY <2>8, TypedParts, DeleteRefusedDoes
  <2>9. CASE RowDeleted(q)
    BY <2>9, TypedParts, RowDeletedDoes DEF histVars
  <2>10. CASE NotFound(q) \/ DeleteFails(q) \/ Purged(q)
    BY <2>10, TypedParts, UnmarksDoes DEF histVars
  <2>. QED BY <2>1, <2>2, <2>3, <2>4, <2>5, <2>6, <2>7, <2>8, <2>9, <2>10, <1>6 DEF RequestSteps
<1>7. ASSUME NEW e \in Engine, EngineSteps(e)
      PROVE  row' \in BOOLEAN /\ profile' \in BOOLEAN
  <2>1. CASE KillLands(e) \/ LeakEnds(e)
    BY <2>1, TypedParts, KillLandsDoes DEF others, histVars
  <2>2. CASE RemovalSettles(e)
    BY <2>2, TypedParts DEF RemovalSettles, others, histVars
  <2>3. CASE EngineReady(e) \/ EngineWedges(e)
    BY <2>3, TypedParts, EngineRunsDoes DEF others, histVars
  <2>4. CASE EngineDrops(e) \/ EngineUnlinked(e) \/ EngineFails(e) \/ StuckAuth(e) \/ WipeLands(e)
    BY <2>4, TypedParts, EngineEndsDoes DEF others, histVars
  <2>5. CASE ProbeFails(e) \/ ProbePasses
    BY <2>5, TypedParts, ProbesDoes DEF others, histVars
  <2>6. CASE DropHandled(e)
    BY <2>6, TypedParts, DropHandledDoes
  <2>7. CASE DropUnread(e)
    BY <2>7, TypedParts, DropUnreadDoes DEF others, histVars
  <2>. QED BY <2>1, <2>2, <2>3, <2>4, <2>5, <2>6, <2>7, <1>7 DEF EngineSteps
<1>. QED BY <1>1, <1>2, <1>3, <1>4, <1>5, <1>6, <1>7, NextCases


\* And the history.
LEMMA HistoryStep ==
    ASSUME Typed, [Next]_vars
    PROVE  overlapped' \in BOOLEAN /\ crossed' \in BOOLEAN /\ refused' \in BOOLEAN /\ escaped' \in BOOLEAN
<1>1. CASE UNCHANGED vars
  BY <1>1, TypedShapes, TypedParts DEF vars, histVars
<1>2. CASE StartSteps
  <2>1. CASE StartCalled
    BY <2>1, TypedShapes, TypedParts, StartCalledDoes DEF elsewhere, Begun
  <2>2. CASE HookDone
    BY <2>2, TypedShapes, TypedParts, HookDoneDoes DEF elsewhere, Registered, histVars
  <2>3. CASE ReapEnds
    BY <2>3, TypedShapes, TypedParts, ReapEndsDoes DEF elsewhere, histVars
  <2>. QED BY <2>1, <2>2, <2>3, <1>2 DEF StartSteps
<1>3. ASSUME NEW l \in Launcher, LaunchSteps(l)
      PROVE  overlapped' \in BOOLEAN /\ crossed' \in BOOLEAN /\ refused' \in BOOLEAN /\ escaped' \in BOOLEAN
  <2>1. CASE FenceOpens(l)
    BY <2>1, TypedShapes, TypedParts, FenceOpensDoes DEF elsewhere, Registered, histVars
  <2>2. CASE FenceRefuses(l)
    BY <2>2, TypedShapes, TypedParts, FenceRefusesDoes DEF elsewhere
  <2>3. CASE WriteSettles(l)
    BY <2>3, TypedShapes, TypedParts, WriteSettlesDoes DEF elsewhere, histVars
  <2>4. CASE WriteFails(l)
    BY <2>4, TypedShapes, TypedParts, WriteFailsDoes DEF elsewhere
  <2>5. CASE InitResolves(l)
    BY <2>5, TypedShapes, TypedParts, InitResolvesDoes DEF elsewhere, histVars
  <2>6. CASE InitRejects(l)
    BY <2>6, TypedShapes, TypedParts, InitRejectsDoes DEF elsewhere
  <2>7. CASE InitTimesOut(l)
    BY <2>7, TypedShapes, TypedParts, InitTimesOutDoes DEF elsewhere, histVars
  <2>8. CASE LateKillEnds(l)
    BY <2>8, TypedShapes, TypedParts, LateKillEndsDoes DEF elsewhere
  <2>9. CASE RowRead(l)
    BY <2>9, TypedShapes, TypedParts, RowReadDoes DEF elsewhere
  <2>10. CASE RetireEnds(l) \/ RetireTimesOut(l)
    BY <2>10, TypedShapes, TypedParts, RetireEndsDoes DEF elsewhere, histVars
  <2>11. CASE Repurged(l)
    BY <2>11, TypedShapes, TypedParts, RepurgedDoes DEF elsewhere, histVars
  <2>12. CASE OldEngineGone(l)
    BY <2>12, TypedShapes, TypedParts, OldEngineGoneDoes DEF elsewhere, histVars
  <2>13. CASE DestroyTimesOut(l)
    BY <2>13, TypedShapes, TypedParts, DestroyTimesOutDoes DEF elsewhere, histVars
  <2>. QED BY <2>1, <2>2, <2>3, <2>4, <2>5, <2>6, <2>7, <2>8, <2>9, <2>10, <2>11, <2>12, <2>13, <1>3 DEF LaunchSteps
<1>4. ASSUME NEW l \in Attempt, TimerFires(l)
      PROVE  overlapped' \in BOOLEAN /\ crossed' \in BOOLEAN /\ refused' \in BOOLEAN /\ escaped' \in BOOLEAN
  BY <1>4, TypedShapes, TypedParts, TimerFiresDoes DEF elsewhere, Begun, Registered
<1>5. ASSUME NEW q \in Request, NEW kind \in Kinds, CallMade(q, kind)
      PROVE  overlapped' \in BOOLEAN /\ crossed' \in BOOLEAN /\ refused' \in BOOLEAN /\ escaped' \in BOOLEAN
  <2>1. CASE kind \in {"stop", "delete"} /\ Called(q, kind)
    BY <1>5, <2>1, TypedShapes, TypedParts, CalledDoes DEF CallMade
  <2>2. CASE kind \in {"logout", "kill"} /\ EngineCalled(q, kind)
    BY <1>5, <2>2, TypedShapes, TypedParts, EngineCalledDoes DEF CallMade
  <2>. QED BY <2>1, <2>2, <1>5 DEF CallMade
<1>6. ASSUME NEW q \in Request, RequestSteps(q)
      PROVE  overlapped' \in BOOLEAN /\ crossed' \in BOOLEAN /\ refused' \in BOOLEAN /\ escaped' \in BOOLEAN
  <2>1. CASE StopCaptures(q)
    BY <2>1, TypedShapes, TypedParts, StopCapturesDoes DEF histVars
  <2>2. CASE WaitEnds(q)
    BY <2>2, TypedShapes, TypedParts, WaitEndsDoes DEF histVars
  <2>3. CASE StopCloses(q) \/ LogoutReturns(q) \/ KillEnds(q)
    BY <2>3, TypedShapes, TypedParts, ClosesDoes DEF histVars
  <2>4. CASE LogoutOverruns(q)
    BY <2>4, TypedShapes, TypedParts, LogoutOverrunsDoes DEF histVars
  <2>5. CASE StopEscalates(q)
    BY <2>5, TypedShapes, TypedParts, StopEscalatesDoes DEF histVars
  <2>6. CASE DeleteEnters(q)
    BY <2>6, TypedShapes, TypedParts, DeleteEntersDoes DEF DeleteStarts, histVars
  <2>7. CASE DeleteFenceOpens(q)
    BY <2>7, TypedShapes, TypedParts, DeleteFenceOpensDoes DEF DeleteStarts, histVars
  <2>8. CASE DeleteRefused(q)
    BY <2>8, TypedShapes, TypedParts, DeleteRefusedDoes
  <2>9. CASE RowDeleted(q)
    BY <2>9, TypedShapes, TypedParts, RowDeletedDoes DEF histVars
  <2>10. CASE NotFound(q) \/ DeleteFails(q) \/ Purged(q)
    BY <2>10, TypedShapes, TypedParts, UnmarksDoes DEF histVars
  <2>. QED BY <2>1, <2>2, <2>3, <2>4, <2>5, <2>6, <2>7, <2>8, <2>9, <2>10, <1>6 DEF RequestSteps
<1>7. ASSUME NEW e \in Engine, EngineSteps(e)
      PROVE  overlapped' \in BOOLEAN /\ crossed' \in BOOLEAN /\ refused' \in BOOLEAN /\ escaped' \in BOOLEAN
  <2>1. CASE KillLands(e) \/ LeakEnds(e)
    BY <2>1, TypedShapes, TypedParts, KillLandsDoes DEF others, histVars
  <2>2. CASE RemovalSettles(e)
    BY <2>2, TypedShapes, TypedParts DEF RemovalSettles, others, histVars
  <2>3. CASE EngineReady(e) \/ EngineWedges(e)
    BY <2>3, TypedShapes, TypedParts, EngineRunsDoes DEF others, histVars
  <2>4. CASE EngineDrops(e) \/ EngineUnlinked(e) \/ EngineFails(e) \/ StuckAuth(e) \/ WipeLands(e)
    BY <2>4, TypedShapes, TypedParts, EngineEndsDoes DEF others, histVars
  <2>5. CASE ProbeFails(e) \/ ProbePasses
    BY <2>5, TypedShapes, TypedParts, ProbesDoes DEF others, histVars
  <2>6. CASE DropHandled(e)
    BY <2>6, TypedShapes, TypedParts, DropHandledDoes
  <2>7. CASE DropUnread(e)
    BY <2>7, TypedShapes, TypedParts, DropUnreadDoes DEF others, histVars
  <2>. QED BY <2>1, <2>2, <2>3, <2>4, <2>5, <2>6, <2>7, <1>7 DEF EngineSteps
<1>. QED BY <1>1, <1>2, <1>3, <1>4, <1>5, <1>6, <1>7, NextCases


\* And the engines that are being removed or lost.
LEMMA SetsStep ==
    ASSUME Typed, [Next]_vars
    PROVE  removing' \subseteq Engine /\ wiping' \subseteq Engine /\ losing' \subseteq Engine
<1>1. CASE UNCHANGED <<removing, wiping, losing>>
  BY <1>1, TypedParts
<1>5. ASSUME NEW q \in Request, NEW kind \in Kinds, CallMade(q, kind)
      PROVE  removing' \subseteq Engine /\ wiping' \subseteq Engine /\ losing' \subseteq Engine
  <2>1. CASE kind \in {"stop", "delete"} /\ Called(q, kind)
    BY <1>5, <2>1, TypedParts, CalledDoes DEF CallMade
  <2>2. CASE kind \in {"logout", "kill"} /\ EngineCalled(q, kind)
    <3>1. kind \in Kinds /\ EngineCalled(q, kind)
      BY <1>5, <2>2
    <3>2. mem.registry \in Engine /\ wiping' = wiping /\ losing' = losing
      BY <3>1, EngineCalledDoes
    <3>3. removing' \in {removing, removing \cup {mem.registry}}
      BY <3>1, EngineCalledDoes
    <3>. QED BY <3>2, <3>3, TypedParts
  <2>. QED BY <2>1, <2>2, <1>5 DEF CallMade
<1>6. ASSUME NEW q \in Request, RequestSteps(q)
      PROVE  removing' \subseteq Engine /\ wiping' \subseteq Engine /\ losing' \subseteq Engine
  <2>1. CASE StopCaptures(q)
    BY <2>1, TypedParts, StopCapturesDoes DEF histVars
  <2>2. CASE WaitEnds(q)
    BY <2>2, TypedParts, WaitEndsDoes DEF histVars
  <2>3. CASE StopCloses(q) \/ LogoutReturns(q) \/ KillEnds(q)
    BY <2>3, TypedParts, ClosesDoes DEF histVars
  <2>4. CASE LogoutOverruns(q)
    BY <2>4, TypedParts, LogoutOverrunsDoes DEF histVars
  <2>5. CASE StopEscalates(q)
    BY <2>5, TypedParts, StopEscalatesDoes DEF histVars
  <2>6. CASE DeleteEnters(q)
    BY <2>6, TypedParts, DeleteEntersDoes DEF DeleteStarts, histVars
  <2>7. CASE DeleteFenceOpens(q)
    BY <2>7, TypedParts, DeleteFenceOpensDoes DEF DeleteStarts, histVars
  <2>8. CASE DeleteRefused(q)
    BY <2>8, TypedParts, DeleteRefusedDoes
  <2>9. CASE RowDeleted(q)
    BY <2>9, TypedParts, RowDeletedDoes DEF histVars
  <2>10. CASE NotFound(q) \/ DeleteFails(q) \/ Purged(q)
    BY <2>10, TypedParts, UnmarksDoes DEF histVars
  <2>. QED BY <2>1, <2>2, <2>3, <2>4, <2>5, <2>6, <2>7, <2>8, <2>9, <2>10, <1>6 DEF RequestSteps
<1>7. ASSUME NEW e \in Engine, EngineSteps(e)
      PROVE  removing' \subseteq Engine /\ wiping' \subseteq Engine /\ losing' \subseteq Engine
  <2>1. CASE KillLands(e) \/ LeakEnds(e)
    BY <2>1, TypedParts, KillLandsDoes DEF others, histVars
  <2>2. CASE RemovalSettles(e)
    BY <2>2, TypedParts DEF RemovalSettles, others, histVars
  <2>3. CASE EngineReady(e) \/ EngineWedges(e)
    BY <2>3, TypedParts, EngineRunsDoes DEF others, histVars
  <2>4. CASE EngineDrops(e) \/ EngineUnlinked(e) \/ EngineFails(e) \/ StuckAuth(e) \/ WipeLands(e)
    <3>1. /\ removing' \in {removing, removing \cup {e}} /\ wiping' \subseteq Engine
          /\ losing' \in {losing, losing \cup {e}}
      BY <2>4, EngineEndsDoes
    <3>. QED BY <3>1, TypedParts
  <2>5. CASE ProbeFails(e) \/ ProbePasses
    BY <2>5, TypedParts, ProbesDoes DEF others, histVars
  <2>6. CASE DropHandled(e)
    BY <2>6, TypedParts, DropHandledDoes
  <2>7. CASE DropUnread(e)
    BY <2>7, TypedParts, DropUnreadDoes DEF others, histVars
  <2>. QED BY <2>1, <2>2, <2>3, <2>4, <2>5, <2>6, <2>7, <1>7 DEF EngineSteps
<1>2. CASE \E l \in Attempt : TimerFires(l)
  BY <1>1, <1>2 DEF TimerFires, elsewhere
<1>. QED BY <1>1, <1>2, <1>5, <1>6, <1>7, StartStepsLeave, LaunchStepsLeave, NextCases DEF vars, elsewhere


\* The counters stay within their bounds.
LEMMA CountersStep ==
    ASSUME Typed, [Next]_vars
    PROVE  calls' \in 0 .. MaxCalls /\ faults' \in 0 .. MaxFaults
<1>1. calls \in 0 .. MaxCalls /\ faults \in 0 .. MaxFaults
  BY DEF Typed, TypeOK
<1>2. CASE UNCHANGED vars
  BY <1>1, <1>2 DEF vars
<1>3. CASE Call
  BY <1>1, <1>3, LifecycleAssumption DEF Call
<1>4. CASE Fault
  BY <1>1, <1>4, LifecycleAssumption DEF Fault
<1>5. CASE Step
  BY <1>1, <1>5 DEF Step
<1>. QED BY <1>2, <1>3, <1>4, <1>5 DEF Next

\* So every step keeps the types and the engines of each point.
LEMMA TypedStep ==
    ASSUME Typed, [Next]_vars
    PROVE  Typed'
BY LaunchShapeStep, RequestShapeStep, MemoryStep, LaunchesStep, RequestsStep, FlagsStep, HistoryStep,
   SetsStep, CountersStep DEF Typed, TypeOK

\* The program starts with them.
LEMMA TypedInit == Init => Typed
<1> SUFFICES ASSUME Init PROVE Typed
  OBVIOUS
<1>1. /\ NoRecon \in Recon /\ IdleLaunch \in LaunchRecord /\ IdleRequest \in RequestRecord
  BY ReconConstants DEF IdleLaunch, LaunchRecord, LaunchAt, IdleRequest, RequestRecord, RequestAt, Kinds
<1>2. mem \in Memory
  BY <1>1 DEF Init, Memory, EngineStates, Statuses
<1>3. /\ \A l \in Launcher : launch[l] = IdleLaunch
      /\ \A q \in Request : request[q] = IdleRequest
  BY DEF Init
<1>4. /\ IdleLaunch.at = "idle" /\ IdleLaunch.eng = NoEngine /\ IdleLaunch.victim = NoEngine
      /\ IdleRequest.at = "idle" /\ IdleRequest.eng = NoEngine
  BY DEF IdleLaunch, IdleRequest
<1>5. LaunchShape
  BY <1>3, <1>4 DEF LaunchShape, LaunchFits, TearsDown
<1>6. RequestShape
  BY <1>3, <1>4 DEF RequestShape, RequestFits, Early, Captured, Late
<1>7. {row, profile, overlapped, crossed, refused, escaped} \subseteq BOOLEAN
  BY DEF Init
<1>8. launch \in [Launcher -> LaunchRecord] /\ request \in [Request -> RequestRecord]
  BY <1>1 DEF Init
<1>9. removing \cup wiping \cup losing \subseteq Engine /\ calls \in 0 .. MaxCalls /\ faults \in 0 .. MaxFaults
  BY LifecycleAssumption DEF Init
<1>. QED BY <1>2, <1>5, <1>6, <1>7, <1>8, <1>9 DEF Typed, TypeOK

\* The types hold of every state, and a reconnect never exceeds its budget.
THEOREM LifecycleTypeOK == Spec => []TypeOK
<1>1. Typed /\ [Next]_vars => Typed'
  BY TypedStep
<1>2. Spec => []Typed
  BY <1>1, TypedInit, PTL DEF Spec
<1>3. Typed => TypeOK
  BY DEF Typed
<1>. QED BY <1>2, <1>3, PTL

-----------------------------------------------------------------------------
(* Every running engine is reachable.                                      *)

\* No two launches are in flight at once.
OneLaunch == \A l, k \in Launcher : InFlight(l) /\ InFlight(k) => l = k

\* What the registry can name at each point of a launch.
Placed(l) ==
    /\ launch[l].at \in {"fenced", "hook", "killing", "reaping", "repurging"} => mem.registry = NoEngine
    /\ launch[l].at \in {"destroying", "escalating", "retiring"} => mem.registry \in {launch[l].victim, NoEngine}
    /\ launch[l].at \in {"writing", "initializing"} => mem.registry \in {launch[l].eng, NoEngine}

\* A delete() past its teardown has an engine that is gone, if it had one.
LateIsGone == \A q \in Request : Late(q) /\ request[q].eng # NoEngine => mem.eng[request[q].eng] = "gone"


\* An overlap is not forgotten.
LEMMA OverlapStays ==
    ASSUME Typed, [Next]_vars
    PROVE  overlapped => overlapped'
<1>1. CASE UNCHANGED vars
  BY <1>1, TypedShapes DEF vars, histVars
<1>2. CASE StartSteps
  <2>1. CASE StartCalled
    BY <2>1, TypedShapes, StartCalledDoes DEF elsewhere, Begun
  <2>2. CASE HookDone
    BY <2>2, TypedShapes, HookDoneDoes DEF elsewhere, Registered, histVars
  <2>3. CASE ReapEnds
    BY <2>3, TypedShapes, ReapEndsDoes DEF elsewhere, histVars
  <2>. QED BY <2>1, <2>2, <2>3, <1>2 DEF StartSteps
<1>3. ASSUME NEW l \in Launcher, LaunchSteps(l)
      PROVE  overlapped => overlapped'
  <2>1. CASE FenceOpens(l)
    BY <2>1, TypedShapes, FenceOpensDoes DEF elsewhere, Registered, histVars
  <2>2. CASE FenceRefuses(l)
    BY <2>2, TypedShapes, FenceRefusesDoes DEF elsewhere
  <2>3. CASE WriteSettles(l)
    BY <2>3, TypedShapes, WriteSettlesDoes DEF elsewhere, histVars
  <2>4. CASE WriteFails(l)
    BY <2>4, TypedShapes, WriteFailsDoes DEF elsewhere
  <2>5. CASE InitResolves(l)
    BY <2>5, TypedShapes, InitResolvesDoes DEF elsewhere, histVars
  <2>6. CASE InitRejects(l)
    BY <2>6, TypedShapes, InitRejectsDoes DEF elsewhere
  <2>7. CASE InitTimesOut(l)
    BY <2>7, TypedShapes, InitTimesOutDoes DEF elsewhere, histVars
  <2>8. CASE LateKillEnds(l)
    BY <2>8, TypedShapes, LateKillEndsDoes DEF elsewhere
  <2>9. CASE RowRead(l)
    BY <2>9, TypedShapes, RowReadDoes DEF elsewhere
  <2>10. CASE RetireEnds(l) \/ RetireTimesOut(l)
    BY <2>10, TypedShapes, RetireEndsDoes DEF elsewhere, histVars
  <2>11. CASE Repurged(l)
    BY <2>11, TypedShapes, RepurgedDoes DEF elsewhere, histVars
  <2>12. CASE OldEngineGone(l)
    BY <2>12, TypedShapes, OldEngineGoneDoes DEF elsewhere, histVars
  <2>13. CASE DestroyTimesOut(l)
    BY <2>13, TypedShapes, DestroyTimesOutDoes DEF elsewhere, histVars
  <2>. QED BY <2>1, <2>2, <2>3, <2>4, <2>5, <2>6, <2>7, <2>8, <2>9, <2>10, <2>11, <2>12, <2>13, <1>3 DEF LaunchSteps
<1>4. ASSUME NEW l \in Attempt, TimerFires(l)
      PROVE  overlapped => overlapped'
  BY <1>4, TypedShapes, TimerFiresDoes DEF elsewhere, Begun, Registered
<1>5. ASSUME NEW q \in Request, NEW kind \in Kinds, CallMade(q, kind)
      PROVE  overlapped => overlapped'
  <2>1. CASE kind \in {"stop", "delete"} /\ Called(q, kind)
    BY <1>5, <2>1, TypedShapes, CalledDoes DEF CallMade
  <2>2. CASE kind \in {"logout", "kill"} /\ EngineCalled(q, kind)
    BY <1>5, <2>2, TypedShapes, EngineCalledDoes DEF CallMade
  <2>. QED BY <2>1, <2>2, <1>5 DEF CallMade
<1>6. ASSUME NEW q \in Request, RequestSteps(q)
      PROVE  overlapped => overlapped'
  <2>1. CASE StopCaptures(q)
    BY <2>1, TypedShapes, StopCapturesDoes DEF histVars
  <2>2. CASE WaitEnds(q)
    BY <2>2, TypedShapes, WaitEndsDoes DEF histVars
  <2>3. CASE StopCloses(q) \/ LogoutReturns(q) \/ KillEnds(q)
    BY <2>3, TypedShapes, ClosesDoes DEF histVars
  <2>4. CASE LogoutOverruns(q)
    BY <2>4, TypedShapes, LogoutOverrunsDoes DEF histVars
  <2>5. CASE StopEscalates(q)
    BY <2>5, TypedShapes, StopEscalatesDoes DEF histVars
  <2>6. CASE DeleteEnters(q)
    BY <2>6, TypedShapes, DeleteEntersDoes DEF DeleteStarts, histVars
  <2>7. CASE DeleteFenceOpens(q)
    BY <2>7, TypedShapes, DeleteFenceOpensDoes DEF DeleteStarts, histVars
  <2>8. CASE DeleteRefused(q)
    BY <2>8, TypedShapes, DeleteRefusedDoes
  <2>9. CASE RowDeleted(q)
    BY <2>9, TypedShapes, RowDeletedDoes DEF histVars
  <2>10. CASE NotFound(q) \/ DeleteFails(q) \/ Purged(q)
    BY <2>10, TypedShapes, UnmarksDoes DEF histVars
  <2>. QED BY <2>1, <2>2, <2>3, <2>4, <2>5, <2>6, <2>7, <2>8, <2>9, <2>10, <1>6 DEF RequestSteps
<1>7. ASSUME NEW e \in Engine, EngineSteps(e)
      PROVE  overlapped => overlapped'
  <2>1. CASE KillLands(e) \/ LeakEnds(e)
    BY <2>1, TypedShapes, KillLandsDoes DEF others, histVars
  <2>2. CASE RemovalSettles(e)
    BY <2>2, TypedShapes DEF RemovalSettles, others, histVars
  <2>3. CASE EngineReady(e) \/ EngineWedges(e)
    BY <2>3, TypedShapes, EngineRunsDoes DEF others, histVars
  <2>4. CASE EngineDrops(e) \/ EngineUnlinked(e) \/ EngineFails(e) \/ StuckAuth(e) \/ WipeLands(e)
    BY <2>4, TypedShapes, EngineEndsDoes DEF others, histVars
  <2>5. CASE ProbeFails(e) \/ ProbePasses
    BY <2>5, TypedShapes, ProbesDoes DEF others, histVars
  <2>6. CASE DropHandled(e)
    BY <2>6, TypedShapes, DropHandledDoes
  <2>7. CASE DropUnread(e)
    BY <2>7, TypedShapes, DropUnreadDoes DEF others, histVars
  <2>. QED BY <2>1, <2>2, <2>3, <2>4, <2>5, <2>6, <2>7, <1>7 DEF EngineSteps
<1>. QED BY <1>1, <1>2, <1>3, <1>4, <1>5, <1>6, <1>7, NextCases


\* Nor is a refusal, or a call that crossed a launch.
LEMMA RefusalStays ==
    ASSUME Typed, [Next]_vars
    PROVE  (refused => refused') /\ (crossed => crossed')
<1>1. CASE UNCHANGED vars
  BY <1>1, TypedShapes DEF vars, histVars
<1>2. CASE StartSteps
  <2>1. CASE StartCalled
    BY <2>1, TypedShapes, StartCalledDoes DEF elsewhere, Begun
  <2>2. CASE HookDone
    BY <2>2, TypedShapes, HookDoneDoes DEF elsewhere, Registered, histVars
  <2>3. CASE ReapEnds
    BY <2>3, TypedShapes, ReapEndsDoes DEF elsewhere, histVars
  <2>. QED BY <2>1, <2>2, <2>3, <1>2 DEF StartSteps
<1>3. ASSUME NEW l \in Launcher, LaunchSteps(l)
      PROVE  (refused => refused') /\ (crossed => crossed')
  <2>1. CASE FenceOpens(l)
    BY <2>1, TypedShapes, FenceOpensDoes DEF elsewhere, Registered, histVars
  <2>2. CASE FenceRefuses(l)
    BY <2>2, TypedShapes, FenceRefusesDoes DEF elsewhere
  <2>3. CASE WriteSettles(l)
    BY <2>3, TypedShapes, WriteSettlesDoes DEF elsewhere, histVars
  <2>4. CASE WriteFails(l)
    BY <2>4, TypedShapes, WriteFailsDoes DEF elsewhere
  <2>5. CASE InitResolves(l)
    BY <2>5, TypedShapes, InitResolvesDoes DEF elsewhere, histVars
  <2>6. CASE InitRejects(l)
    BY <2>6, TypedShapes, InitRejectsDoes DEF elsewhere
  <2>7. CASE InitTimesOut(l)
    BY <2>7, TypedShapes, InitTimesOutDoes DEF elsewhere, histVars
  <2>8. CASE LateKillEnds(l)
    BY <2>8, TypedShapes, LateKillEndsDoes DEF elsewhere
  <2>9. CASE RowRead(l)
    BY <2>9, TypedShapes, RowReadDoes DEF elsewhere
  <2>10. CASE RetireEnds(l) \/ RetireTimesOut(l)
    BY <2>10, TypedShapes, RetireEndsDoes DEF elsewhere, histVars
  <2>11. CASE Repurged(l)
    BY <2>11, TypedShapes, RepurgedDoes DEF elsewhere, histVars
  <2>12. CASE OldEngineGone(l)
    BY <2>12, TypedShapes, OldEngineGoneDoes DEF elsewhere, histVars
  <2>13. CASE DestroyTimesOut(l)
    BY <2>13, TypedShapes, DestroyTimesOutDoes DEF elsewhere, histVars
  <2>. QED BY <2>1, <2>2, <2>3, <2>4, <2>5, <2>6, <2>7, <2>8, <2>9, <2>10, <2>11, <2>12, <2>13, <1>3 DEF LaunchSteps
<1>4. ASSUME NEW l \in Attempt, TimerFires(l)
      PROVE  (refused => refused') /\ (crossed => crossed')
  BY <1>4, TypedShapes, TimerFiresDoes DEF elsewhere, Begun, Registered
<1>5. ASSUME NEW q \in Request, NEW kind \in Kinds, CallMade(q, kind)
      PROVE  (refused => refused') /\ (crossed => crossed')
  <2>1. CASE kind \in {"stop", "delete"} /\ Called(q, kind)
    BY <1>5, <2>1, TypedShapes, CalledDoes DEF CallMade
  <2>2. CASE kind \in {"logout", "kill"} /\ EngineCalled(q, kind)
    BY <1>5, <2>2, TypedShapes, EngineCalledDoes DEF CallMade
  <2>. QED BY <2>1, <2>2, <1>5 DEF CallMade
<1>6. ASSUME NEW q \in Request, RequestSteps(q)
      PROVE  (refused => refused') /\ (crossed => crossed')
  <2>1. CASE StopCaptures(q)
    BY <2>1, TypedShapes, StopCapturesDoes DEF histVars
  <2>2. CASE WaitEnds(q)
    BY <2>2, TypedShapes, WaitEndsDoes DEF histVars
  <2>3. CASE StopCloses(q) \/ LogoutReturns(q) \/ KillEnds(q)
    BY <2>3, TypedShapes, ClosesDoes DEF histVars
  <2>4. CASE LogoutOverruns(q)
    BY <2>4, TypedShapes, LogoutOverrunsDoes DEF histVars
  <2>5. CASE StopEscalates(q)
    BY <2>5, TypedShapes, StopEscalatesDoes DEF histVars
  <2>6. CASE DeleteEnters(q)
    BY <2>6, TypedShapes, DeleteEntersDoes DEF DeleteStarts, histVars
  <2>7. CASE DeleteFenceOpens(q)
    BY <2>7, TypedShapes, DeleteFenceOpensDoes DEF DeleteStarts, histVars
  <2>8. CASE DeleteRefused(q)
    BY <2>8, TypedShapes, DeleteRefusedDoes
  <2>9. CASE RowDeleted(q)
    BY <2>9, TypedShapes, RowDeletedDoes DEF histVars
  <2>10. CASE NotFound(q) \/ DeleteFails(q) \/ Purged(q)
    BY <2>10, TypedShapes, UnmarksDoes DEF histVars
  <2>. QED BY <2>1, <2>2, <2>3, <2>4, <2>5, <2>6, <2>7, <2>8, <2>9, <2>10, <1>6 DEF RequestSteps
<1>7. ASSUME NEW e \in Engine, EngineSteps(e)
      PROVE  (refused => refused') /\ (crossed => crossed')
  <2>1. CASE KillLands(e) \/ LeakEnds(e)
    BY <2>1, TypedShapes, KillLandsDoes DEF others, histVars
  <2>2. CASE RemovalSettles(e)
    BY <2>2, TypedShapes DEF RemovalSettles, others, histVars
  <2>3. CASE EngineReady(e) \/ EngineWedges(e)
    BY <2>3, TypedShapes, EngineRunsDoes DEF others, histVars
  <2>4. CASE EngineDrops(e) \/ EngineUnlinked(e) \/ EngineFails(e) \/ StuckAuth(e) \/ WipeLands(e)
    BY <2>4, TypedShapes, EngineEndsDoes DEF others, histVars
  <2>5. CASE ProbeFails(e) \/ ProbePasses
    BY <2>5, TypedShapes, ProbesDoes DEF others, histVars
  <2>6. CASE DropHandled(e)
    BY <2>6, TypedShapes, DropHandledDoes
  <2>7. CASE DropUnread(e)
    BY <2>7, TypedShapes, DropUnreadDoes DEF others, histVars
  <2>. QED BY <2>1, <2>2, <2>3, <2>4, <2>5, <2>6, <2>7, <1>7 DEF EngineSteps
<1>. QED BY <1>1, <1>2, <1>3, <1>4, <1>5, <1>6, <1>7, NextCases


\* A launch that goes on is in flight, and leaves the others alone.
LEMMA LaunchGoesOn ==
    ASSUME Typed, NEW l \in Launcher, LaunchSteps(l)
    PROVE  launch[l].at # "idle" /\ \A k \in Launcher : k # l => launch'[k] = launch[k]
<1>1. CASE FenceOpens(l)
  <2>1. CASE l = Start
    BY <1>1, <2>1, TypedParts, FenceOpensDoes
  <2>2. CASE l # Start
    BY <1>1, <2>2, TypedParts, FenceOpensDoes DEF Registered
  <2>. QED BY <2>1, <2>2
<1>2. CASE FenceRefuses(l)
  BY <1>2, TypedParts, FenceRefusesDoes DEF elsewhere
<1>3. CASE WriteSettles(l)
  BY <1>3, TypedParts, WriteSettlesDoes DEF elsewhere, histVars
<1>4. CASE WriteFails(l)
  BY <1>4, TypedParts, WriteFailsDoes DEF elsewhere
<1>5. CASE InitResolves(l)
  BY <1>5, TypedParts, InitResolvesDoes DEF elsewhere, histVars
<1>6. CASE InitRejects(l)
  BY <1>6, TypedParts, InitRejectsDoes DEF elsewhere
<1>7. CASE InitTimesOut(l)
  BY <1>7, TypedParts, InitTimesOutDoes DEF elsewhere, histVars
<1>8. CASE LateKillEnds(l)
  BY <1>8, TypedParts, LateKillEndsDoes DEF elsewhere
<1>9. CASE RowRead(l)
  BY <1>9, TypedParts, RowReadDoes DEF elsewhere
<1>10. CASE RetireEnds(l) \/ RetireTimesOut(l)
  BY <1>10, TypedParts, RetireEndsDoes DEF elsewhere, histVars
<1>11. CASE Repurged(l)
  BY <1>11, TypedParts, RepurgedDoes DEF elsewhere, histVars
<1>12. CASE OldEngineGone(l)
  BY <1>12, TypedParts, OldEngineGoneDoes DEF elsewhere, histVars
<1>13. CASE DestroyTimesOut(l)
  BY <1>13, TypedParts, DestroyTimesOutDoes DEF elsewhere, histVars
<1>. QED BY <1>1, <1>2, <1>3, <1>4, <1>5, <1>6, <1>7, <1>8, <1>9, <1>10, <1>11, <1>12, <1>13 DEF LaunchSteps

\* Only a launch registers an engine.
LEMMA RegistryFalls ==
    ASSUME Typed,
           \/ \E q \in Request, kind \in Kinds : CallMade(q, kind)
           \/ \E q \in Request : RequestSteps(q)
           \/ \E e \in Engine : EngineSteps(e)
    PROVE  mem'.registry \in {mem.registry, NoEngine}
<1>5. ASSUME NEW q \in Request, NEW kind \in Kinds, CallMade(q, kind)
      PROVE  mem'.registry \in {mem.registry, NoEngine}
  <2>1. CASE kind \in {"stop", "delete"} /\ Called(q, kind)
    BY <2>1, CalledDoes
  <2>2. CASE kind \in {"logout", "kill"} /\ EngineCalled(q, kind)
    BY <1>5, <2>2, EngineCalledDoes
  <2>. QED BY <2>1, <2>2, <1>5 DEF CallMade
<1>6. ASSUME NEW q \in Request, RequestSteps(q)
      PROVE  mem'.registry \in {mem.registry, NoEngine}
  <2>1. CASE StopCaptures(q)
    BY <2>1, TypedParts, StopCapturesDoes DEF histVars
  <2>2. CASE WaitEnds(q)
    BY <2>2, TypedParts, WaitEndsDoes DEF histVars
  <2>3. CASE StopCloses(q) \/ LogoutReturns(q) \/ KillEnds(q)
    BY <2>3, TypedParts, ClosesDoes DEF histVars
  <2>4. CASE LogoutOverruns(q)
    BY <2>4, TypedParts, LogoutOverrunsDoes DEF histVars
  <2>5. CASE StopEscalates(q)
    BY <2>5, TypedParts, StopEscalatesDoes DEF histVars
  <2>6. CASE DeleteEnters(q)
    BY <2>6, TypedParts, DeleteEntersDoes DEF DeleteStarts, histVars
  <2>7. CASE DeleteFenceOpens(q)
    BY <2>7, TypedParts, DeleteFenceOpensDoes DEF DeleteStarts, histVars
  <2>8. CASE DeleteRefused(q)
    BY <2>8, TypedParts, DeleteRefusedDoes
  <2>9. CASE RowDeleted(q)
    BY <2>9, TypedParts, RowDeletedDoes DEF histVars
  <2>10. CASE NotFound(q) \/ DeleteFails(q) \/ Purged(q)
    BY <2>10, TypedParts, UnmarksDoes DEF histVars
  <2>. QED BY <2>1, <2>2, <2>3, <2>4, <2>5, <2>6, <2>7, <2>8, <2>9, <2>10, <1>6 DEF RequestSteps
<1>7. ASSUME NEW e \in Engine, EngineSteps(e)
      PROVE  mem'.registry \in {mem.registry, NoEngine}
  <2>1. CASE KillLands(e) \/ LeakEnds(e)
    BY <2>1, TypedParts, KillLandsDoes DEF others, histVars
  <2>2. CASE RemovalSettles(e)
    BY <2>2, TypedParts DEF RemovalSettles, others, histVars
  <2>3. CASE EngineReady(e) \/ EngineWedges(e)
    BY <2>3, TypedParts, EngineRunsDoes DEF others, histVars
  <2>4. CASE EngineDrops(e) \/ EngineUnlinked(e) \/ EngineFails(e) \/ StuckAuth(e) \/ WipeLands(e)
    BY <2>4, TypedParts, EngineEndsDoes DEF others, histVars
  <2>5. CASE ProbeFails(e) \/ ProbePasses
    BY <2>5, TypedParts, ProbesDoes DEF others, histVars
  <2>6. CASE DropHandled(e)
    BY <2>6, TypedParts, DropHandledDoes
  <2>7. CASE DropUnread(e)
    BY <2>7, TypedParts, DropUnreadDoes DEF others, histVars
  <2>. QED BY <2>1, <2>2, <2>3, <2>4, <2>5, <2>6, <2>7, <1>7 DEF EngineSteps
<1>. QED BY <1>5, <1>6, <1>7


\* An engine that is gone stays so until its identity is taken again, by
\* a launch that finds that nobody holds it.
LEMMA GoneStays ==
    ASSUME Typed, NEW f \in Engine, mem.eng[f] = "gone", [Next]_vars
    PROVE  mem'.eng[f] = "gone" \/ f \notin Held
<1>1. CASE UNCHANGED vars
  BY <1>1, TypedParts DEF vars, histVars, Latch, Alive
<1>2. CASE StartSteps
  <2>1. CASE StartCalled
    BY <2>1, TypedParts, StartCalledDoes DEF elsewhere, Begun, Latch, Alive
  <2>2. CASE HookDone
    BY <2>2, TypedParts, HookDoneDoes DEF elsewhere, Registered, histVars, Latch, Alive
  <2>3. CASE ReapEnds
    BY <2>3, TypedParts, ReapEndsDoes DEF elsewhere, histVars, Latch, Alive
  <2>. QED BY <2>1, <2>2, <2>3, <1>2 DEF StartSteps
<1>3. ASSUME NEW l \in Launcher, LaunchSteps(l)
      PROVE  mem'.eng[f] = "gone" \/ f \notin Held
  <2>1. CASE FenceOpens(l)
    BY <2>1, TypedParts, FenceOpensDoes DEF elsewhere, Registered, histVars, Latch, Alive
  <2>2. CASE FenceRefuses(l)
    BY <2>2, TypedParts, FenceRefusesDoes DEF elsewhere, Latch, Alive
  <2>3. CASE WriteSettles(l)
    BY <2>3, TypedParts, WriteSettlesDoes DEF elsewhere, histVars, Latch, Alive
  <2>4. CASE WriteFails(l)
    BY <2>4, TypedParts, WriteFailsDoes DEF elsewhere, Latch, Alive
  <2>5. CASE InitResolves(l)
    BY <2>5, TypedParts, InitResolvesDoes DEF elsewhere, histVars, Latch, Alive
  <2>6. CASE InitRejects(l)
    BY <2>6, TypedParts, InitRejectsDoes DEF elsewhere, Latch, Alive
  <2>7. CASE InitTimesOut(l)
    BY <2>7, TypedParts, InitTimesOutDoes DEF elsewhere, histVars, Latch, Alive
  <2>8. CASE LateKillEnds(l)
    BY <2>8, TypedParts, LateKillEndsDoes DEF elsewhere, Latch, Alive
  <2>9. CASE RowRead(l)
    BY <2>9, TypedParts, RowReadDoes DEF elsewhere, Latch, Alive
  <2>10. CASE RetireEnds(l) \/ RetireTimesOut(l)
    BY <2>10, TypedParts, RetireEndsDoes DEF elsewhere, histVars, Latch, Alive
  <2>11. CASE Repurged(l)
    BY <2>11, RepurgedDoes
  <2>12. CASE OldEngineGone(l)
    BY <2>12, TypedParts, OldEngineGoneDoes DEF elsewhere, histVars, Latch, Alive
  <2>13. CASE DestroyTimesOut(l)
    BY <2>13, TypedParts, DestroyTimesOutDoes DEF elsewhere, histVars, Latch, Alive
  <2>. QED BY <2>1, <2>2, <2>3, <2>4, <2>5, <2>6, <2>7, <2>8, <2>9, <2>10, <2>11, <2>12, <2>13, <1>3 DEF LaunchSteps
<1>4. ASSUME NEW l \in Attempt, TimerFires(l)
      PROVE  mem'.eng[f] = "gone" \/ f \notin Held
  BY <1>4, TypedParts, TimerFiresDoes DEF elsewhere, Begun, Registered, Latch, Alive
<1>5. ASSUME NEW q \in Request, NEW kind \in Kinds, CallMade(q, kind)
      PROVE  mem'.eng[f] = "gone" \/ f \notin Held
  <2>1. CASE kind \in {"stop", "delete"} /\ Called(q, kind)
    BY <1>5, <2>1, TypedParts, CalledDoes DEF CallMade, Latch, Alive
  <2>2. CASE kind \in {"logout", "kill"} /\ EngineCalled(q, kind)
    BY <1>5, <2>2, TypedParts, EngineCalledDoes DEF CallMade, Latch, Alive
  <2>. QED BY <2>1, <2>2, <1>5 DEF CallMade
<1>6. ASSUME NEW q \in Request, RequestSteps(q)
      PROVE  mem'.eng[f] = "gone" \/ f \notin Held
  <2>1. CASE StopCaptures(q)
    BY <2>1, TypedParts, StopCapturesDoes DEF histVars, Latch, Alive
  <2>2. CASE WaitEnds(q)
    BY <2>2, TypedParts, WaitEndsDoes DEF histVars, Latch, Alive
  <2>3. CASE StopCloses(q) \/ LogoutReturns(q) \/ KillEnds(q)
    BY <2>3, TypedParts, ClosesDoes DEF histVars, Latch, Alive
  <2>4. CASE LogoutOverruns(q)
    BY <2>4, TypedParts, LogoutOverrunsDoes DEF histVars, Latch, Alive
  <2>5. CASE StopEscalates(q)
    BY <2>5, TypedParts, StopEscalatesDoes DEF histVars, Latch, Alive
  <2>6. CASE DeleteEnters(q)
    BY <2>6, TypedParts, DeleteEntersDoes DEF DeleteStarts, histVars, Latch, Alive
  <2>7. CASE DeleteFenceOpens(q)
    BY <2>7, TypedParts, DeleteFenceOpensDoes DEF DeleteStarts, histVars, Latch, Alive
  <2>8. CASE DeleteRefused(q)
    BY <2>8, TypedParts, DeleteRefusedDoes DEF Latch, Alive
  <2>9. CASE RowDeleted(q)
    BY <2>9, TypedParts, RowDeletedDoes DEF histVars, Latch, Alive
  <2>10. CASE NotFound(q) \/ DeleteFails(q) \/ Purged(q)
    BY <2>10, TypedParts, UnmarksDoes DEF histVars, Latch, Alive
  <2>. QED BY <2>1, <2>2, <2>3, <2>4, <2>5, <2>6, <2>7, <2>8, <2>9, <2>10, <1>6 DEF RequestSteps
<1>7. ASSUME NEW e \in Engine, EngineSteps(e)
      PROVE  mem'.eng[f] = "gone" \/ f \notin Held
  <2>1. CASE KillLands(e) \/ LeakEnds(e)
    BY <2>1, TypedParts, KillLandsDoes DEF others, histVars, Latch, Alive
  <2>2. CASE RemovalSettles(e)
    BY <2>2, TypedParts DEF RemovalSettles, others, histVars, Latch, Alive
  <2>3. CASE EngineReady(e) \/ EngineWedges(e)
    BY <2>3, TypedParts, EngineRunsDoes DEF others, histVars, Latch, Alive
  <2>4. CASE EngineDrops(e) \/ EngineUnlinked(e) \/ EngineFails(e) \/ StuckAuth(e) \/ WipeLands(e)
    BY <2>4, TypedParts, EngineEndsDoes DEF others, histVars, Latch, Alive
  <2>5. CASE ProbeFails(e) \/ ProbePasses
    BY <2>5, TypedParts, ProbesDoes DEF others, histVars, Latch, Alive
  <2>6. CASE DropHandled(e)
    BY <2>6, TypedParts, DropHandledDoes DEF Latch, Alive
  <2>7. CASE DropUnread(e)
    BY <2>7, TypedParts, DropUnreadDoes DEF others, histVars, Latch, Alive
  <2>. QED BY <2>1, <2>2, <2>3, <2>4, <2>5, <2>6, <2>7, <1>7 DEF EngineSteps
<1>. QED BY <1>1, <1>2, <1>3, <1>4, <1>5, <1>6, <1>7, NextCases

\* A deleted session's engine stays gone.
LEMMA LateIsGoneStep ==
    ASSUME Typed, LateIsGone, [Next]_vars
    PROVE  LateIsGone'
<1>0. ASSUME NEW q \in Request, Late(q), request[q].eng # NoEngine
      PROVE  mem'.eng[request[q].eng] = "gone"
  <2>1. request[q].eng \in Engine /\ request[q].eng \in Held /\ mem.eng[request[q].eng] = "gone"
    BY <1>0, TypedParts DEF Held, LateIsGone
  <2>. QED BY <2>1, GoneStays
<1>1. CASE request' = request
  BY <1>0, <1>1 DEF LateIsGone, Late
<1>5. ASSUME NEW q \in Request, NEW kind \in Kinds, CallMade(q, kind)
      PROVE  (Late(q)' /\ request'[q].eng # NoEngine => mem'.eng[request'[q].eng] = "gone") /\ \A r \in Request : r # q => request'[r] = request[r]
  <2>1. CASE kind \in {"stop", "delete"} /\ Called(q, kind)
    BY <2>1, CalledDoes DEF Late
  <2>2. CASE kind \in {"logout", "kill"} /\ EngineCalled(q, kind)
    <3>1. kind \in Kinds /\ EngineCalled(q, kind)
      BY <1>5, <2>2
    <3>2. \E at \in {"waiting", "closing", "killing"} : RequestAs(q, at, kind, mem.registry, {})
      BY <3>1, EngineCalledDoes
    <3>. QED BY <3>2 DEF Late
  <2>. QED BY <2>1, <2>2, <1>5 DEF CallMade
<1>6. ASSUME NEW q \in Request, RequestSteps(q)
      PROVE  (Late(q)' /\ request'[q].eng # NoEngine => mem'.eng[request'[q].eng] = "gone") /\ \A r \in Request : r # q => request'[r] = request[r]
  <2>1. CASE StopCaptures(q)
    BY <2>1, <1>0, TypedParts, StopCapturesDoes DEF histVars, Late
  <2>2. CASE WaitEnds(q)
    BY <2>2, <1>0, TypedParts, WaitEndsDoes DEF histVars, Late
  <2>3. CASE StopCloses(q) \/ LogoutReturns(q) \/ KillEnds(q)
    <3>1. /\ request[q].eng \in Engine /\ request'[q].eng \in {NoEngine, request[q].eng}
          /\ \A r \in Request : r # q => request'[r] = request[r]
          /\ mem'.eng[request[q].eng] = "gone"
      BY <2>3, ClosesDoes
    <3>. QED BY <3>1
  <2>4. CASE LogoutOverruns(q)
    BY <2>4, <1>0, TypedParts, LogoutOverrunsDoes DEF histVars, Late
  <2>5. CASE StopEscalates(q)
    BY <2>5, <1>0, TypedParts, StopEscalatesDoes DEF histVars, Late
  <2>6. CASE DeleteEnters(q)
    BY <2>6, <1>0, TypedParts, DeleteEntersDoes DEF DeleteStarts, histVars, Late
  <2>7. CASE DeleteFenceOpens(q)
    BY <2>7, <1>0, TypedParts, DeleteFenceOpensDoes DEF DeleteStarts, histVars, Late
  <2>8. CASE DeleteRefused(q)
    BY <2>8, <1>0, TypedParts, DeleteRefusedDoes DEF Late
  <2>9. CASE RowDeleted(q)
    BY <2>9, <1>0, TypedParts, RowDeletedDoes DEF histVars, Late
  <2>10. CASE NotFound(q) \/ DeleteFails(q) \/ Purged(q)
    BY <2>10, <1>0, TypedParts, UnmarksDoes DEF histVars, Late
  <2>. QED BY <2>1, <2>2, <2>3, <2>4, <2>5, <2>6, <2>7, <2>8, <2>9, <2>10, <1>6 DEF RequestSteps
<1>7. CASE \E q \in Request, kind \in Kinds : CallMade(q, kind)
  <2>1. PICK q \in Request : (Late(q)' /\ request'[q].eng # NoEngine => mem'.eng[request'[q].eng] = "gone") /\ \A r \in Request : r # q => request'[r] = request[r]
    BY <1>5, <1>7
  <2>. QED BY <1>0, <2>1 DEF LateIsGone, Late
<1>8. CASE \E q \in Request : RequestSteps(q)
  <2>1. PICK q \in Request : (Late(q)' /\ request'[q].eng # NoEngine => mem'.eng[request'[q].eng] = "gone") /\ \A r \in Request : r # q => request'[r] = request[r]
    BY <1>6, <1>8
  <2>. QED BY <1>0, <2>1 DEF LateIsGone, Late
<1>9. CASE \E l \in Attempt : TimerFires(l)
  BY <1>1, <1>9 DEF TimerFires, elsewhere
<1>. QED BY <1>1, <1>7, <1>8, <1>9, StartStepsLeave, LaunchStepsLeave, EngineStepsLeave, NextCases DEF vars, elsewhere


\* Two launches overlap only where the history says so.
LEMMA OneLaunchStep ==
    ASSUME Typed, OneLaunch, [Next]_vars, ~overlapped'
    PROVE  OneLaunch'
<1>1. CASE launch' = launch
  BY <1>1 DEF OneLaunch, InFlight
<1>2. ASSUME NEW l \in Launcher, \A k \in Launcher : k # l => launch'[k] = launch[k],
             launch[l].at # "idle" \/ \A k \in Launcher : ~InFlight(k)
      PROVE  OneLaunch'
  BY <1>2 DEF OneLaunch, InFlight
<1>3. CASE StartSteps
  <2>0. Start \in Launcher
    BY DEF Launcher
  <2>1. CASE StartCalled
    <3>1. (\A k \in Launcher : k # Start => launch'[k] = launch[k]) /\ \A k \in Launcher : ~InFlight(k)
      BY <2>1, TypedParts, StartCalledDoes DEF Begun
    <3>. QED BY <1>2, <2>0, <3>1
  <2>2. CASE HookDone
    BY <1>2, <2>0, <2>2, HookDoneDoes DEF Registered
  <2>3. CASE ReapEnds
    BY <1>2, <2>0, <2>3, ReapEndsDoes
  <2>. QED BY <1>3, <2>1, <2>2, <2>3 DEF StartSteps
<1>4. CASE \E l \in Launcher : LaunchSteps(l)
  BY <1>2, <1>4, LaunchGoesOn
<1>5. ASSUME NEW l \in Attempt, TimerFires(l)
      PROVE  OneLaunch'
  <2>1. \/ launch' = launch
        \/ (\A k \in Launcher : k # l => launch'[k] = launch[k]) /\ \A k \in Launcher : ~InFlight(k)
    BY <1>5, TypedParts, TimerFiresDoes DEF Begun, Registered
  <2>. QED BY <1>1, <1>2, <2>1, TypedParts
<1>6. CASE \E q \in Request, kind \in Kinds : CallMade(q, kind)
  BY <1>1, <1>6 DEF CallMade, Called, EngineCalled
<1>. QED BY <1>1, <1>3, <1>4, <1>5, <1>6, RequestStepsLeave, EngineStepsLeave, NextCases DEF vars


\* Only the launch in flight registers an engine, at its own points.
LEMMA PlacedStep ==
    ASSUME Typed, OneLaunch, \A l \in Launcher : Placed(l), [Next]_vars, ~overlapped'
    PROVE  \A l \in Launcher : Placed(l)'
<1>0. ASSUME NEW l \in Launcher
      PROVE  Placed(l) /\ LaunchFits(l)
  BY <1>0, TypedShapes DEF LaunchShape
<1>1. ASSUME launch' = launch, mem'.registry \in {mem.registry, NoEngine}
      PROVE  \A l \in Launcher : Placed(l)'
  BY <1>0, <1>1 DEF Placed
<1>2. ASSUME StartSteps, NEW l \in Launcher, l = Start
      PROVE  Placed(l)'
  <2>1. CASE StartCalled
    BY <2>1, <1>0, <1>2, TypedParts, StartCalledDoes DEF elsewhere, Begun, Placed, LaunchFits, TearsDown
  <2>2. CASE HookDone
    BY <2>2, <1>0, <1>2, TypedParts, HookDoneDoes DEF elsewhere, Registered, histVars, Placed, LaunchFits, TearsDown
  <2>3. CASE ReapEnds
    BY <2>3, <1>0, <1>2, TypedParts, ReapEndsDoes DEF elsewhere, histVars, Placed, LaunchFits, TearsDown
  <2>. QED BY <2>1, <2>2, <2>3, <1>2 DEF StartSteps
<1>3. ASSUME NEW l \in Launcher, LaunchSteps(l)
      PROVE  Placed(l)'
  <2>1. CASE FenceOpens(l)
    <3>1. CASE l = Start
      BY <1>0, <2>1, <3>1, TypedParts, FenceOpensDoes DEF Placed, LaunchFits, TearsDown
    <3>2. CASE l # Start
      BY <2>1, <3>2, TypedParts, FenceOpensDoes DEF Registered, Placed
    <3>. QED BY <3>1, <3>2
  <2>2. CASE FenceRefuses(l)
    BY <2>2, <1>0, TypedParts, FenceRefusesDoes DEF elsewhere, Placed, LaunchFits, TearsDown
  <2>3. CASE WriteSettles(l)
    BY <2>3, <1>0, TypedParts, WriteSettlesDoes DEF elsewhere, histVars, Placed, LaunchFits, TearsDown
  <2>4. CASE WriteFails(l)
    BY <2>4, <1>0, TypedParts, WriteFailsDoes DEF elsewhere, Placed, LaunchFits, TearsDown
  <2>5. CASE InitResolves(l)
    BY <2>5, <1>0, TypedParts, InitResolvesDoes DEF elsewhere, histVars, Placed, LaunchFits, TearsDown
  <2>6. CASE InitRejects(l)
    BY <2>6, <1>0, TypedParts, InitRejectsDoes DEF elsewhere, Placed, LaunchFits, TearsDown
  <2>7. CASE InitTimesOut(l)
    BY <2>7, <1>0, TypedParts, InitTimesOutDoes DEF elsewhere, histVars, Placed, LaunchFits, TearsDown
  <2>8. CASE LateKillEnds(l)
    BY <2>8, <1>0, TypedParts, LateKillEndsDoes DEF elsewhere, Placed, LaunchFits, TearsDown
  <2>9. CASE RowRead(l)
    BY <2>9, <1>0, TypedParts, RowReadDoes DEF elsewhere, Placed, LaunchFits, TearsDown
  <2>10. CASE RetireEnds(l) \/ RetireTimesOut(l)
    BY <2>10, <1>0, TypedParts, RetireEndsDoes DEF elsewhere, histVars, Placed, LaunchFits, TearsDown
  <2>11. CASE Repurged(l)
    BY <2>11, <1>0, TypedParts, RepurgedDoes DEF elsewhere, histVars, Placed, LaunchFits, TearsDown
  <2>12. CASE OldEngineGone(l)
    BY <2>12, <1>0, TypedParts, OldEngineGoneDoes DEF elsewhere, histVars, Placed, LaunchFits, TearsDown
  <2>13. CASE DestroyTimesOut(l)
    BY <2>13, <1>0, TypedParts, DestroyTimesOutDoes DEF elsewhere, histVars, Placed, LaunchFits, TearsDown
  <2>. QED BY <2>1, <2>2, <2>3, <2>4, <2>5, <2>6, <2>7, <2>8, <2>9, <2>10, <2>11, <2>12, <2>13, <1>3 DEF LaunchSteps
<1>4. ASSUME NEW l \in Attempt, TimerFires(l)
      PROVE  Placed(l)'
  BY <1>4, TypedParts, TimerFiresDoes DEF elsewhere, Begun, Registered, Placed, LaunchFits, TearsDown
<1>5. ASSUME NEW l \in Launcher, \A k \in Launcher : k # l => launch'[k] = launch[k], Placed(l)',
             launch[l].at # "idle" \/ \A k \in Launcher : ~InFlight(k)
      PROVE  \A k \in Launcher : Placed(k)'
  BY <1>5 DEF OneLaunch, InFlight, Placed
<1>6. CASE StartSteps
  <2>0. Start \in Launcher
    BY DEF Launcher
  <2>1. CASE StartCalled
    <3>1. (\A k \in Launcher : k # Start => launch'[k] = launch[k]) /\ \A k \in Launcher : ~InFlight(k)
      BY <2>1, TypedParts, StartCalledDoes DEF Begun
    <3>. QED BY <1>2, <1>5, <1>6, <2>0, <3>1
  <2>2. CASE HookDone
    <3>1. (\A k \in Launcher : k # Start => launch'[k] = launch[k]) /\ launch[Start].at # "idle"
      BY <2>2, HookDoneDoes DEF Registered
    <3>. QED BY <1>2, <1>5, <1>6, <2>0, <3>1
  <2>3. CASE ReapEnds
    <3>1. (\A k \in Launcher : k # Start => launch'[k] = launch[k]) /\ launch[Start].at # "idle"
      BY <2>3, ReapEndsDoes
    <3>. QED BY <1>2, <1>5, <1>6, <2>0, <3>1
  <2>. QED BY <1>6, <2>1, <2>2, <2>3 DEF StartSteps
<1>7. CASE \E l \in Launcher : LaunchSteps(l)
  BY <1>3, <1>5, <1>7, LaunchGoesOn
<1>8. ASSUME NEW l \in Attempt, TimerFires(l)
      PROVE  \A k \in Launcher : Placed(k)'
  <2>1. \/ launch' = launch /\ mem'.registry = mem.registry
        \/ (\A k \in Launcher : k # l => launch'[k] = launch[k]) /\ \A k \in Launcher : ~InFlight(k)
    BY <1>8, TypedParts, TimerFiresDoes DEF Begun, Registered
  <2>. QED BY <1>1, <1>4, <1>5, <1>8, <2>1, TypedParts
<1>9. CASE \E q \in Request, kind \in Kinds : CallMade(q, kind)
  <2>1. launch' = launch
    BY <1>9 DEF CallMade, Called, EngineCalled
  <2>. QED BY <1>1, <1>9, <2>1, RegistryFalls
<1>10. CASE UNCHANGED vars
  BY <1>1, <1>10 DEF vars
<1>. QED BY <1>1, <1>6, <1>7, <1>8, <1>9, <1>10, RegistryFalls, RequestStepsLeave, EngineStepsLeave, NextCases

\* A launch tears engine f down.
HeldBy(l, f) == launch[l].victim = f \/ (launch[l].at = "killing" /\ launch[l].eng = f)

\* A launch holds on to the engine it tears down while that engine runs.
LEMMA LaunchHolds ==
    ASSUME Typed, [Next]_vars, NEW f \in Engine, NEW k \in Launcher, HeldBy(k, f),
           mem'.eng[f] \in Running
    PROVE  HeldBy(k, f)' \/ mem'.eng[f] = "leaked"
<1>0. (\A l \in Launcher : LaunchFits(l)) /\ f # NoEngine
  BY TypedShapes, TypedParts DEF LaunchShape
<1>1. CASE launch'[k] = launch[k]
  BY <1>1 DEF HeldBy
<1>2. CASE StartSteps
  <2>1. CASE StartCalled
    BY <2>1, <1>0, TypedParts, StartCalledDoes DEF elsewhere, Begun, HeldBy, Running, Alive, LaunchFits, TearsDown
  <2>2. CASE HookDone
    BY <2>2, <1>0, TypedParts, HookDoneDoes DEF elsewhere, Registered, histVars, HeldBy, Running, Alive, LaunchFits, TearsDown
  <2>3. CASE ReapEnds
    BY <2>3, <1>0, TypedParts, ReapEndsDoes DEF elsewhere, histVars, HeldBy, Running, Alive, LaunchFits, TearsDown
  <2>. QED BY <2>1, <2>2, <2>3, <1>2 DEF StartSteps
<1>3. ASSUME NEW l \in Launcher, LaunchSteps(l), l = k
      PROVE  HeldBy(k, f)' \/ mem'.eng[f] = "leaked"
  <2>1. CASE FenceOpens(l)
    <3>1. CASE l = Start
      BY <1>0, <2>1, <3>1, TypedParts, FenceOpensDoes DEF HeldBy, Running, Alive, LaunchFits, TearsDown
    <3>2. CASE l # Start
      BY <1>0, <2>1, <3>2, TypedParts, FenceOpensDoes DEF Registered, HeldBy, Running, Alive, LaunchFits, TearsDown
    <3>. QED BY <3>1, <3>2
  <2>2. CASE FenceRefuses(l)
    BY <2>2, <1>0, <1>3, TypedParts, FenceRefusesDoes DEF elsewhere, HeldBy, Running, Alive, LaunchFits, TearsDown
  <2>3. CASE WriteSettles(l)
    BY <2>3, <1>0, <1>3, TypedParts, WriteSettlesDoes DEF elsewhere, histVars, HeldBy, Running, Alive, LaunchFits, TearsDown
  <2>4. CASE WriteFails(l)
    BY <2>4, <1>0, <1>3, TypedParts, WriteFailsDoes DEF elsewhere, HeldBy, Running, Alive, LaunchFits, TearsDown
  <2>5. CASE InitResolves(l)
    BY <2>5, <1>0, <1>3, TypedParts, InitResolvesDoes DEF elsewhere, histVars, HeldBy, Running, Alive, LaunchFits, TearsDown
  <2>6. CASE InitRejects(l)
    BY <2>6, <1>0, <1>3, TypedParts, InitRejectsDoes DEF elsewhere, HeldBy, Running, Alive, LaunchFits, TearsDown
  <2>7. CASE InitTimesOut(l)
    BY <2>7, <1>0, <1>3, TypedParts, InitTimesOutDoes DEF elsewhere, histVars, HeldBy, Running, Alive, LaunchFits, TearsDown
  <2>8. CASE LateKillEnds(l)
    BY <2>8, <1>0, <1>3, TypedParts, LateKillEndsDoes DEF elsewhere, HeldBy, Running, Alive, LaunchFits, TearsDown
  <2>9. CASE RowRead(l)
    BY <2>9, <1>0, <1>3, TypedParts, RowReadDoes DEF elsewhere, HeldBy, Running, Alive, LaunchFits, TearsDown
  <2>10. CASE RetireEnds(l) \/ RetireTimesOut(l)
    BY <2>10, <1>0, <1>3, TypedParts, RetireEndsDoes DEF elsewhere, histVars, HeldBy, Running, Alive, LaunchFits, TearsDown
  <2>11. CASE Repurged(l)
    BY <2>11, <1>0, <1>3, TypedParts, RepurgedDoes DEF elsewhere, histVars, HeldBy, Running, Alive, LaunchFits, TearsDown
  <2>12. CASE OldEngineGone(l)
    BY <2>12, <1>0, <1>3, TypedParts, OldEngineGoneDoes DEF elsewhere, histVars, HeldBy, Running, Alive, LaunchFits, TearsDown
  <2>13. CASE DestroyTimesOut(l)
    BY <2>13, <1>0, <1>3, TypedParts, DestroyTimesOutDoes DEF elsewhere, histVars, HeldBy, Running, Alive, LaunchFits, TearsDown
  <2>. QED BY <2>1, <2>2, <2>3, <2>4, <2>5, <2>6, <2>7, <2>8, <2>9, <2>10, <2>11, <2>12, <2>13, <1>3 DEF LaunchSteps
<1>4. ASSUME NEW l \in Attempt, TimerFires(l)
      PROVE  HeldBy(k, f)' \/ mem'.eng[f] = "leaked"
  BY <1>4, <1>0, TypedParts, TimerFiresDoes DEF elsewhere, Begun, Registered, HeldBy, Running, Alive, LaunchFits, TearsDown
<1>5. CASE \E l \in Launcher : LaunchSteps(l) /\ l # k
  BY <1>1, <1>5, LaunchGoesOn
<1>6. CASE \E q \in Request, kind \in Kinds : CallMade(q, kind)
  BY <1>1, <1>6 DEF CallMade, Called, EngineCalled
<1>. QED BY <1>1, <1>2, <1>3, <1>4, <1>5, <1>6, RequestStepsLeave, EngineStepsLeave, NextCases DEF vars


\* So does a request, or it leaves the engine to its kill.
LEMMA RequestHolds ==
    ASSUME Typed, LateIsGone, [Next]_vars, NEW f \in Engine, NEW r \in Request, request[r].eng = f,
           mem'.eng[f] \in Running
    PROVE  request'[r].eng = f \/ f \in mem'.dying
<1>0. (\A q \in Request : RequestFits(q)) /\ f # NoEngine
  BY TypedShapes, TypedParts DEF RequestShape
<1>1. CASE request'[r] = request[r]
  BY <1>1
<1>2. "gone" \notin Running
  BY DEF Running, Alive
<1>3. Late(r) => mem'.eng[f] = "gone"
  <2>1. f \in Held
    BY DEF Held
  <2>. QED BY <1>0, <2>1, GoneStays DEF LateIsGone
<1>5. ASSUME NEW q \in Request, NEW kind \in Kinds, CallMade(q, kind)
      PROVE  request'[r].eng = f \/ f \in mem'.dying
  <2>1. request[q].at = "idle" /\ request[q].eng = NoEngine
    BY <1>0, <1>5 DEF CallMade, RequestFits
  <2>2. request'[r] = request[r]
    BY <1>0, <1>5, <2>1, TypedParts DEF CallMade, Called, EngineCalled, Capture, TearDown
  <2>. QED BY <1>1, <2>2
<1>6. ASSUME NEW q \in Request, RequestSteps(q)
      PROVE  request'[r].eng = f \/ f \in mem'.dying
  <2>1. CASE StopCaptures(q)
    <3>1. request[q].at = "entered" /\ \A p \in Request : p # q => request'[p] = request[p]
      BY <2>1, StopCapturesDoes
    <3>2. request[q].eng = NoEngine
      BY <1>0, <3>1 DEF RequestFits, Early
    <3>. QED BY <1>0, <1>1, <3>1, <3>2
  <2>2. CASE WaitEnds(q)
    BY <2>2, <1>0, <1>2, <1>3, TypedParts, WaitEndsDoes DEF histVars, RequestFits, Early, Captured, Late
  <2>3. CASE StopCloses(q) \/ LogoutReturns(q) \/ KillEnds(q)
    <3>1. mem'.eng[request[q].eng] = "gone" /\ \A p \in Request : p # q => request'[p] = request[p]
      BY <2>3, ClosesDoes
    <3>. QED BY <1>1, <1>2, <3>1
  <2>4. CASE LogoutOverruns(q)
    BY <2>4, <1>0, <1>2, <1>3, TypedParts, LogoutOverrunsDoes DEF histVars, RequestFits, Early, Captured, Late
  <2>5. CASE StopEscalates(q)
    BY <2>5, <1>0, <1>2, <1>3, TypedParts, StopEscalatesDoes DEF histVars, RequestFits, Early, Captured, Late
  <2>6. CASE DeleteEnters(q)
    BY <2>6, <1>0, <1>2, <1>3, TypedParts, DeleteEntersDoes DEF DeleteStarts, histVars, RequestFits, Early, Captured, Late
  <2>7. CASE DeleteFenceOpens(q)
    BY <2>7, <1>0, <1>2, <1>3, TypedParts, DeleteFenceOpensDoes DEF DeleteStarts, histVars, RequestFits, Early, Captured, Late
  <2>8. CASE DeleteRefused(q)
    BY <2>8, <1>0, <1>2, <1>3, TypedParts, DeleteRefusedDoes DEF RequestFits, Early, Captured, Late
  <2>9. CASE RowDeleted(q)
    BY <2>9, <1>0, <1>2, <1>3, TypedParts, RowDeletedDoes DEF histVars, RequestFits, Early, Captured, Late
  <2>10. CASE NotFound(q) \/ DeleteFails(q) \/ Purged(q)
    <3>1. request[q].at \in {"entered", "deleting", "purging"} /\ \A p \in Request : p # q => request'[p] = request[p]
      BY <2>10, UnmarksDoes
    <3>2. request[q].eng = NoEngine \/ Late(q)
      BY <1>0, <3>1 DEF RequestFits, Early, Late
    <3>. QED BY <1>0, <1>1, <1>2, <1>3, <3>1, <3>2
  <2>. QED BY <2>1, <2>2, <2>3, <2>4, <2>5, <2>6, <2>7, <2>8, <2>9, <2>10, <1>6 DEF RequestSteps
<1>9. CASE \E l \in Attempt : TimerFires(l)
  BY <1>1, <1>9 DEF TimerFires, elsewhere
<1>. QED BY <1>1, <1>5, <1>6, <1>9, StartStepsLeave, LaunchStepsLeave, EngineStepsLeave, NextCases DEF vars, elsewhere


\* A kill left to itself ends with the engine gone.
LEMMA DyingEnds ==
    ASSUME Typed, NEW f \in Engine, f \in mem.dying, [Next]_vars
    PROVE  f \in mem'.dying \/ mem'.eng[f] = "gone"
<1>1. CASE UNCHANGED vars
  BY <1>1, TypedParts DEF vars, histVars
<1>2. CASE StartSteps
  <2>1. CASE StartCalled
    BY <2>1, TypedParts, StartCalledDoes DEF elsewhere, Begun
  <2>2. CASE HookDone
    BY <2>2, TypedParts, HookDoneDoes DEF elsewhere, Registered, histVars
  <2>3. CASE ReapEnds
    BY <2>3, TypedParts, ReapEndsDoes DEF elsewhere, histVars
  <2>. QED BY <2>1, <2>2, <2>3, <1>2 DEF StartSteps
<1>3. ASSUME NEW l \in Launcher, LaunchSteps(l)
      PROVE  f \in mem'.dying \/ mem'.eng[f] = "gone"
  <2>1. CASE FenceOpens(l)
    <3>1. CASE l = Start
      BY <2>1, <3>1, TypedParts, FenceOpensDoes
    <3>2. CASE l # Start
      BY <2>1, <3>2, TypedParts, FenceOpensDoes DEF Registered
    <3>. QED BY <3>1, <3>2
  <2>2. CASE FenceRefuses(l)
    BY <2>2, TypedParts, FenceRefusesDoes DEF elsewhere
  <2>3. CASE WriteSettles(l)
    BY <2>3, TypedParts, WriteSettlesDoes DEF elsewhere, histVars
  <2>4. CASE WriteFails(l)
    BY <2>4, TypedParts, WriteFailsDoes DEF elsewhere
  <2>5. CASE InitResolves(l)
    BY <2>5, TypedParts, InitResolvesDoes DEF elsewhere, histVars
  <2>6. CASE InitRejects(l)
    BY <2>6, TypedParts, InitRejectsDoes DEF elsewhere
  <2>7. CASE InitTimesOut(l)
    BY <2>7, TypedParts, InitTimesOutDoes DEF elsewhere, histVars
  <2>8. CASE LateKillEnds(l)
    BY <2>8, TypedParts, LateKillEndsDoes DEF elsewhere
  <2>9. CASE RowRead(l)
    BY <2>9, TypedParts, RowReadDoes DEF elsewhere
  <2>10. CASE RetireEnds(l) \/ RetireTimesOut(l)
    BY <2>10, TypedParts, RetireEndsDoes DEF elsewhere, histVars
  <2>11. CASE Repurged(l)
    BY <2>11, RepurgedDoes
  <2>12. CASE OldEngineGone(l)
    BY <2>12, TypedParts, OldEngineGoneDoes DEF elsewhere, histVars
  <2>13. CASE DestroyTimesOut(l)
    BY <2>13, TypedParts, DestroyTimesOutDoes DEF elsewhere, histVars
  <2>. QED BY <2>1, <2>2, <2>3, <2>4, <2>5, <2>6, <2>7, <2>8, <2>9, <2>10, <2>11, <2>12, <2>13, <1>3 DEF LaunchSteps
<1>4. ASSUME NEW l \in Attempt, TimerFires(l)
      PROVE  f \in mem'.dying \/ mem'.eng[f] = "gone"
  BY <1>4, TypedParts, TimerFiresDoes DEF elsewhere, Begun, Registered
<1>5. ASSUME NEW q \in Request, NEW kind \in Kinds, CallMade(q, kind)
      PROVE  f \in mem'.dying \/ mem'.eng[f] = "gone"
  <2>1. CASE kind \in {"stop", "delete"} /\ Called(q, kind)
    BY <1>5, <2>1, TypedParts, CalledDoes DEF CallMade
  <2>2. CASE kind \in {"logout", "kill"} /\ EngineCalled(q, kind)
    BY <1>5, <2>2, TypedParts, EngineCalledDoes DEF CallMade
  <2>. QED BY <2>1, <2>2, <1>5 DEF CallMade
<1>6. ASSUME NEW q \in Request, RequestSteps(q)
      PROVE  f \in mem'.dying \/ mem'.eng[f] = "gone"
  <2>1. CASE StopCaptures(q)
    BY <2>1, TypedParts, StopCapturesDoes DEF histVars
  <2>2. CASE WaitEnds(q)
    BY <2>2, TypedParts, WaitEndsDoes DEF histVars
  <2>3. CASE StopCloses(q) \/ LogoutReturns(q) \/ KillEnds(q)
    BY <2>3, TypedParts, ClosesDoes DEF histVars
  <2>4. CASE LogoutOverruns(q)
    BY <2>4, TypedParts, LogoutOverrunsDoes DEF histVars
  <2>5. CASE StopEscalates(q)
    BY <2>5, TypedParts, StopEscalatesDoes DEF histVars
  <2>6. CASE DeleteEnters(q)
    BY <2>6, TypedParts, DeleteEntersDoes DEF DeleteStarts, histVars
  <2>7. CASE DeleteFenceOpens(q)
    BY <2>7, TypedParts, DeleteFenceOpensDoes DEF DeleteStarts, histVars
  <2>8. CASE DeleteRefused(q)
    BY <2>8, TypedParts, DeleteRefusedDoes
  <2>9. CASE RowDeleted(q)
    BY <2>9, TypedParts, RowDeletedDoes DEF histVars
  <2>10. CASE NotFound(q) \/ DeleteFails(q) \/ Purged(q)
    BY <2>10, TypedParts, UnmarksDoes DEF histVars
  <2>. QED BY <2>1, <2>2, <2>3, <2>4, <2>5, <2>6, <2>7, <2>8, <2>9, <2>10, <1>6 DEF RequestSteps
<1>7. ASSUME NEW e \in Engine, EngineSteps(e)
      PROVE  f \in mem'.dying \/ mem'.eng[f] = "gone"
  <2>1. CASE KillLands(e) \/ LeakEnds(e)
    BY <2>1, TypedParts, KillLandsDoes DEF others, histVars
  <2>2. CASE RemovalSettles(e)
    BY <2>2, TypedParts DEF RemovalSettles, others, histVars
  <2>3. CASE EngineReady(e) \/ EngineWedges(e)
    BY <2>3, TypedParts, EngineRunsDoes DEF others, histVars
  <2>4. CASE EngineDrops(e) \/ EngineUnlinked(e) \/ EngineFails(e) \/ StuckAuth(e) \/ WipeLands(e)
    BY <2>4, TypedParts, EngineEndsDoes DEF others, histVars
  <2>5. CASE ProbeFails(e) \/ ProbePasses
    BY <2>5, TypedParts, ProbesDoes DEF others, histVars
  <2>6. CASE DropHandled(e)
    BY <2>6, TypedParts, DropHandledDoes
  <2>7. CASE DropUnread(e)
    BY <2>7, TypedParts, DropUnreadDoes DEF others, histVars
  <2>. QED BY <2>1, <2>2, <2>3, <2>4, <2>5, <2>6, <2>7, <1>7 DEF EngineSteps
<1>. QED BY <1>1, <1>2, <1>3, <1>4, <1>5, <1>6, <1>7, NextCases


\* So does a destroy that has timed out.
LEMMA LeakedEnds ==
    ASSUME Typed, NEW f \in Engine, mem.eng[f] = "leaked", [Next]_vars
    PROVE  mem'.eng[f] \in {"leaked", "gone"}
<1>1. CASE UNCHANGED vars
  BY <1>1, TypedParts DEF vars, histVars, Latch, Alive
<1>2. CASE StartSteps
  <2>1. CASE StartCalled
    BY <2>1, TypedParts, StartCalledDoes DEF elsewhere, Begun, Latch, Alive
  <2>2. CASE HookDone
    BY <2>2, TypedParts, HookDoneDoes DEF elsewhere, Registered, histVars, Latch, Alive
  <2>3. CASE ReapEnds
    BY <2>3, TypedParts, ReapEndsDoes DEF elsewhere, histVars, Latch, Alive
  <2>. QED BY <2>1, <2>2, <2>3, <1>2 DEF StartSteps
<1>3. ASSUME NEW l \in Launcher, LaunchSteps(l)
      PROVE  mem'.eng[f] \in {"leaked", "gone"}
  <2>1. CASE FenceOpens(l)
    <3>1. CASE l = Start
      BY <2>1, <3>1, TypedParts, FenceOpensDoes DEF Latch
    <3>2. CASE l # Start
      BY <2>1, <3>2, TypedParts, FenceOpensDoes DEF Registered, Latch
    <3>. QED BY <3>1, <3>2
  <2>2. CASE FenceRefuses(l)
    BY <2>2, TypedParts, FenceRefusesDoes DEF elsewhere, Latch, Alive
  <2>3. CASE WriteSettles(l)
    BY <2>3, TypedParts, WriteSettlesDoes DEF elsewhere, histVars, Latch, Alive
  <2>4. CASE WriteFails(l)
    BY <2>4, TypedParts, WriteFailsDoes DEF elsewhere, Latch, Alive
  <2>5. CASE InitResolves(l)
    BY <2>5, TypedParts, InitResolvesDoes DEF elsewhere, histVars, Latch, Alive
  <2>6. CASE InitRejects(l)
    BY <2>6, TypedParts, InitRejectsDoes DEF elsewhere, Latch, Alive
  <2>7. CASE InitTimesOut(l)
    BY <2>7, TypedParts, InitTimesOutDoes DEF elsewhere, histVars, Latch, Alive
  <2>8. CASE LateKillEnds(l)
    BY <2>8, TypedParts, LateKillEndsDoes DEF elsewhere, Latch, Alive
  <2>9. CASE RowRead(l)
    BY <2>9, TypedParts, RowReadDoes DEF elsewhere, Latch, Alive
  <2>10. CASE RetireEnds(l) \/ RetireTimesOut(l)
    BY <2>10, TypedParts, RetireEndsDoes DEF elsewhere, histVars, Latch, Alive
  <2>11. CASE Repurged(l)
    BY <2>11, RepurgedDoes
  <2>12. CASE OldEngineGone(l)
    BY <2>12, TypedParts, OldEngineGoneDoes DEF elsewhere, histVars, Latch, Alive
  <2>13. CASE DestroyTimesOut(l)
    BY <2>13, TypedParts, DestroyTimesOutDoes DEF elsewhere, histVars, Latch, Alive
  <2>. QED BY <2>1, <2>2, <2>3, <2>4, <2>5, <2>6, <2>7, <2>8, <2>9, <2>10, <2>11, <2>12, <2>13, <1>3 DEF LaunchSteps
<1>4. ASSUME NEW l \in Attempt, TimerFires(l)
      PROVE  mem'.eng[f] \in {"leaked", "gone"}
  BY <1>4, TypedParts, TimerFiresDoes DEF elsewhere, Begun, Registered, Latch, Alive
<1>5. ASSUME NEW q \in Request, NEW kind \in Kinds, CallMade(q, kind)
      PROVE  mem'.eng[f] \in {"leaked", "gone"}
  <2>1. CASE kind \in {"stop", "delete"} /\ Called(q, kind)
    BY <1>5, <2>1, TypedParts, CalledDoes DEF CallMade, Latch, Alive
  <2>2. CASE kind \in {"logout", "kill"} /\ EngineCalled(q, kind)
    BY <1>5, <2>2, TypedParts, EngineCalledDoes DEF CallMade, Latch, Alive
  <2>. QED BY <2>1, <2>2, <1>5 DEF CallMade
<1>6. ASSUME NEW q \in Request, RequestSteps(q)
      PROVE  mem'.eng[f] \in {"leaked", "gone"}
  <2>1. CASE StopCaptures(q)
    BY <2>1, TypedParts, StopCapturesDoes DEF histVars, Latch, Alive
  <2>2. CASE WaitEnds(q)
    BY <2>2, TypedParts, WaitEndsDoes DEF histVars, Latch, Alive
  <2>3. CASE StopCloses(q) \/ LogoutReturns(q) \/ KillEnds(q)
    BY <2>3, TypedParts, ClosesDoes DEF histVars, Latch, Alive
  <2>4. CASE LogoutOverruns(q)
    BY <2>4, TypedParts, LogoutOverrunsDoes DEF histVars, Latch, Alive
  <2>5. CASE StopEscalates(q)
    BY <2>5, TypedParts, StopEscalatesDoes DEF histVars, Latch, Alive
  <2>6. CASE DeleteEnters(q)
    BY <2>6, TypedParts, DeleteEntersDoes DEF DeleteStarts, histVars, Latch, Alive
  <2>7. CASE DeleteFenceOpens(q)
    BY <2>7, TypedParts, DeleteFenceOpensDoes DEF DeleteStarts, histVars, Latch, Alive
  <2>8. CASE DeleteRefused(q)
    BY <2>8, TypedParts, DeleteRefusedDoes DEF Latch, Alive
  <2>9. CASE RowDeleted(q)
    BY <2>9, TypedParts, RowDeletedDoes DEF histVars, Latch, Alive
  <2>10. CASE NotFound(q) \/ DeleteFails(q) \/ Purged(q)
    BY <2>10, TypedParts, UnmarksDoes DEF histVars, Latch, Alive
  <2>. QED BY <2>1, <2>2, <2>3, <2>4, <2>5, <2>6, <2>7, <2>8, <2>9, <2>10, <1>6 DEF RequestSteps
<1>7. ASSUME NEW e \in Engine, EngineSteps(e)
      PROVE  mem'.eng[f] \in {"leaked", "gone"}
  <2>1. CASE KillLands(e) \/ LeakEnds(e)
    BY <2>1, TypedParts, KillLandsDoes DEF others, histVars, Latch, Alive
  <2>2. CASE RemovalSettles(e)
    BY <2>2, TypedParts DEF RemovalSettles, others, histVars, Latch, Alive
  <2>3. CASE EngineReady(e) \/ EngineWedges(e)
    BY <2>3, TypedParts, EngineRunsDoes DEF others, histVars, Latch, Alive
  <2>4. CASE EngineDrops(e) \/ EngineUnlinked(e) \/ EngineFails(e) \/ StuckAuth(e) \/ WipeLands(e)
    BY <2>4, TypedParts, EngineEndsDoes DEF others, histVars, Latch, Alive
  <2>5. CASE ProbeFails(e) \/ ProbePasses
    BY <2>5, TypedParts, ProbesDoes DEF others, histVars, Latch, Alive
  <2>6. CASE DropHandled(e)
    BY <2>6, TypedParts, DropHandledDoes DEF Latch, Alive
  <2>7. CASE DropUnread(e)
    BY <2>7, TypedParts, DropUnreadDoes DEF others, histVars, Latch, Alive
  <2>. QED BY <2>1, <2>2, <2>3, <2>4, <2>5, <2>6, <2>7, <1>7 DEF EngineSteps
<1>. QED BY <1>1, <1>2, <1>3, <1>4, <1>5, <1>6, <1>7, NextCases


\* A running engine that leaves the registry has been taken over.
LEMMA RegistryHandsOver ==
    ASSUME Typed, \A l \in Launcher : Placed(l), NEW f \in Engine, mem.registry = f, mem'.eng[f] \in Running, [Next]_vars
    PROVE  Accounted(f)'
<1>0. /\ \A l \in Launcher : LaunchFits(l) /\ Placed(l)
      /\ f # NoEngine
  BY TypedShapes, TypedParts DEF LaunchShape
<1>1. CASE UNCHANGED vars
  BY <1>1, <1>0, TypedParts DEF vars, histVars, Accounted, HeldBy, Running, Alive, Latch, Placed
<1>2. CASE StartSteps
  <2>1. CASE StartCalled
    BY <2>1, <1>0, TypedParts, StartCalledDoes DEF elsewhere, Begun, Accounted, HeldBy, Running, Alive, Latch, Placed
  <2>2. CASE HookDone
    BY <2>2, <1>0, TypedParts, HookDoneDoes DEF elsewhere, Registered, histVars, Accounted, HeldBy, Running, Alive, Latch, Placed
  <2>3. CASE ReapEnds
    BY <2>3, <1>0, TypedParts, ReapEndsDoes DEF elsewhere, histVars, Accounted, HeldBy, Running, Alive, Latch, Placed
  <2>. QED BY <2>1, <2>2, <2>3, <1>2 DEF StartSteps
<1>3. ASSUME NEW l \in Launcher, LaunchSteps(l)
      PROVE  Accounted(f)'
  <2>1. CASE FenceOpens(l)
    BY <2>1, <1>0, TypedParts, FenceOpensDoes DEF elsewhere, Registered, histVars, Accounted, HeldBy, Running, Alive, Latch, Placed
  <2>2. CASE FenceRefuses(l)
    BY <2>2, <1>0, TypedParts, FenceRefusesDoes DEF elsewhere, Accounted, HeldBy, Running, Alive, Latch, Placed
  <2>3. CASE WriteSettles(l)
    BY <2>3, <1>0, TypedParts, WriteSettlesDoes DEF elsewhere, histVars, Accounted, HeldBy, Running, Alive, Latch, Placed
  <2>4. CASE WriteFails(l)
    BY <2>4, <1>0, TypedParts, WriteFailsDoes DEF elsewhere, Accounted, HeldBy, Running, Alive, Latch, Placed
  <2>5. CASE InitResolves(l)
    BY <2>5, <1>0, TypedParts, InitResolvesDoes DEF elsewhere, histVars, Accounted, HeldBy, Running, Alive, Latch, Placed
  <2>6. CASE InitRejects(l)
    BY <2>6, <1>0, TypedParts, InitRejectsDoes DEF elsewhere, Accounted, HeldBy, Running, Alive, Latch, Placed
  <2>7. CASE InitTimesOut(l)
    BY <2>7, <1>0, TypedParts, InitTimesOutDoes DEF elsewhere, histVars, Accounted, HeldBy, Running, Alive, Latch, Placed
  <2>8. CASE LateKillEnds(l)
    BY <2>8, <1>0, TypedParts, LateKillEndsDoes DEF elsewhere, Accounted, HeldBy, Running, Alive, Latch, Placed
  <2>9. CASE RowRead(l)
    BY <2>9, <1>0, TypedParts, RowReadDoes DEF elsewhere, Accounted, HeldBy, Running, Alive, Latch, Placed
  <2>10. CASE RetireEnds(l) \/ RetireTimesOut(l)
    BY <2>10, <1>0, TypedParts, RetireEndsDoes DEF elsewhere, histVars, Accounted, HeldBy, Running, Alive, Latch, Placed
  <2>11. CASE Repurged(l)
    BY <2>11, <1>0, TypedParts, RepurgedDoes DEF elsewhere, histVars, Accounted, HeldBy, Running, Alive, Latch, Placed
  <2>12. CASE OldEngineGone(l)
    BY <2>12, <1>0, TypedParts, OldEngineGoneDoes DEF elsewhere, histVars, Accounted, HeldBy, Running, Alive, Latch, Placed
  <2>13. CASE DestroyTimesOut(l)
    BY <2>13, <1>0, TypedParts, DestroyTimesOutDoes DEF elsewhere, histVars, Accounted, HeldBy, Running, Alive, Latch, Placed
  <2>. QED BY <2>1, <2>2, <2>3, <2>4, <2>5, <2>6, <2>7, <2>8, <2>9, <2>10, <2>11, <2>12, <2>13, <1>3 DEF LaunchSteps
<1>4. ASSUME NEW l \in Attempt, TimerFires(l)
      PROVE  Accounted(f)'
  BY <1>4, <1>0, TypedParts, TimerFiresDoes DEF elsewhere, Begun, Registered, Accounted, HeldBy, Running, Alive, Latch, Placed
<1>5. ASSUME NEW q \in Request, NEW kind \in Kinds, CallMade(q, kind)
      PROVE  Accounted(f)'
  <2>1. CASE kind \in {"stop", "delete"} /\ Called(q, kind)
    BY <1>5, <2>1, <1>0, TypedParts, CalledDoes DEF CallMade, Accounted, HeldBy, Running, Alive, Latch, Placed
  <2>2. CASE kind \in {"logout", "kill"} /\ EngineCalled(q, kind)
    BY <1>5, <2>2, <1>0, TypedParts, EngineCalledDoes DEF CallMade, Accounted, HeldBy, Running, Alive, Latch, Placed
  <2>. QED BY <2>1, <2>2, <1>5 DEF CallMade
<1>6. ASSUME NEW q \in Request, RequestSteps(q)
      PROVE  Accounted(f)'
  <2>1. CASE StopCaptures(q)
    BY <2>1, <1>0, TypedParts, StopCapturesDoes DEF histVars, Accounted, HeldBy, Running, Alive, Latch, Placed
  <2>2. CASE WaitEnds(q)
    BY <2>2, <1>0, TypedParts, WaitEndsDoes DEF histVars, Accounted, HeldBy, Running, Alive, Latch, Placed
  <2>3. CASE StopCloses(q) \/ LogoutReturns(q) \/ KillEnds(q)
    BY <2>3, <1>0, TypedParts, ClosesDoes DEF histVars, Accounted, HeldBy, Running, Alive, Latch, Placed
  <2>4. CASE LogoutOverruns(q)
    BY <2>4, <1>0, TypedParts, LogoutOverrunsDoes DEF histVars, Accounted, HeldBy, Running, Alive, Latch, Placed
  <2>5. CASE StopEscalates(q)
    BY <2>5, <1>0, TypedParts, StopEscalatesDoes DEF histVars, Accounted, HeldBy, Running, Alive, Latch, Placed
  <2>6. CASE DeleteEnters(q)
    BY <2>6, <1>0, TypedParts, DeleteEntersDoes DEF DeleteStarts, histVars, Accounted, HeldBy, Running, Alive, Latch, Placed
  <2>7. CASE DeleteFenceOpens(q)
    BY <2>7, <1>0, TypedParts, DeleteFenceOpensDoes DEF DeleteStarts, histVars, Accounted, HeldBy, Running, Alive, Latch, Placed
  <2>8. CASE DeleteRefused(q)
    BY <2>8, <1>0, TypedParts, DeleteRefusedDoes DEF Accounted, HeldBy, Running, Alive, Latch, Placed
  <2>9. CASE RowDeleted(q)
    BY <2>9, <1>0, TypedParts, RowDeletedDoes DEF histVars, Accounted, HeldBy, Running, Alive, Latch, Placed
  <2>10. CASE NotFound(q) \/ DeleteFails(q) \/ Purged(q)
    BY <2>10, <1>0, TypedParts, UnmarksDoes DEF histVars, Accounted, HeldBy, Running, Alive, Latch, Placed
  <2>. QED BY <2>1, <2>2, <2>3, <2>4, <2>5, <2>6, <2>7, <2>8, <2>9, <2>10, <1>6 DEF RequestSteps
<1>7. ASSUME NEW e \in Engine, EngineSteps(e)
      PROVE  Accounted(f)'
  <2>1. CASE KillLands(e) \/ LeakEnds(e)
    BY <2>1, <1>0, TypedParts, KillLandsDoes DEF others, histVars, Accounted, HeldBy, Running, Alive, Latch, Placed
  <2>2. CASE RemovalSettles(e)
    BY <2>2, <1>0, TypedParts DEF RemovalSettles, others, histVars, Accounted, HeldBy, Running, Alive, Latch, Placed
  <2>3. CASE EngineReady(e) \/ EngineWedges(e)
    BY <2>3, <1>0, TypedParts, EngineRunsDoes DEF others, histVars, Accounted, HeldBy, Running, Alive, Latch, Placed
  <2>4. CASE EngineDrops(e) \/ EngineUnlinked(e) \/ EngineFails(e) \/ StuckAuth(e) \/ WipeLands(e)
    BY <2>4, <1>0, TypedParts, EngineEndsDoes DEF others, histVars, Accounted, HeldBy, Running, Alive, Latch, Placed
  <2>5. CASE ProbeFails(e) \/ ProbePasses
    BY <2>5, <1>0, TypedParts, ProbesDoes DEF others, histVars, Accounted, HeldBy, Running, Alive, Latch, Placed
  <2>6. CASE DropHandled(e)
    BY <2>6, <1>0, TypedParts, DropHandledDoes DEF Accounted, HeldBy, Running, Alive, Latch, Placed
  <2>7. CASE DropUnread(e)
    BY <2>7, <1>0, TypedParts, DropUnreadDoes DEF others, histVars, Accounted, HeldBy, Running, Alive, Latch, Placed
  <2>. QED BY <2>1, <2>2, <2>3, <2>4, <2>5, <2>6, <2>7, <1>7 DEF EngineSteps
<1>. QED BY <1>1, <1>2, <1>3, <1>4, <1>5, <1>6, <1>7, NextCases


\* An engine begins to run in the registry, or in the hands of whoever
\* tears it down.
LEMMA NewlyRunning ==
    ASSUME Typed, \A l \in Launcher : Placed(l), NEW f \in Engine, mem.eng[f] \notin Running, mem'.eng[f] \in Running, [Next]_vars
    PROVE  Accounted(f)'
<1>0. /\ \A l \in Launcher : LaunchFits(l) /\ Placed(l)
      /\ f # NoEngine
  BY TypedShapes, TypedParts DEF LaunchShape
<1>1. CASE UNCHANGED vars
  BY <1>1, <1>0, TypedParts DEF vars, histVars, Accounted, HeldBy, Running, Alive, Latch, Placed
<1>2. CASE StartSteps
  <2>1. CASE StartCalled
    BY <2>1, <1>0, TypedParts, StartCalledDoes DEF elsewhere, Begun, Accounted, HeldBy, Running, Alive, Latch, Placed
  <2>2. CASE HookDone
    BY <2>2, <1>0, TypedParts, HookDoneDoes DEF elsewhere, Registered, histVars, Accounted, HeldBy, Running, Alive, Latch, Placed
  <2>3. CASE ReapEnds
    BY <2>3, <1>0, TypedParts, ReapEndsDoes DEF elsewhere, histVars, Accounted, HeldBy, Running, Alive, Latch, Placed
  <2>. QED BY <2>1, <2>2, <2>3, <1>2 DEF StartSteps
<1>3. ASSUME NEW l \in Launcher, LaunchSteps(l)
      PROVE  Accounted(f)'
  <2>1. CASE FenceOpens(l)
    BY <2>1, <1>0, TypedParts, FenceOpensDoes DEF elsewhere, Registered, histVars, Accounted, HeldBy, Running, Alive, Latch, Placed
  <2>2. CASE FenceRefuses(l)
    BY <2>2, <1>0, TypedParts, FenceRefusesDoes DEF elsewhere, Accounted, HeldBy, Running, Alive, Latch, Placed
  <2>3. CASE WriteSettles(l)
    BY <2>3, <1>0, TypedParts, WriteSettlesDoes DEF elsewhere, histVars, Accounted, HeldBy, Running, Alive, Latch, Placed
  <2>4. CASE WriteFails(l)
    BY <2>4, <1>0, TypedParts, WriteFailsDoes DEF elsewhere, Accounted, HeldBy, Running, Alive, Latch, Placed
  <2>5. CASE InitResolves(l)
    BY <2>5, <1>0, TypedParts, InitResolvesDoes DEF elsewhere, histVars, Accounted, HeldBy, Running, Alive, Latch, Placed
  <2>6. CASE InitRejects(l)
    BY <2>6, <1>0, TypedParts, InitRejectsDoes DEF elsewhere, Accounted, HeldBy, Running, Alive, Latch, Placed
  <2>7. CASE InitTimesOut(l)
    BY <2>7, <1>0, TypedParts, InitTimesOutDoes DEF elsewhere, histVars, Accounted, HeldBy, Running, Alive, Latch, Placed
  <2>8. CASE LateKillEnds(l)
    BY <2>8, <1>0, TypedParts, LateKillEndsDoes DEF elsewhere, Accounted, HeldBy, Running, Alive, Latch, Placed
  <2>9. CASE RowRead(l)
    BY <2>9, <1>0, TypedParts, RowReadDoes DEF elsewhere, Accounted, HeldBy, Running, Alive, Latch, Placed
  <2>10. CASE RetireEnds(l) \/ RetireTimesOut(l)
    BY <2>10, <1>0, TypedParts, RetireEndsDoes DEF elsewhere, histVars, Accounted, HeldBy, Running, Alive, Latch, Placed
  <2>11. CASE Repurged(l)
    BY <2>11, <1>0, TypedParts, RepurgedDoes DEF elsewhere, histVars, Accounted, HeldBy, Running, Alive, Latch, Placed
  <2>12. CASE OldEngineGone(l)
    BY <2>12, <1>0, TypedParts, OldEngineGoneDoes DEF elsewhere, histVars, Accounted, HeldBy, Running, Alive, Latch, Placed
  <2>13. CASE DestroyTimesOut(l)
    BY <2>13, <1>0, TypedParts, DestroyTimesOutDoes DEF elsewhere, histVars, Accounted, HeldBy, Running, Alive, Latch, Placed
  <2>. QED BY <2>1, <2>2, <2>3, <2>4, <2>5, <2>6, <2>7, <2>8, <2>9, <2>10, <2>11, <2>12, <2>13, <1>3 DEF LaunchSteps
<1>4. ASSUME NEW l \in Attempt, TimerFires(l)
      PROVE  Accounted(f)'
  BY <1>4, <1>0, TypedParts, TimerFiresDoes DEF elsewhere, Begun, Registered, Accounted, HeldBy, Running, Alive, Latch, Placed
<1>5. ASSUME NEW q \in Request, NEW kind \in Kinds, CallMade(q, kind)
      PROVE  Accounted(f)'
  <2>1. CASE kind \in {"stop", "delete"} /\ Called(q, kind)
    BY <1>5, <2>1, <1>0, TypedParts, CalledDoes DEF CallMade, Accounted, HeldBy, Running, Alive, Latch, Placed
  <2>2. CASE kind \in {"logout", "kill"} /\ EngineCalled(q, kind)
    BY <1>5, <2>2, <1>0, TypedParts, EngineCalledDoes DEF CallMade, Accounted, HeldBy, Running, Alive, Latch, Placed
  <2>. QED BY <2>1, <2>2, <1>5 DEF CallMade
<1>6. ASSUME NEW q \in Request, RequestSteps(q)
      PROVE  Accounted(f)'
  <2>1. CASE StopCaptures(q)
    BY <2>1, <1>0, TypedParts, StopCapturesDoes DEF histVars, Accounted, HeldBy, Running, Alive, Latch, Placed
  <2>2. CASE WaitEnds(q)
    BY <2>2, <1>0, TypedParts, WaitEndsDoes DEF histVars, Accounted, HeldBy, Running, Alive, Latch, Placed
  <2>3. CASE StopCloses(q) \/ LogoutReturns(q) \/ KillEnds(q)
    BY <2>3, <1>0, TypedParts, ClosesDoes DEF histVars, Accounted, HeldBy, Running, Alive, Latch, Placed
  <2>4. CASE LogoutOverruns(q)
    BY <2>4, <1>0, TypedParts, LogoutOverrunsDoes DEF histVars, Accounted, HeldBy, Running, Alive, Latch, Placed
  <2>5. CASE StopEscalates(q)
    BY <2>5, <1>0, TypedParts, StopEscalatesDoes DEF histVars, Accounted, HeldBy, Running, Alive, Latch, Placed
  <2>6. CASE DeleteEnters(q)
    BY <2>6, <1>0, TypedParts, DeleteEntersDoes DEF DeleteStarts, histVars, Accounted, HeldBy, Running, Alive, Latch, Placed
  <2>7. CASE DeleteFenceOpens(q)
    BY <2>7, <1>0, TypedParts, DeleteFenceOpensDoes DEF DeleteStarts, histVars, Accounted, HeldBy, Running, Alive, Latch, Placed
  <2>8. CASE DeleteRefused(q)
    BY <2>8, <1>0, TypedParts, DeleteRefusedDoes DEF Accounted, HeldBy, Running, Alive, Latch, Placed
  <2>9. CASE RowDeleted(q)
    BY <2>9, <1>0, TypedParts, RowDeletedDoes DEF histVars, Accounted, HeldBy, Running, Alive, Latch, Placed
  <2>10. CASE NotFound(q) \/ DeleteFails(q) \/ Purged(q)
    BY <2>10, <1>0, TypedParts, UnmarksDoes DEF histVars, Accounted, HeldBy, Running, Alive, Latch, Placed
  <2>. QED BY <2>1, <2>2, <2>3, <2>4, <2>5, <2>6, <2>7, <2>8, <2>9, <2>10, <1>6 DEF RequestSteps
<1>7. ASSUME NEW e \in Engine, EngineSteps(e)
      PROVE  Accounted(f)'
  <2>1. CASE KillLands(e) \/ LeakEnds(e)
    BY <2>1, <1>0, TypedParts, KillLandsDoes DEF others, histVars, Accounted, HeldBy, Running, Alive, Latch, Placed
  <2>2. CASE RemovalSettles(e)
    BY <2>2, <1>0, TypedParts DEF RemovalSettles, others, histVars, Accounted, HeldBy, Running, Alive, Latch, Placed
  <2>3. CASE EngineReady(e) \/ EngineWedges(e)
    BY <2>3, <1>0, TypedParts, EngineRunsDoes DEF others, histVars, Accounted, HeldBy, Running, Alive, Latch, Placed
  <2>4. CASE EngineDrops(e) \/ EngineUnlinked(e) \/ EngineFails(e) \/ StuckAuth(e) \/ WipeLands(e)
    BY <2>4, <1>0, TypedParts, EngineEndsDoes DEF others, histVars, Accounted, HeldBy, Running, Alive, Latch, Placed
  <2>5. CASE ProbeFails(e) \/ ProbePasses
    BY <2>5, <1>0, TypedParts, ProbesDoes DEF others, histVars, Accounted, HeldBy, Running, Alive, Latch, Placed
  <2>6. CASE DropHandled(e)
    <3>1. mem'.eng[f] = mem.eng[f] \/ f \in mem'.dying
      BY <2>6, DropHandledDoes
    <3>. QED BY <3>1 DEF Accounted
  <2>7. CASE DropUnread(e)
    BY <2>7, <1>0, TypedParts, DropUnreadDoes DEF others, histVars, Accounted, HeldBy, Running, Alive, Latch, Placed
  <2>. QED BY <2>1, <2>2, <2>3, <2>4, <2>5, <2>6, <2>7, <1>7 DEF EngineSteps
<1>. QED BY <1>1, <1>2, <1>3, <1>4, <1>5, <1>6, <1>7, NextCases


\* So no running engine is orphaned by a step.
LEMMA NoOrphanStep ==
    ASSUME Typed, LateIsGone, \A l \in Launcher : Placed(l), [Next]_vars,
           \A f \in Engine : mem.eng[f] \in Running => Accounted(f),
           NEW f \in Engine, mem'.eng[f] \in Running
    PROVE  Accounted(f)'
<1>1. "gone" \notin Running
  BY DEF Running, Alive
<1>2. CASE mem.eng[f] \notin Running
  BY <1>2, NewlyRunning
<1>3. CASE mem.registry = f
  BY <1>3, RegistryHandsOver
<1>4. CASE f \in mem.dying
  BY <1>1, <1>4, DyingEnds DEF Accounted
<1>5. CASE mem.eng[f] = "leaked"
  BY <1>1, <1>5, LeakedEnds DEF Accounted
<1>6. ASSUME NEW l \in Launcher, HeldBy(l, f)
      PROVE  Accounted(f)'
  BY <1>6, LaunchHolds DEF Accounted, HeldBy
<1>7. ASSUME NEW q \in Request, request[q].eng = f
      PROVE  Accounted(f)'
  BY <1>7, RequestHolds DEF Accounted
<1>. QED BY <1>2, <1>3, <1>4, <1>5, <1>6, <1>7 DEF Accounted, HeldBy

\* The invariant behind NoOrphan.
Reached ==
    /\ Typed /\ LateIsGone
    /\ ~overlapped => OneLaunch /\ (\A l \in Launcher : Placed(l)) /\ NoOrphan

\* It holds at the start, when nothing is under way and no engine was made.
LEMMA ReachedInit == Init => Reached
<1> SUFFICES ASSUME Init PROVE Reached
  OBVIOUS
<1>1. Typed
  BY TypedInit
<1>2. /\ \A l \in Launcher : launch[l].at = "idle"
      /\ \A q \in Request : request[q].at = "idle"
  BY DEF Init, IdleLaunch, IdleRequest
<1>3. \A f \in Engine : mem.eng[f] = "none"
  BY DEF Init
<1>. QED BY <1>1, <1>2, <1>3 DEF Reached, LateIsGone, Late, OneLaunch, InFlight, Placed, NoOrphan, Running, Alive

\* And every step keeps it.
LEMMA ReachedStep ==
    ASSUME Reached, [Next]_vars
    PROVE  Reached'
<1>1. Typed' /\ LateIsGone'
  BY TypedStep, LateIsGoneStep DEF Reached
<1>2. ASSUME ~overlapped'
      PROVE  OneLaunch' /\ (\A l \in Launcher : Placed(l)') /\ NoOrphan'
  <2>1. /\ Typed /\ LateIsGone /\ OneLaunch /\ \A l \in Launcher : Placed(l)
        /\ \A f \in Engine : mem.eng[f] \in Running => Accounted(f)
    <3>1. ~overlapped
      BY <1>2, OverlapStays DEF Reached
    <3>. QED BY <3>1 DEF Reached, NoOrphan
  <2>2. OneLaunch' /\ \A l \in Launcher : Placed(l)'
    BY <1>2, <2>1, OneLaunchStep, PlacedStep
  <2>3. \A f \in Engine : mem'.eng[f] \in Running => Accounted(f)'
    BY <2>1, NoOrphanStep
  <2>. QED BY <2>2, <2>3 DEF NoOrphan
<1>. QED BY <1>1, <1>2 DEF Reached

\* No engine runs that nobody can reach, unless two launches overlapped.
THEOREM LifecycleNoOrphan == Spec => []NoOrphan
<1>1. Reached /\ [Next]_vars => Reached'
  BY ReachedStep
<1>2. Spec => []Reached
  BY <1>1, ReachedInit, PTL DEF Spec
<1>3. Reached => NoOrphan
  BY DEF Reached, NoOrphan
<1>. QED BY <1>2, <1>3, PTL
-----------------------------------------------------------------------------
(* A stopped session stays down.                                           *)

\* No reconnect is to come: no timer, and reconnect state only where no
\* attempt is under way and no engine could report a disconnect.
Unarmed ==
    /\ ~mem.recon.armed
    /\ mem.recon.kept => \A l \in Attempt : ~InFlight(l)
    /\ mem.recon.kept /\ mem.registry # NoEngine
         => mem.eng[mem.registry] \notin Alive /\ mem.registry \notin losing

\* The registered engine, if any, will be taken down: by the call that has
\* captured it, or by its launch, which will find the mark.
Leaving ==
    mem.registry # NoEngine =>
        \/ \E q \in Request : Captured(q) /\ request[q].eng = mem.registry
        \/ \E l \in Launcher : launch[l].at \in {"writing", "initializing", "retiring"}

Asking == \E q \in Request : Early(q)

Down == mem.mark /\ ~overlapped /\ ~refused => Asking \/ (Unarmed /\ Leaving)

\* Only a call sets the mark.
LEMMA MarkFalls ==
    ASSUME Typed, mem'.mark,
           \/ StartSteps
           \/ \E l \in Launcher : LaunchSteps(l)
           \/ \E l \in Attempt : TimerFires(l)
           \/ \E e \in Engine : EngineSteps(e)
    PROVE  mem.mark
<1>2. CASE StartSteps
  <2>1. CASE StartCalled
    BY <2>1, TypedParts, StartCalledDoes DEF elsewhere, Begun
  <2>2. CASE HookDone
    BY <2>2, TypedParts, HookDoneDoes DEF elsewhere, Registered, histVars
  <2>3. CASE ReapEnds
    BY <2>3, TypedParts, ReapEndsDoes DEF elsewhere, histVars
  <2>. QED BY <2>1, <2>2, <2>3, <1>2 DEF StartSteps
<1>3. ASSUME NEW l \in Launcher, LaunchSteps(l)
      PROVE  mem.mark
  <2>1. CASE FenceOpens(l)
    BY <2>1, TypedParts, FenceOpensDoes DEF elsewhere, Registered, histVars
  <2>2. CASE FenceRefuses(l)
    BY <2>2, TypedParts, FenceRefusesDoes DEF elsewhere
  <2>3. CASE WriteSettles(l)
    BY <2>3, TypedParts, WriteSettlesDoes DEF elsewhere, histVars
  <2>4. CASE WriteFails(l)
    BY <2>4, TypedParts, WriteFailsDoes DEF elsewhere
  <2>5. CASE InitResolves(l)
    BY <2>5, TypedParts, InitResolvesDoes DEF elsewhere, histVars
  <2>6. CASE InitRejects(l)
    BY <2>6, TypedParts, InitRejectsDoes DEF elsewhere
  <2>7. CASE InitTimesOut(l)
    BY <2>7, TypedParts, InitTimesOutDoes DEF elsewhere, histVars
  <2>8. CASE LateKillEnds(l)
    BY <2>8, TypedParts, LateKillEndsDoes DEF elsewhere
  <2>9. CASE RowRead(l)
    BY <2>9, TypedParts, RowReadDoes DEF elsewhere
  <2>10. CASE RetireEnds(l) \/ RetireTimesOut(l)
    BY <2>10, TypedParts, RetireEndsDoes DEF elsewhere, histVars
  <2>11. CASE Repurged(l)
    BY <2>11, RepurgedDoes
  <2>12. CASE OldEngineGone(l)
    BY <2>12, TypedParts, OldEngineGoneDoes DEF elsewhere, histVars
  <2>13. CASE DestroyTimesOut(l)
    BY <2>13, TypedParts, DestroyTimesOutDoes DEF elsewhere, histVars
  <2>. QED BY <2>1, <2>2, <2>3, <2>4, <2>5, <2>6, <2>7, <2>8, <2>9, <2>10, <2>11, <2>12, <2>13, <1>3 DEF LaunchSteps
<1>4. ASSUME NEW l \in Attempt, TimerFires(l)
      PROVE  mem.mark
  BY <1>4, TypedParts, TimerFiresDoes DEF elsewhere, Begun, Registered
<1>7. ASSUME NEW e \in Engine, EngineSteps(e)
      PROVE  mem.mark
  <2>1. CASE KillLands(e) \/ LeakEnds(e)
    BY <2>1, TypedParts, KillLandsDoes DEF others, histVars
  <2>2. CASE RemovalSettles(e)
    BY <2>2, TypedParts DEF RemovalSettles, others, histVars
  <2>3. CASE EngineReady(e) \/ EngineWedges(e)
    BY <2>3, TypedParts, EngineRunsDoes DEF others, histVars
  <2>4. CASE EngineDrops(e) \/ EngineUnlinked(e) \/ EngineFails(e) \/ StuckAuth(e) \/ WipeLands(e)
    BY <2>4, TypedParts, EngineEndsDoes DEF others, histVars
  <2>5. CASE ProbeFails(e) \/ ProbePasses
    BY <2>5, TypedParts, ProbesDoes DEF others, histVars
  <2>6. CASE DropHandled(e)
    BY <2>6, TypedParts, DropHandledDoes
  <2>7. CASE DropUnread(e)
    BY <2>7, TypedParts, DropUnreadDoes DEF others, histVars
  <2>. QED BY <2>1, <2>2, <2>3, <2>4, <2>5, <2>6, <2>7, <1>7 DEF EngineSteps
<1>. QED BY <1>2, <1>3, <1>4, <1>7

\* Neither a launch nor an engine brings a reconnect back.
LEMMA UnarmedStep ==
    ASSUME Typed, OneLaunch, \A l \in Launcher : Placed(l), mem.mark, mem'.mark, ~overlapped',
           Unarmed,
           \/ StartSteps
           \/ \E l \in Launcher : LaunchSteps(l)
           \/ \E l \in Attempt : TimerFires(l)
           \/ \E e \in Engine : EngineSteps(e)
    PROVE  Unarmed'
<1>0. /\ \A l \in Launcher : LaunchFits(l) /\ Placed(l)
      /\ \A q \in Request : RequestFits(q)
      /\ losing \subseteq Held
  BY TypedShapes, TypedParts DEF LaunchShape, RequestShape, Held
<1>2. CASE StartSteps
  <2>1. CASE StartCalled
    BY <2>1, <1>0, TypedParts, StartCalledDoes DEF elsewhere, Begun, Unarmed, OneLaunch, InFlight, Alive, Latch
  <2>2. CASE HookDone
    <3>1. /\ launch[Start].at = "hook" /\ mem'.recon = FreshRecon /\ losing' = losing
          /\ mem'.registry \notin Held /\ mem'.eng[mem'.registry] = "made"
          /\ \A k \in Launcher : k # Start => launch'[k] = launch[k]
      BY <2>2, HookDoneDoes DEF Registered, elsewhere
    <3>2. \A l \in Attempt : ~InFlight(l)'
      BY <3>1, TypedParts DEF OneLaunch, InFlight
    <3>. QED BY <1>0, <3>1, <3>2, ReconConstants DEF Unarmed, Alive
  <2>3. CASE ReapEnds
    BY <2>3, <1>0, TypedParts, ReconConstants, ReapEndsDoes DEF elsewhere, histVars, Unarmed, InFlight
  <2>. QED BY <2>1, <2>2, <2>3, <1>2 DEF StartSteps
<1>3. ASSUME NEW l \in Launcher, LaunchSteps(l)
      PROVE  Unarmed'
  <2>1. CASE FenceOpens(l)
    <3>1. CASE l = Start
      BY <2>1, <3>1, TypedParts, <1>0, FenceOpensDoes DEF elsewhere, histVars, Unarmed, OneLaunch, InFlight, Alive, Latch
    <3>2. CASE l # Start
      BY <2>1, <3>2, TypedParts, <1>0, FenceOpensDoes DEF elsewhere, histVars, Registered, Unarmed, OneLaunch, InFlight, Alive, Latch
    <3>. QED BY <3>1, <3>2
  <2>2. CASE FenceRefuses(l)
    BY <2>2, <1>0, TypedParts, FenceRefusesDoes DEF elsewhere, Unarmed, OneLaunch, InFlight, Alive, Latch
  <2>3. CASE WriteSettles(l)
    BY <2>3, <1>0, TypedParts, WriteSettlesDoes DEF elsewhere, histVars, Unarmed, OneLaunch, InFlight, Alive, Latch
  <2>4. CASE WriteFails(l)
    BY <2>4, <1>0, TypedParts, ReconConstants, WriteFailsDoes DEF elsewhere, Unarmed, InFlight
  <2>5. CASE InitResolves(l)
    BY <2>5, <1>0, TypedParts, InitResolvesDoes DEF elsewhere, histVars, Unarmed, OneLaunch, InFlight, Alive, Latch
  <2>6. CASE InitRejects(l)
    BY <2>6, <1>0, TypedParts, ReconConstants, InitRejectsDoes DEF elsewhere, Unarmed, InFlight
  <2>7. CASE InitTimesOut(l)
    BY <2>7, <1>0, TypedParts, InitTimesOutDoes DEF elsewhere, histVars, Unarmed, OneLaunch, InFlight, Alive, Latch
  <2>8. CASE LateKillEnds(l)
    BY <2>8, <1>0, TypedParts, ReconConstants, LateKillEndsDoes DEF elsewhere, Unarmed, InFlight
  <2>9. CASE RowRead(l)
    BY <2>9, <1>0, TypedParts, RowReadDoes DEF elsewhere, Unarmed, OneLaunch, InFlight, Alive, Latch
  <2>10. CASE RetireEnds(l) \/ RetireTimesOut(l)
    BY <2>10, <1>0, TypedParts, RetireEndsDoes DEF elsewhere, histVars, Unarmed, OneLaunch, InFlight, Alive, Latch
  <2>11. CASE Repurged(l)
    BY <2>11, <1>0, TypedParts, RepurgedDoes DEF elsewhere, histVars, Unarmed, OneLaunch, InFlight, Alive, Latch
  <2>12. CASE OldEngineGone(l)
    BY <2>12, <1>0, TypedParts, OldEngineGoneDoes DEF elsewhere, histVars, Unarmed, OneLaunch, InFlight, Alive, Latch
  <2>13. CASE DestroyTimesOut(l)
    BY <2>13, <1>0, TypedParts, DestroyTimesOutDoes DEF elsewhere, histVars, Unarmed, OneLaunch, InFlight, Alive, Latch
  <2>. QED BY <2>1, <2>2, <2>3, <2>4, <2>5, <2>6, <2>7, <2>8, <2>9, <2>10, <2>11, <2>12, <2>13, <1>3 DEF LaunchSteps
<1>4. ASSUME NEW l \in Attempt, TimerFires(l)
      PROVE  Unarmed'
  BY <1>4, <1>0, TypedParts, TimerFiresDoes DEF elsewhere, Begun, Registered, Unarmed, OneLaunch, InFlight, Alive, Latch
<1>7. ASSUME NEW e \in Engine, EngineSteps(e)
      PROVE  Unarmed'
  <2>1. CASE KillLands(e) \/ LeakEnds(e)
    BY <2>1, <1>0, TypedParts, KillLandsDoes DEF others, histVars, Unarmed, OneLaunch, InFlight, Alive, Latch
  <2>2. CASE RemovalSettles(e)
    BY <2>2, <1>0, TypedParts DEF RemovalSettles, others, histVars, Unarmed, OneLaunch, InFlight, Alive, Latch
  <2>3. CASE EngineReady(e) \/ EngineWedges(e)
    BY <2>3, <1>0, TypedParts, EngineRunsDoes DEF others, histVars, Unarmed, OneLaunch, InFlight, Alive, Latch
  <2>4. CASE EngineDrops(e) \/ EngineUnlinked(e) \/ EngineFails(e) \/ StuckAuth(e) \/ WipeLands(e)
    <3>1. CASE mem.eng[e] \in Alive /\ mem.registry = e
      <4>1. ~mem.recon.kept /\ mem.registry # NoEngine
        BY <3>1, TypedParts DEF Unarmed
      <4>. QED BY <2>4, <3>1, <4>1, EngineEndsDoes, ReconConstants DEF Unarmed, InFlight, others
    <3>2. CASE ~(mem.eng[e] \in Alive /\ mem.registry = e)
      <4>1. /\ mem'.registry = mem.registry /\ mem'.recon = mem.recon /\ launch' = launch
            /\ mem.registry \in losing' => mem.registry \in losing
            /\ mem.registry # NoEngine => mem'.eng[mem.registry] = mem.eng[mem.registry]
        <5>1. CASE mem.eng[e] \in Alive
          <6>1. mem.registry # e
            BY <3>2, <5>1
          <6>2. /\ mem'.registry = mem.registry /\ mem'.recon = mem.recon /\ launch' = launch
                /\ losing' \in {losing \cup {}, losing}
            BY <2>4, <6>1, EngineEndsDoes DEF others
          <6>3. Becomes(mem', mem, e, "lost") \/ mem'.eng = mem.eng
            BY <2>4, <6>1, EngineEndsDoes
          <6>. QED BY <6>1, <6>2, <6>3, TypedParts
        <5>2. CASE mem.eng[e] \notin Alive
          BY <2>4, <5>2, TypedParts, EngineEndsDoes DEF others
        <5>. QED BY <5>1, <5>2
      <4>. QED BY <4>1 DEF Unarmed, InFlight
    <3>. QED BY <3>1, <3>2
  <2>5. CASE ProbeFails(e) \/ ProbePasses
    BY <2>5, <1>0, TypedParts, ProbesDoes DEF others, histVars, Unarmed, OneLaunch, InFlight, Alive, Latch
  <2>6. CASE DropHandled(e)
    BY <2>6, <1>0, TypedParts, DropHandledDoes DEF Unarmed, OneLaunch, InFlight, Alive, Latch
  <2>7. CASE DropUnread(e)
    BY <2>7, <1>0, TypedParts, DropUnreadDoes DEF others, histVars, Unarmed, OneLaunch, InFlight, Alive, Latch
  <2>. QED BY <2>1, <2>2, <2>3, <2>4, <2>5, <2>6, <2>7, <1>7 DEF EngineSteps
<1>. QED BY <1>2, <1>3, <1>4, <1>7

\* Nor does the registered engine get out of their hands.
LEMMA LeavingStep ==
    ASSUME Typed, OneLaunch, \A l \in Launcher : Placed(l), mem.mark, mem'.mark, ~overlapped',
           Leaving,
           \/ StartSteps
           \/ \E l \in Launcher : LaunchSteps(l)
           \/ \E l \in Attempt : TimerFires(l)
           \/ \E e \in Engine : EngineSteps(e)
    PROVE  Leaving'
<1>0. /\ \A l \in Launcher : LaunchFits(l) /\ Placed(l)
      /\ \A q \in Request : RequestFits(q)
      /\ losing \subseteq Held
  BY TypedShapes, TypedParts DEF LaunchShape, RequestShape, Held
<1>2. CASE StartSteps
  <2>1. CASE StartCalled
    BY <2>1, <1>0, TypedParts, StartCalledDoes DEF elsewhere, Begun, Leaving, OneLaunch, InFlight, Placed, Captured
  <2>2. CASE HookDone
    BY <2>2, <1>0, TypedParts, HookDoneDoes DEF elsewhere, Registered, histVars, Leaving, OneLaunch, InFlight, Placed, Captured
  <2>3. CASE ReapEnds
    BY <2>3, <1>0, TypedParts, ReapEndsDoes DEF elsewhere, histVars, Leaving, OneLaunch, InFlight, Placed, Captured
  <2>. QED BY <2>1, <2>2, <2>3, <1>2 DEF StartSteps
<1>3. ASSUME NEW l \in Launcher, LaunchSteps(l)
      PROVE  Leaving'
  <2>1. CASE FenceOpens(l)
    <3>1. CASE l = Start
      BY <2>1, <3>1, TypedParts, <1>0, FenceOpensDoes DEF elsewhere, histVars, Leaving, OneLaunch, InFlight, Placed, Captured
    <3>2. CASE l # Start
      BY <2>1, <3>2, TypedParts, <1>0, FenceOpensDoes DEF elsewhere, histVars, Registered, Leaving, OneLaunch, InFlight, Placed, Captured
    <3>. QED BY <3>1, <3>2
  <2>2. CASE FenceRefuses(l)
    BY <2>2, <1>0, TypedParts, FenceRefusesDoes DEF elsewhere, Leaving, OneLaunch, InFlight, Placed, Captured
  <2>3. CASE WriteSettles(l)
    BY <2>3, <1>0, TypedParts, WriteSettlesDoes DEF elsewhere, histVars, Leaving, OneLaunch, InFlight, Placed, Captured
  <2>4. CASE WriteFails(l)
    BY <2>4, <1>0, TypedParts, WriteFailsDoes DEF elsewhere, Leaving, OneLaunch, InFlight, Placed, Captured
  <2>5. CASE InitResolves(l)
    BY <2>5, <1>0, TypedParts, InitResolvesDoes DEF elsewhere, histVars, Leaving, OneLaunch, InFlight, Placed, Captured
  <2>6. CASE InitRejects(l)
    BY <2>6, <1>0, TypedParts, InitRejectsDoes DEF elsewhere, Leaving, OneLaunch, InFlight, Placed, Captured
  <2>7. CASE InitTimesOut(l)
    BY <2>7, <1>0, TypedParts, InitTimesOutDoes DEF elsewhere, histVars, Leaving, OneLaunch, InFlight, Placed, Captured
  <2>8. CASE LateKillEnds(l)
    BY <2>8, <1>0, TypedParts, LateKillEndsDoes DEF elsewhere, Leaving, OneLaunch, InFlight, Placed, Captured
  <2>9. CASE RowRead(l)
    BY <2>9, <1>0, TypedParts, RowReadDoes DEF elsewhere, Leaving, OneLaunch, InFlight, Placed, Captured
  <2>10. CASE RetireEnds(l) \/ RetireTimesOut(l)
    BY <2>10, <1>0, TypedParts, RetireEndsDoes DEF elsewhere, histVars, Leaving, OneLaunch, InFlight, Placed, Captured
  <2>11. CASE Repurged(l)
    BY <2>11, <1>0, TypedParts, RepurgedDoes DEF elsewhere, histVars, Leaving, OneLaunch, InFlight, Placed, Captured
  <2>12. CASE OldEngineGone(l)
    BY <2>12, <1>0, TypedParts, OldEngineGoneDoes DEF elsewhere, histVars, Leaving, OneLaunch, InFlight, Placed, Captured
  <2>13. CASE DestroyTimesOut(l)
    BY <2>13, <1>0, TypedParts, DestroyTimesOutDoes DEF elsewhere, histVars, Leaving, OneLaunch, InFlight, Placed, Captured
  <2>. QED BY <2>1, <2>2, <2>3, <2>4, <2>5, <2>6, <2>7, <2>8, <2>9, <2>10, <2>11, <2>12, <2>13, <1>3 DEF LaunchSteps
<1>4. ASSUME NEW l \in Attempt, TimerFires(l)
      PROVE  Leaving'
  BY <1>4, <1>0, TypedParts, TimerFiresDoes DEF elsewhere, Begun, Registered, Leaving, OneLaunch, InFlight, Placed, Captured
<1>7. ASSUME NEW e \in Engine, EngineSteps(e)
      PROVE  Leaving'
  <2>1. CASE KillLands(e) \/ LeakEnds(e)
    BY <2>1, <1>0, TypedParts, KillLandsDoes DEF others, histVars, Leaving, OneLaunch, InFlight, Placed, Captured
  <2>2. CASE RemovalSettles(e)
    BY <2>2, <1>0, TypedParts DEF RemovalSettles, others, histVars, Leaving, OneLaunch, InFlight, Placed, Captured
  <2>3. CASE EngineReady(e) \/ EngineWedges(e)
    BY <2>3, <1>0, TypedParts, EngineRunsDoes DEF others, histVars, Leaving, OneLaunch, InFlight, Placed, Captured
  <2>4. CASE EngineDrops(e) \/ EngineUnlinked(e) \/ EngineFails(e) \/ StuckAuth(e) \/ WipeLands(e)
    BY <2>4, <1>0, TypedParts, EngineEndsDoes DEF others, histVars, Leaving, OneLaunch, InFlight, Placed, Captured
  <2>5. CASE ProbeFails(e) \/ ProbePasses
    BY <2>5, <1>0, TypedParts, ProbesDoes DEF others, histVars, Leaving, OneLaunch, InFlight, Placed, Captured
  <2>6. CASE DropHandled(e)
    BY <2>6, <1>0, TypedParts, DropHandledDoes DEF Leaving, OneLaunch, InFlight, Placed, Captured
  <2>7. CASE DropUnread(e)
    BY <2>7, <1>0, TypedParts, DropUnreadDoes DEF others, histVars, Leaving, OneLaunch, InFlight, Placed, Captured
  <2>. QED BY <2>1, <2>2, <2>3, <2>4, <2>5, <2>6, <2>7, <1>7 DEF EngineSteps
<1>. QED BY <1>2, <1>3, <1>4, <1>7

\* Request q, past its beginning, goes on with what it has captured.
GoesOn(q) ==
    /\ ~Early(q) /\ \A r \in Request : r # q => request'[r] = request[r]
    /\ mem'.mark = mem.mark /\ mem'.recon = mem.recon /\ launch' = launch /\ losing' = losing
    /\ mem'.registry \in {mem.registry, NoEngine}
    /\ mem.registry # NoEngine /\ mem.eng[mem.registry] \notin Alive => mem'.eng[mem.registry] \notin Alive
    /\ Captured(q) /\ request[q].eng = mem.registry
         => mem'.registry = NoEngine \/ (Captured(q)' /\ request'[q].eng = mem.registry)

\* That leaves the session down.
LEMMA GoesOnKeeps ==
    ASSUME NEW q \in Request, GoesOn(q), mem'.mark, Asking \/ ~mem.mark \/ (Unarmed /\ Leaving)
    PROVE  Asking' \/ (Unarmed' /\ Leaving')
<1>1. CASE Asking
  BY <1>1 DEF GoesOn, Asking, Early
<1>2. CASE Unarmed /\ Leaving
  <2>1. Unarmed'
    BY <1>2 DEF GoesOn, Unarmed, InFlight
  <2>2. Leaving'
    BY <1>2 DEF GoesOn, Leaving, Captured
  <2>. QED BY <2>1, <2>2
<1>. QED BY <1>1, <1>2 DEF GoesOn

\* A call that goes on leaves another one at its beginning, or has captured
\* the engine and dropped the reconnect state.
LEMMA CallsSettle ==
    ASSUME Typed, mem'.mark, ~refused', ~overlapped', Asking \/ ~mem.mark \/ (Unarmed /\ Leaving),
           \/ \E q \in Request, kind \in Kinds : CallMade(q, kind)
           \/ \E q \in Request : RequestSteps(q)
    PROVE  Asking' \/ (Unarmed' /\ Leaving')
<1>0. /\ \A l \in Launcher : LaunchFits(l)
      /\ \A q \in Request : RequestFits(q)
      /\ losing \subseteq Held
  BY TypedShapes, TypedParts DEF LaunchShape, RequestShape, Held
<1>5. ASSUME NEW q \in Request, NEW kind \in Kinds, CallMade(q, kind)
      PROVE  Asking' \/ (Unarmed' /\ Leaving')
  <2>1. CASE kind \in {"stop", "delete"} /\ Called(q, kind)
    <3>1. Early(q)'
      BY <2>1, CalledDoes DEF Early
    <3>. QED BY <3>1 DEF Asking
  <2>2. CASE kind \in {"logout", "kill"} /\ EngineCalled(q, kind)
    BY <1>5, <2>2, <1>0, TypedParts, ReconConstants, EngineCalledDoes DEF CallMade, Asking, Unarmed, Leaving, Early, Captured, InFlight
  <2>. QED BY <2>1, <2>2, <1>5 DEF CallMade
<1>6. ASSUME NEW q \in Request, RequestSteps(q)
      PROVE  Asking' \/ (Unarmed' /\ Leaving')
  <2>1. CASE StopCaptures(q)
    BY <2>1, <1>0, TypedParts, ReconConstants, StopCapturesDoes DEF histVars, Asking, Unarmed, Leaving, Early, Captured, InFlight
  <2>2. CASE WaitEnds(q)
    <3>1. GoesOn(q)
      BY <1>0, <2>2, TypedParts, WaitEndsDoes DEF GoesOn, Early, Captured, Alive, Latch, histVars
    <3>. QED BY <3>1, GoesOnKeeps
  <2>3. CASE StopCloses(q) \/ LogoutReturns(q) \/ KillEnds(q)
    <3>1. GoesOn(q)
      BY <1>0, <2>3, TypedParts, ClosesDoes DEF GoesOn, Early, Captured, Alive, Latch, histVars
    <3>. QED BY <3>1, GoesOnKeeps
  <2>4. CASE LogoutOverruns(q)
    <3>1. GoesOn(q)
      BY <1>0, <2>4, TypedParts, LogoutOverrunsDoes DEF GoesOn, Early, Captured, Alive, Latch, histVars
    <3>. QED BY <3>1, GoesOnKeeps
  <2>5. CASE StopEscalates(q)
    <3>1. GoesOn(q)
      BY <1>0, <2>5, TypedParts, StopEscalatesDoes DEF GoesOn, Early, Captured, Alive, Latch, histVars
    <3>. QED BY <3>1, GoesOnKeeps
  <2>6. CASE DeleteEnters(q)
    <3>1. CASE DeleteStarts(q)
      <4>1. Unarmed'
        BY <3>1, ReconConstants DEF DeleteStarts, Unarmed
      <4>2. Leaving'
        BY <3>1 DEF DeleteStarts, Leaving, Captured
      <4>. QED BY <4>1, <4>2
    <3>2. CASE ~DeleteStarts(q)
      <4>1. Early(q)'
        BY <2>6, <3>2, DeleteEntersDoes DEF Early
      <4>. QED BY <4>1 DEF Asking
    <3>. QED BY <3>1, <3>2
  <2>7. CASE DeleteFenceOpens(q)
    <3>1. CASE DeleteStarts(q)
      <4>1. Unarmed'
        BY <3>1, ReconConstants DEF DeleteStarts, Unarmed
      <4>2. Leaving'
        BY <3>1 DEF DeleteStarts, Leaving, Captured
      <4>. QED BY <4>1, <4>2
    <3>2. CASE ~DeleteStarts(q)
      <4>1. GoesOn(q)
        BY <1>0, <3>2, <2>7, TypedParts, DeleteFenceOpensDoes DEF GoesOn, Early, Captured, Alive, Latch, histVars
      <4>. QED BY <4>1, GoesOnKeeps
    <3>. QED BY <3>1, <3>2
  <2>8. CASE DeleteRefused(q)
    BY <2>8, <1>0, TypedParts, ReconConstants, DeleteRefusedDoes DEF Asking, Unarmed, Leaving, Early, Captured, InFlight
  <2>9. CASE RowDeleted(q)
    <3>1. GoesOn(q)
      BY <1>0, <2>9, TypedParts, RowDeletedDoes DEF GoesOn, Early, Captured, Alive, Latch, histVars
    <3>. QED BY <3>1, GoesOnKeeps
  <2>10. CASE NotFound(q) \/ DeleteFails(q) \/ Purged(q)
    BY <2>10, <1>0, TypedParts, ReconConstants, UnmarksDoes DEF histVars, Asking, Unarmed, Leaving, Early, Captured, InFlight
  <2>. QED BY <2>1, <2>2, <2>3, <2>4, <2>5, <2>6, <2>7, <2>8, <2>9, <2>10, <1>6 DEF RequestSteps
<1>. QED BY <1>5, <1>6

\* The invariant behind StoppedStaysDown.
Downed == Reached /\ Down

\* Every step keeps it.
LEMMA DownedStep ==
    ASSUME Downed, [Next]_vars
    PROVE  Downed'
<1>1. Reached' /\ Typed
  BY ReachedStep DEF Downed, Reached
<1>2. ASSUME mem'.mark, ~overlapped', ~refused'
      PROVE  Asking' \/ (Unarmed' /\ Leaving')
  <2>1. ~overlapped /\ ~refused
    BY <1>1, <1>2, OverlapStays, RefusalStays
  <2>2. OneLaunch /\ (\A l \in Launcher : Placed(l)) /\ (~mem.mark \/ Asking \/ (Unarmed /\ Leaving))
    BY <2>1 DEF Downed, Reached, Down
  <2>3. CASE UNCHANGED vars
    BY <1>2, <2>2, <2>3 DEF vars, Asking, Early, Unarmed, Leaving, Captured, InFlight
  <2>4. CASE \/ \E q \in Request, kind \in Kinds : CallMade(q, kind)
             \/ \E q \in Request : RequestSteps(q)
    BY <1>1, <1>2, <2>2, <2>4, CallsSettle
  <2>5. ASSUME \/ StartSteps
               \/ \E l \in Launcher : LaunchSteps(l)
               \/ \E l \in Attempt : TimerFires(l)
               \/ \E e \in Engine : EngineSteps(e)
        PROVE  Asking' \/ (Unarmed' /\ Leaving')
    <3>1. mem.mark
      BY <1>1, <1>2, <2>5, MarkFalls
    <3>2. CASE Asking
      <4>1. request' = request
        BY <2>5, StartStepsLeave, LaunchStepsLeave, EngineStepsLeave DEF elsewhere, TimerFires
      <4>. QED BY <3>2, <4>1 DEF Asking, Early
    <3>3. CASE Unarmed /\ Leaving
      BY <1>1, <1>2, <2>2, <2>5, <3>1, <3>3, UnarmedStep, LeavingStep
    <3>. QED BY <2>2, <3>1, <3>2, <3>3
  <2>. QED BY <1>1, <2>3, <2>4, <2>5, NextCases
<1>. QED BY <1>1, <1>2 DEF Downed, Down

\* When every call has been answered, a stopped session has no engine and no
\* timer that would bring one back.
THEOREM LifecycleStopped == Spec => []StoppedStaysDown
<1>1. Init => Downed
  BY ReachedInit DEF Init, Downed, Down
<1>2. Downed /\ [Next]_vars => Downed'
  BY DownedStep
<1>3. Spec => []Downed
  BY <1>1, <1>2, PTL DEF Spec
<1>4. ASSUME Downed, Answered, mem.mark, ~overlapped, ~refused
      PROVE  mem.registry = NoEngine /\ ~mem.recon.armed
  <2>1. ~Asking
    BY <1>4 DEF Answered, Asking, Early
  <2>2. Unarmed /\ Leaving
    BY <1>4, <2>1 DEF Downed, Down
  <2>. QED BY <1>4, <2>2 DEF Unarmed, Leaving, Answered, InFlight, Captured
<1>5. Downed => StoppedStaysDown
  BY <1>4 DEF StoppedStaysDown
<1>. QED BY <1>3, <1>5, PTL
-----------------------------------------------------------------------------
(* Which engines can be opened, and which credentials are removed.         *)

\* An engine that may serve, now or once it is opened.
Usable == Alive \cup {"made"}

\* An engine that can no longer serve does not come back while somebody
\* refers to it.
LEMMA UnusableStays ==
    ASSUME Typed, NEW f \in Engine, f \in Held, mem.eng[f] \notin Usable, [Next]_vars
    PROVE  mem'.eng[f] \notin Usable
<1>1. CASE UNCHANGED vars
  BY <1>1, TypedParts DEF vars, histVars, Usable, Alive, Latch
<1>2. CASE StartSteps
  <2>1. CASE StartCalled
    BY <2>1, TypedParts, StartCalledDoes DEF elsewhere, Begun, Usable, Alive, Latch
  <2>2. CASE HookDone
    BY <2>2, TypedParts, HookDoneDoes DEF elsewhere, Registered, histVars, Usable, Alive, Latch
  <2>3. CASE ReapEnds
    BY <2>3, TypedParts, ReapEndsDoes DEF elsewhere, histVars, Usable, Alive, Latch
  <2>. QED BY <2>1, <2>2, <2>3, <1>2 DEF StartSteps
<1>3. ASSUME NEW l \in Launcher, LaunchSteps(l)
      PROVE  mem'.eng[f] \notin Usable
  <2>1. CASE FenceOpens(l)
    <3>1. CASE l = Start
      BY <2>1, <3>1, TypedParts, FenceOpensDoes DEF elsewhere, histVars, Usable, Alive, Latch
    <3>2. CASE l # Start
      BY <2>1, <3>2, TypedParts, FenceOpensDoes DEF Registered, elsewhere, histVars, Usable, Alive, Latch
    <3>. QED BY <3>1, <3>2
  <2>2. CASE FenceRefuses(l)
    BY <2>2, TypedParts, FenceRefusesDoes DEF elsewhere, Usable, Alive, Latch
  <2>3. CASE WriteSettles(l)
    BY <2>3, TypedParts, WriteSettlesDoes DEF elsewhere, histVars, Usable, Alive, Latch
  <2>4. CASE WriteFails(l)
    BY <2>4, TypedParts, WriteFailsDoes DEF elsewhere, Usable, Alive, Latch
  <2>5. CASE InitResolves(l)
    BY <2>5, TypedParts, InitResolvesDoes DEF elsewhere, histVars, Usable, Alive, Latch
  <2>6. CASE InitRejects(l)
    BY <2>6, TypedParts, InitRejectsDoes DEF elsewhere, Usable, Alive, Latch
  <2>7. CASE InitTimesOut(l)
    BY <2>7, TypedParts, InitTimesOutDoes DEF elsewhere, histVars, Usable, Alive, Latch
  <2>8. CASE LateKillEnds(l)
    BY <2>8, TypedParts, LateKillEndsDoes DEF elsewhere, Usable, Alive, Latch
  <2>9. CASE RowRead(l)
    BY <2>9, TypedParts, RowReadDoes DEF elsewhere, Usable, Alive, Latch
  <2>10. CASE RetireEnds(l) \/ RetireTimesOut(l)
    BY <2>10, TypedParts, RetireEndsDoes DEF elsewhere, histVars, Usable, Alive, Latch
  <2>11. CASE Repurged(l)
    BY <2>11, RepurgedDoes
  <2>12. CASE OldEngineGone(l)
    BY <2>12, TypedParts, OldEngineGoneDoes DEF elsewhere, histVars, Usable, Alive, Latch
  <2>13. CASE DestroyTimesOut(l)
    BY <2>13, TypedParts, DestroyTimesOutDoes DEF elsewhere, histVars, Usable, Alive, Latch
  <2>. QED BY <2>1, <2>2, <2>3, <2>4, <2>5, <2>6, <2>7, <2>8, <2>9, <2>10, <2>11, <2>12, <2>13, <1>3 DEF LaunchSteps
<1>4. ASSUME NEW l \in Attempt, TimerFires(l)
      PROVE  mem'.eng[f] \notin Usable
  BY <1>4, TypedParts, TimerFiresDoes DEF elsewhere, Begun, Registered, Usable, Alive, Latch
<1>5. ASSUME NEW q \in Request, NEW kind \in Kinds, CallMade(q, kind)
      PROVE  mem'.eng[f] \notin Usable
  <2>1. CASE kind \in {"stop", "delete"} /\ Called(q, kind)
    BY <1>5, <2>1, TypedParts, CalledDoes DEF CallMade, Usable, Alive, Latch
  <2>2. CASE kind \in {"logout", "kill"} /\ EngineCalled(q, kind)
    BY <1>5, <2>2, TypedParts, EngineCalledDoes DEF CallMade, Usable, Alive, Latch
  <2>. QED BY <2>1, <2>2, <1>5 DEF CallMade
<1>6. ASSUME NEW q \in Request, RequestSteps(q)
      PROVE  mem'.eng[f] \notin Usable
  <2>1. CASE StopCaptures(q)
    BY <2>1, TypedParts, StopCapturesDoes DEF histVars, Usable, Alive, Latch
  <2>2. CASE WaitEnds(q)
    BY <2>2, TypedParts, WaitEndsDoes DEF histVars, Usable, Alive, Latch
  <2>3. CASE StopCloses(q) \/ LogoutReturns(q) \/ KillEnds(q)
    BY <2>3, TypedParts, ClosesDoes DEF histVars, Usable, Alive, Latch
  <2>4. CASE LogoutOverruns(q)
    BY <2>4, TypedParts, LogoutOverrunsDoes DEF histVars, Usable, Alive, Latch
  <2>5. CASE StopEscalates(q)
    BY <2>5, TypedParts, StopEscalatesDoes DEF histVars, Usable, Alive, Latch
  <2>6. CASE DeleteEnters(q)
    BY <2>6, TypedParts, DeleteEntersDoes DEF DeleteStarts, histVars, Usable, Alive, Latch
  <2>7. CASE DeleteFenceOpens(q)
    BY <2>7, TypedParts, DeleteFenceOpensDoes DEF DeleteStarts, histVars, Usable, Alive, Latch
  <2>8. CASE DeleteRefused(q)
    BY <2>8, TypedParts, DeleteRefusedDoes DEF Usable, Alive, Latch
  <2>9. CASE RowDeleted(q)
    BY <2>9, TypedParts, RowDeletedDoes DEF histVars, Usable, Alive, Latch
  <2>10. CASE NotFound(q) \/ DeleteFails(q) \/ Purged(q)
    BY <2>10, TypedParts, UnmarksDoes DEF histVars, Usable, Alive, Latch
  <2>. QED BY <2>1, <2>2, <2>3, <2>4, <2>5, <2>6, <2>7, <2>8, <2>9, <2>10, <1>6 DEF RequestSteps
<1>7. ASSUME NEW e \in Engine, EngineSteps(e)
      PROVE  mem'.eng[f] \notin Usable
  <2>1. CASE KillLands(e) \/ LeakEnds(e)
    BY <2>1, TypedParts, KillLandsDoes DEF others, histVars, Usable, Alive, Latch
  <2>2. CASE RemovalSettles(e)
    BY <2>2, TypedParts DEF RemovalSettles, others, histVars, Usable, Alive, Latch
  <2>3. CASE EngineReady(e) \/ EngineWedges(e)
    BY <2>3, TypedParts, EngineRunsDoes DEF others, histVars, Usable, Alive, Latch
  <2>4. CASE EngineDrops(e) \/ EngineUnlinked(e) \/ EngineFails(e) \/ StuckAuth(e) \/ WipeLands(e)
    BY <2>4, TypedParts, EngineEndsDoes DEF others, histVars, Usable, Alive, Latch
  <2>5. CASE ProbeFails(e) \/ ProbePasses
    BY <2>5, TypedParts, ProbesDoes DEF others, histVars, Usable, Alive, Latch
  <2>6. CASE DropHandled(e)
    BY <2>6, TypedParts, DropHandledDoes DEF Usable, Alive, Latch
  <2>7. CASE DropUnread(e)
    BY <2>7, TypedParts, DropUnreadDoes DEF others, histVars, Usable, Alive, Latch
  <2>. QED BY <2>1, <2>2, <2>3, <2>4, <2>5, <2>6, <2>7, <1>7 DEF EngineSteps
<1>. QED BY <1>1, <1>2, <1>3, <1>4, <1>5, <1>6, <1>7, NextCases


\* Launch l opens engine f.
Opens(l, f) ==
    /\ launch[l].at = "writing" /\ launch[l].eng = f /\ launch'[l].at = "initializing"
    /\ mem.registry = f /\ mem'.registry = f /\ ~mem.mark /\ mem.eng[f] = "made"
    /\ mem'.writing = IF mem.writing = f THEN NoEngine ELSE mem.writing
    /\ UNCHANGED <<row, removing, wiping, request, losing, histVars>>
    /\ mem'.recon = mem.recon /\ mem'.dying = mem.dying /\ ~mem'.mark
    /\ \A g \in Engine : g # f => mem'.eng[g] = mem.eng[g]

\* An engine that was only made stays so, ends, or is opened by its launch.
LEMMA UnopenedStays ==
    ASSUME Typed, NEW f \in Engine, f \in Held, mem.eng[f] \in {"made", "gone"}, [Next]_vars
    PROVE  mem'.eng[f] \in {"made", "gone"} \/ \E k \in Launcher : Opens(k, f)
<1>1. CASE UNCHANGED vars
  BY <1>1, TypedParts DEF vars, histVars, Alive, Latch
<1>2. CASE StartSteps
  <2>1. CASE StartCalled
    BY <2>1, TypedParts, StartCalledDoes DEF elsewhere, Begun, Alive, Latch
  <2>2. CASE HookDone
    BY <2>2, TypedParts, HookDoneDoes DEF elsewhere, Registered, histVars, Alive, Latch
  <2>3. CASE ReapEnds
    BY <2>3, TypedParts, ReapEndsDoes DEF elsewhere, histVars, Alive, Latch
  <2>. QED BY <2>1, <2>2, <2>3, <1>2 DEF StartSteps
<1>3. ASSUME NEW l \in Launcher, LaunchSteps(l)
      PROVE  mem'.eng[f] \in {"made", "gone"} \/ \E k \in Launcher : Opens(k, f)
  <2>1. CASE FenceOpens(l)
    <3>1. CASE l = Start
      BY <2>1, <3>1, TypedParts, FenceOpensDoes DEF elsewhere, histVars, Alive, Latch
    <3>2. CASE l # Start
      BY <2>1, <3>2, TypedParts, FenceOpensDoes DEF Registered, elsewhere, histVars, Alive, Latch
    <3>. QED BY <3>1, <3>2
  <2>2. CASE FenceRefuses(l)
    BY <2>2, TypedParts, FenceRefusesDoes DEF elsewhere, Alive, Latch
  <2>3. CASE WriteSettles(l)
    <3>1. CASE mem'.eng[f] = "open" /\ mem.eng[f] = "made" /\ mem.registry = launch[l].eng /\ ~mem.mark
      BY <2>3, <3>1, TypedParts, WriteSettlesDoes DEF Opens, elsewhere, Latch
    <3>2. CASE ~(mem'.eng[f] = "open" /\ mem.eng[f] = "made" /\ mem.registry = launch[l].eng /\ ~mem.mark)
      BY <2>3, <3>2, TypedParts, WriteSettlesDoes DEF Latch
    <3>. QED BY <3>1, <3>2
  <2>4. CASE WriteFails(l)
    BY <2>4, TypedParts, WriteFailsDoes DEF elsewhere, Alive, Latch
  <2>5. CASE InitResolves(l)
    BY <2>5, TypedParts, InitResolvesDoes DEF elsewhere, histVars, Alive, Latch
  <2>6. CASE InitRejects(l)
    BY <2>6, TypedParts, InitRejectsDoes DEF elsewhere, Alive, Latch
  <2>7. CASE InitTimesOut(l)
    BY <2>7, TypedParts, InitTimesOutDoes DEF elsewhere, histVars, Alive, Latch
  <2>8. CASE LateKillEnds(l)
    BY <2>8, TypedParts, LateKillEndsDoes DEF elsewhere, Alive, Latch
  <2>9. CASE RowRead(l)
    BY <2>9, TypedParts, RowReadDoes DEF elsewhere, Alive, Latch
  <2>10. CASE RetireEnds(l) \/ RetireTimesOut(l)
    BY <2>10, TypedParts, RetireEndsDoes DEF elsewhere, histVars, Alive, Latch
  <2>11. CASE Repurged(l)
    BY <2>11, RepurgedDoes
  <2>12. CASE OldEngineGone(l)
    BY <2>12, TypedParts, OldEngineGoneDoes DEF elsewhere, histVars, Alive, Latch
  <2>13. CASE DestroyTimesOut(l)
    BY <2>13, TypedParts, DestroyTimesOutDoes DEF elsewhere, histVars, Alive, Latch
  <2>. QED BY <2>1, <2>2, <2>3, <2>4, <2>5, <2>6, <2>7, <2>8, <2>9, <2>10, <2>11, <2>12, <2>13, <1>3 DEF LaunchSteps
<1>4. ASSUME NEW l \in Attempt, TimerFires(l)
      PROVE  mem'.eng[f] \in {"made", "gone"} \/ \E k \in Launcher : Opens(k, f)
  BY <1>4, TypedParts, TimerFiresDoes DEF elsewhere, Begun, Registered, Alive, Latch
<1>5. ASSUME NEW q \in Request, NEW kind \in Kinds, CallMade(q, kind)
      PROVE  mem'.eng[f] \in {"made", "gone"} \/ \E k \in Launcher : Opens(k, f)
  <2>1. CASE kind \in {"stop", "delete"} /\ Called(q, kind)
    BY <1>5, <2>1, TypedParts, CalledDoes DEF CallMade, Alive, Latch
  <2>2. CASE kind \in {"logout", "kill"} /\ EngineCalled(q, kind)
    BY <1>5, <2>2, TypedParts, EngineCalledDoes DEF CallMade, Alive, Latch
  <2>. QED BY <2>1, <2>2, <1>5 DEF CallMade
<1>6. ASSUME NEW q \in Request, RequestSteps(q)
      PROVE  mem'.eng[f] \in {"made", "gone"} \/ \E k \in Launcher : Opens(k, f)
  <2>1. CASE StopCaptures(q)
    BY <2>1, TypedParts, StopCapturesDoes DEF histVars, Alive, Latch
  <2>2. CASE WaitEnds(q)
    BY <2>2, TypedParts, WaitEndsDoes DEF histVars, Alive, Latch
  <2>3. CASE StopCloses(q) \/ LogoutReturns(q) \/ KillEnds(q)
    BY <2>3, TypedParts, ClosesDoes DEF histVars, Alive, Latch
  <2>4. CASE LogoutOverruns(q)
    BY <2>4, TypedParts, LogoutOverrunsDoes DEF histVars, Alive, Latch
  <2>5. CASE StopEscalates(q)
    BY <2>5, TypedParts, StopEscalatesDoes DEF histVars, Alive, Latch
  <2>6. CASE DeleteEnters(q)
    BY <2>6, TypedParts, DeleteEntersDoes DEF DeleteStarts, histVars, Alive, Latch
  <2>7. CASE DeleteFenceOpens(q)
    BY <2>7, TypedParts, DeleteFenceOpensDoes DEF DeleteStarts, histVars, Alive, Latch
  <2>8. CASE DeleteRefused(q)
    BY <2>8, TypedParts, DeleteRefusedDoes DEF Alive, Latch
  <2>9. CASE RowDeleted(q)
    BY <2>9, TypedParts, RowDeletedDoes DEF histVars, Alive, Latch
  <2>10. CASE NotFound(q) \/ DeleteFails(q) \/ Purged(q)
    BY <2>10, TypedParts, UnmarksDoes DEF histVars, Alive, Latch
  <2>. QED BY <2>1, <2>2, <2>3, <2>4, <2>5, <2>6, <2>7, <2>8, <2>9, <2>10, <1>6 DEF RequestSteps
<1>7. ASSUME NEW e \in Engine, EngineSteps(e)
      PROVE  mem'.eng[f] \in {"made", "gone"} \/ \E k \in Launcher : Opens(k, f)
  <2>1. CASE KillLands(e) \/ LeakEnds(e)
    BY <2>1, TypedParts, KillLandsDoes DEF others, histVars, Alive, Latch
  <2>2. CASE RemovalSettles(e)
    BY <2>2, TypedParts DEF RemovalSettles, others, histVars, Alive, Latch
  <2>3. CASE EngineReady(e) \/ EngineWedges(e)
    BY <2>3, TypedParts, EngineRunsDoes DEF others, histVars, Alive, Latch
  <2>4. CASE EngineDrops(e) \/ EngineUnlinked(e) \/ EngineFails(e) \/ StuckAuth(e) \/ WipeLands(e)
    BY <2>4, TypedParts, EngineEndsDoes DEF others, histVars, Alive, Latch
  <2>5. CASE ProbeFails(e) \/ ProbePasses
    BY <2>5, TypedParts, ProbesDoes DEF others, histVars, Alive, Latch
  <2>6. CASE DropHandled(e)
    BY <2>6, TypedParts, DropHandledDoes DEF Alive, Latch
  <2>7. CASE DropUnread(e)
    BY <2>7, TypedParts, DropUnreadDoes DEF others, histVars, Alive, Latch
  <2>. QED BY <2>1, <2>2, <2>3, <2>4, <2>5, <2>6, <2>7, <1>7 DEF EngineSteps
<1>. QED BY <1>1, <1>2, <1>3, <1>4, <1>5, <1>6, <1>7, NextCases


\* Launch l registers an engine: nobody held it, and no removal is pending
\* that the launch has not waited for.
Registers(l) ==
    /\ \/ launch[l].at \in {"hook", "destroying", "escalating"}
       \/ launch[l].at = "fenced" /\ launch[l].waits \cap removing = {}
       \/ /\ launch[l].at = "idle" /\ mem.recon.armed /\ Begun
    /\ launch[l].at # "hook" => removing = {} \/ launch[l].at = "fenced"
    /\ launch'[l].at = "writing" /\ launch'[l].eng = mem'.registry
    /\ \A k \in Launcher : k # l => launch'[k] = launch[k]
    /\ mem'.registry \in Engine \ Held /\ mem'.eng[mem'.registry] = "made"
    /\ mem'.writing = mem'.registry /\ mem'.mark = mem.mark
    /\ \A g \in Engine : g # mem'.registry => mem'.eng[g] \in {mem.eng[g], "gone"}
    /\ UNCHANGED <<row, removing, wiping, request, losing>>

\* The registry loses its engine, or gets a new one from a launch.
LEMMA RegistryMoves ==
    ASSUME Typed, [Next]_vars
    PROVE  mem'.registry \in {mem.registry, NoEngine} \/ \E k \in Launcher : Registers(k)
<1>1. CASE UNCHANGED vars
  BY <1>1, TypedParts DEF vars, histVars
<1>2. CASE StartSteps
  <2>1. CASE StartCalled
    BY <2>1, TypedParts, StartCalledDoes DEF elsewhere, Begun
  <2>2. CASE HookDone
    <3>1. Registers(Start)
      BY <2>2, TypedParts, HookDoneDoes DEF Registered, Registers, elsewhere
    <3>. QED BY <3>1, TypedParts
  <2>3. CASE ReapEnds
    BY <2>3, TypedParts, ReapEndsDoes DEF elsewhere, histVars
  <2>. QED BY <2>1, <2>2, <2>3, <1>2 DEF StartSteps
<1>3. ASSUME NEW l \in Launcher, LaunchSteps(l)
      PROVE  mem'.registry \in {mem.registry, NoEngine} \/ \E k \in Launcher : Registers(k)
  <2>1. CASE FenceOpens(l)
    <3>1. CASE l = Start
      BY <2>1, <3>1, TypedParts, FenceOpensDoes
    <3>2. CASE l # Start
      <4>1. /\ launch[l].at = "fenced" /\ launch[l].waits \cap removing = {}
            /\ l \in Attempt /\ Registered(l, mem, mem.mark, mem.recon) /\ UNCHANGED <<row, elsewhere>>
        BY <2>1, <3>2, TypedParts, FenceOpensDoes
      <4>2. Registers(l)
        BY <4>1, TypedParts DEF Registered, Registers, elsewhere
      <4>. QED BY <4>2
    <3>. QED BY <3>1, <3>2
  <2>2. CASE FenceRefuses(l)
    BY <2>2, TypedParts, FenceRefusesDoes DEF elsewhere
  <2>3. CASE WriteSettles(l)
    BY <2>3, TypedParts, WriteSettlesDoes DEF elsewhere, histVars
  <2>4. CASE WriteFails(l)
    BY <2>4, TypedParts, WriteFailsDoes DEF elsewhere
  <2>5. CASE InitResolves(l)
    BY <2>5, TypedParts, InitResolvesDoes DEF elsewhere, histVars
  <2>6. CASE InitRejects(l)
    BY <2>6, TypedParts, InitRejectsDoes DEF elsewhere
  <2>7. CASE InitTimesOut(l)
    BY <2>7, TypedParts, InitTimesOutDoes DEF elsewhere, histVars
  <2>8. CASE LateKillEnds(l)
    BY <2>8, TypedParts, LateKillEndsDoes DEF elsewhere
  <2>9. CASE RowRead(l)
    BY <2>9, TypedParts, RowReadDoes DEF elsewhere
  <2>10. CASE RetireEnds(l) \/ RetireTimesOut(l)
    BY <2>10, TypedParts, RetireEndsDoes DEF elsewhere, histVars
  <2>11. CASE Repurged(l)
    BY <2>11, RepurgedDoes
  <2>12. CASE OldEngineGone(l)
    <3>1. CASE removing # {}
      BY <2>12, <3>1, TypedParts, OldEngineGoneDoes
    <3>2. CASE removing = {}
      <4>1. Registers(l)
        BY <2>12, <3>2, TypedParts, OldEngineGoneDoes DEF Registers, elsewhere
      <4>. QED BY <4>1
    <3>. QED BY <3>1, <3>2
  <2>13. CASE DestroyTimesOut(l)
    BY <2>13, TypedParts, DestroyTimesOutDoes DEF elsewhere, histVars
  <2>. QED BY <2>1, <2>2, <2>3, <2>4, <2>5, <2>6, <2>7, <2>8, <2>9, <2>10, <2>11, <2>12, <2>13, <1>3 DEF LaunchSteps
<1>4. ASSUME NEW l \in Attempt, TimerFires(l)
      PROVE  mem'.registry \in {mem.registry, NoEngine} \/ \E k \in Launcher : Registers(k)
  <2>1. CASE ~mem.mark /\ mem.registry = NoEngine /\ removing = {}
    <3>1. Registers(l)
      BY <1>4, <2>1, TypedParts, TimerFiresDoes DEF Registered, Registers, elsewhere
    <3>2. l \in Launcher
      BY TypedParts
    <3>. QED BY <3>1, <3>2
  <2>2. CASE ~(~mem.mark /\ mem.registry = NoEngine /\ removing = {})
    BY <1>4, <2>2, TypedParts, TimerFiresDoes
  <2>. QED BY <2>1, <2>2
<1>5. ASSUME NEW q \in Request, NEW kind \in Kinds, CallMade(q, kind)
      PROVE  mem'.registry \in {mem.registry, NoEngine} \/ \E k \in Launcher : Registers(k)
  <2>1. CASE kind \in {"stop", "delete"} /\ Called(q, kind)
    BY <1>5, <2>1, TypedParts, CalledDoes DEF CallMade
  <2>2. CASE kind \in {"logout", "kill"} /\ EngineCalled(q, kind)
    BY <1>5, <2>2, TypedParts, EngineCalledDoes DEF CallMade
  <2>. QED BY <2>1, <2>2, <1>5 DEF CallMade
<1>6. ASSUME NEW q \in Request, RequestSteps(q)
      PROVE  mem'.registry \in {mem.registry, NoEngine} \/ \E k \in Launcher : Registers(k)
  <2>1. CASE StopCaptures(q)
    BY <2>1, TypedParts, StopCapturesDoes DEF histVars
  <2>2. CASE WaitEnds(q)
    BY <2>2, TypedParts, WaitEndsDoes DEF histVars
  <2>3. CASE StopCloses(q) \/ LogoutReturns(q) \/ KillEnds(q)
    BY <2>3, TypedParts, ClosesDoes DEF histVars
  <2>4. CASE LogoutOverruns(q)
    BY <2>4, TypedParts, LogoutOverrunsDoes DEF histVars
  <2>5. CASE StopEscalates(q)
    BY <2>5, TypedParts, StopEscalatesDoes DEF histVars
  <2>6. CASE DeleteEnters(q)
    BY <2>6, TypedParts, DeleteEntersDoes DEF DeleteStarts, histVars
  <2>7. CASE DeleteFenceOpens(q)
    BY <2>7, TypedParts, DeleteFenceOpensDoes DEF DeleteStarts, histVars
  <2>8. CASE DeleteRefused(q)
    BY <2>8, TypedParts, DeleteRefusedDoes
  <2>9. CASE RowDeleted(q)
    BY <2>9, TypedParts, RowDeletedDoes DEF histVars
  <2>10. CASE NotFound(q) \/ DeleteFails(q) \/ Purged(q)
    BY <2>10, TypedParts, UnmarksDoes DEF histVars
  <2>. QED BY <2>1, <2>2, <2>3, <2>4, <2>5, <2>6, <2>7, <2>8, <2>9, <2>10, <1>6 DEF RequestSteps
<1>7. ASSUME NEW e \in Engine, EngineSteps(e)
      PROVE  mem'.registry \in {mem.registry, NoEngine} \/ \E k \in Launcher : Registers(k)
  <2>1. CASE KillLands(e) \/ LeakEnds(e)
    BY <2>1, TypedParts, KillLandsDoes DEF others, histVars
  <2>2. CASE RemovalSettles(e)
    BY <2>2, TypedParts DEF RemovalSettles, others, histVars
  <2>3. CASE EngineReady(e) \/ EngineWedges(e)
    BY <2>3, TypedParts, EngineRunsDoes DEF others, histVars
  <2>4. CASE EngineDrops(e) \/ EngineUnlinked(e) \/ EngineFails(e) \/ StuckAuth(e) \/ WipeLands(e)
    BY <2>4, TypedParts, EngineEndsDoes DEF others, histVars
  <2>5. CASE ProbeFails(e) \/ ProbePasses
    BY <2>5, TypedParts, ProbesDoes DEF others, histVars
  <2>6. CASE DropHandled(e)
    BY <2>6, TypedParts, DropHandledDoes
  <2>7. CASE DropUnread(e)
    BY <2>7, TypedParts, DropUnreadDoes DEF others, histVars
  <2>. QED BY <2>1, <2>2, <2>3, <2>4, <2>5, <2>6, <2>7, <1>7 DEF EngineSteps
<1>. QED BY <1>1, <1>2, <1>3, <1>4, <1>5, <1>6, <1>7, NextCases


\* Engine e's removal begins to be tracked: a logout that can reach its client,
\* or an unlinked device.
Removes(e) ==
    /\ UNCHANGED <<row, launch>> /\ mem'.eng[e] \notin Alive
    /\ mem'.registry \in {mem.registry, NoEngine}
    /\ \A g \in Engine : g # e => mem'.eng[g] = mem.eng[g]
    /\ \/ mem.eng[e] \in Alive /\ request' = request
       \/ \E q \in Request :
            /\ mem.eng[e] \in Running
            /\ \/ request[q].at = "idle" /\ e = mem.registry
                  /\ crossed' = (crossed \/ \E l \in Launcher : Unborn(l))
               \/ request[q].at = "waiting" /\ e = request[q].eng
            /\ request'[q].at = "closing"
            /\ \A r \in Request : r # q => request'[r] = request[r]

\* The removals pending become fewer, or one more of these.
LEMMA RemovingMoves ==
    ASSUME Typed, [Next]_vars
    PROVE  removing' \subseteq removing \/ \E f \in Engine : removing' = removing \cup {f} /\ Removes(f)
<1>1. CASE removing' = removing
  BY <1>1
<1>5. ASSUME NEW q \in Request, NEW kind \in Kinds, CallMade(q, kind)
      PROVE  removing' \subseteq removing \/ \E f \in Engine : removing' = removing \cup {f} /\ Removes(f)
  <2>1. CASE kind \in {"stop", "delete"} /\ Called(q, kind)
    BY <2>1, CalledDoes
  <2>2. CASE kind \in {"logout", "kill"} /\ EngineCalled(q, kind)
    <3>1. kind \in Kinds /\ EngineCalled(q, kind)
      BY <1>5, <2>2
    <3>2. CASE removing' = removing
      BY <3>2
    <3>3. CASE removing' # removing
      <4>1. /\ mem.registry \in Engine /\ removing' = removing \cup {mem.registry}
            /\ mem.eng[mem.registry] \in Running /\ Latched(mem', mem, mem.registry)
            /\ RequestAs(q, "closing", kind, mem.registry, {})
            /\ mem'.registry = mem.registry /\ UNCHANGED <<row, launch>>
        BY <3>1, <3>3, EngineCalledDoes
      <4>2. Removes(mem.registry)
        BY <1>5, <4>1 DEF Removes, CallMade, Latch, Alive
      <4>. QED BY <4>1, <4>2
    <3>. QED BY <3>2, <3>3
  <2>. QED BY <2>1, <2>2, <1>5 DEF CallMade
<1>6. ASSUME NEW q \in Request, RequestSteps(q)
      PROVE  removing' \subseteq removing \/ \E f \in Engine : removing' = removing \cup {f} /\ Removes(f)
  <2>1. CASE StopCaptures(q)
    BY <2>1, TypedParts, StopCapturesDoes DEF histVars
  <2>2. CASE WaitEnds(q)
    <3>2. CASE removing' = removing
      BY <3>2
    <3>3. CASE removing' # removing
      <4> DEFINE e == request[q].eng
      <4>1. /\ e \in Engine /\ removing' = removing \cup {e} /\ request[q].at = "waiting"
            /\ mem.eng[e] \in Running /\ Latched(mem', mem, e)
            /\ RequestAs(q, "closing", request[q].kind, e, {})
            /\ mem'.registry = mem.registry /\ UNCHANGED <<row, launch>>
        BY <2>2, <3>3, WaitEndsDoes
      <4>2. Removes(e)
        BY <4>1 DEF Removes, Latch, Alive
      <4>. QED BY <4>1, <4>2
    <3>. QED BY <3>2, <3>3
  <2>3. CASE StopCloses(q) \/ LogoutReturns(q) \/ KillEnds(q)
    BY <2>3, TypedParts, ClosesDoes DEF histVars
  <2>4. CASE LogoutOverruns(q)
    BY <2>4, TypedParts, LogoutOverrunsDoes DEF histVars
  <2>5. CASE StopEscalates(q)
    BY <2>5, TypedParts, StopEscalatesDoes DEF histVars
  <2>6. CASE DeleteEnters(q)
    BY <2>6, TypedParts, DeleteEntersDoes DEF DeleteStarts, histVars
  <2>7. CASE DeleteFenceOpens(q)
    BY <2>7, TypedParts, DeleteFenceOpensDoes DEF DeleteStarts, histVars
  <2>8. CASE DeleteRefused(q)
    BY <2>8, TypedParts, DeleteRefusedDoes
  <2>9. CASE RowDeleted(q)
    BY <2>9, TypedParts, RowDeletedDoes DEF histVars
  <2>10. CASE NotFound(q) \/ DeleteFails(q) \/ Purged(q)
    BY <2>10, TypedParts, UnmarksDoes DEF histVars
  <2>. QED BY <2>1, <2>2, <2>3, <2>4, <2>5, <2>6, <2>7, <2>8, <2>9, <2>10, <1>6 DEF RequestSteps
<1>7. ASSUME NEW e \in Engine, EngineSteps(e)
      PROVE  removing' \subseteq removing \/ \E f \in Engine : removing' = removing \cup {f} /\ Removes(f)
  <2>1. CASE KillLands(e) \/ LeakEnds(e)
    BY <2>1, TypedParts, KillLandsDoes DEF others, histVars
  <2>2. CASE RemovalSettles(e)
    BY <2>2, TypedParts DEF RemovalSettles, others, histVars
  <2>3. CASE EngineReady(e) \/ EngineWedges(e)
    BY <2>3, TypedParts, EngineRunsDoes DEF others, histVars
  <2>4. CASE EngineDrops(e) \/ EngineUnlinked(e) \/ EngineFails(e) \/ StuckAuth(e) \/ WipeLands(e)
    <3>2. CASE removing' = removing
      BY <3>2
    <3>3. CASE removing' # removing
      <4>1. /\ removing' = removing \cup {e} /\ mem.eng[e] \in Alive
            /\ Becomes(mem', mem, e, "lost") /\ mem'.registry = mem.registry
            /\ UNCHANGED others
        BY <2>4, <3>3, EngineEndsDoes
      <4>2. Removes(e)
        BY <4>1 DEF Removes, others, Alive
      <4>. QED BY <4>1, <4>2
    <3>. QED BY <3>2, <3>3
  <2>5. CASE ProbeFails(e) \/ ProbePasses
    BY <2>5, TypedParts, ProbesDoes DEF others, histVars
  <2>6. CASE DropHandled(e)
    BY <2>6, TypedParts, DropHandledDoes
  <2>7. CASE DropUnread(e)
    BY <2>7, TypedParts, DropUnreadDoes DEF others, histVars
  <2>. QED BY <2>1, <2>2, <2>3, <2>4, <2>5, <2>6, <2>7, <1>7 DEF EngineSteps
<1>2. CASE \E l \in Attempt : TimerFires(l)
  BY <1>1, <1>2 DEF TimerFires, elsewhere
<1>. QED BY <1>1, <1>2, <1>5, <1>6, <1>7, StartStepsLeave, LaunchStepsLeave, NextCases DEF vars, elsewhere

\* Only the registered engine can begin to serve.
LEMMA NewlyUsable ==
    ASSUME Typed, NEW f \in Engine, mem.eng[f] \notin Usable, [Next]_vars
    PROVE  mem'.eng[f] \notin Usable \/ mem'.registry = f
<1>1. CASE UNCHANGED vars
  BY <1>1, TypedParts DEF vars, histVars, Usable, Alive, Latch
<1>2. CASE StartSteps
  <2>1. CASE StartCalled
    BY <2>1, TypedParts, StartCalledDoes DEF elsewhere, Begun, Usable, Alive, Latch
  <2>2. CASE HookDone
    BY <2>2, TypedParts, HookDoneDoes DEF elsewhere, Registered, histVars, Usable, Alive, Latch
  <2>3. CASE ReapEnds
    BY <2>3, TypedParts, ReapEndsDoes DEF elsewhere, histVars, Usable, Alive, Latch
  <2>. QED BY <2>1, <2>2, <2>3, <1>2 DEF StartSteps
<1>3. ASSUME NEW l \in Launcher, LaunchSteps(l)
      PROVE  mem'.eng[f] \notin Usable \/ mem'.registry = f
  <2>1. CASE FenceOpens(l)
    <3>1. CASE l = Start
      BY <2>1, <3>1, TypedParts, FenceOpensDoes DEF elsewhere, histVars, Usable, Alive, Latch
    <3>2. CASE l # Start
      BY <2>1, <3>2, TypedParts, FenceOpensDoes DEF Registered, elsewhere, histVars, Usable, Alive, Latch
    <3>. QED BY <3>1, <3>2
  <2>2. CASE FenceRefuses(l)
    BY <2>2, TypedParts, FenceRefusesDoes DEF elsewhere, Usable, Alive, Latch
  <2>3. CASE WriteSettles(l)
    BY <2>3, TypedParts, WriteSettlesDoes DEF elsewhere, histVars, Usable, Alive, Latch
  <2>4. CASE WriteFails(l)
    BY <2>4, TypedParts, WriteFailsDoes DEF elsewhere, Usable, Alive, Latch
  <2>5. CASE InitResolves(l)
    BY <2>5, TypedParts, InitResolvesDoes DEF elsewhere, histVars, Usable, Alive, Latch
  <2>6. CASE InitRejects(l)
    BY <2>6, TypedParts, InitRejectsDoes DEF elsewhere, Usable, Alive, Latch
  <2>7. CASE InitTimesOut(l)
    BY <2>7, TypedParts, InitTimesOutDoes DEF elsewhere, histVars, Usable, Alive, Latch
  <2>8. CASE LateKillEnds(l)
    BY <2>8, TypedParts, LateKillEndsDoes DEF elsewhere, Usable, Alive, Latch
  <2>9. CASE RowRead(l)
    BY <2>9, TypedParts, RowReadDoes DEF elsewhere, Usable, Alive, Latch
  <2>10. CASE RetireEnds(l) \/ RetireTimesOut(l)
    BY <2>10, TypedParts, RetireEndsDoes DEF elsewhere, histVars, Usable, Alive, Latch
  <2>11. CASE Repurged(l)
    BY <2>11, RepurgedDoes
  <2>12. CASE OldEngineGone(l)
    BY <2>12, TypedParts, OldEngineGoneDoes DEF elsewhere, histVars, Usable, Alive, Latch
  <2>13. CASE DestroyTimesOut(l)
    BY <2>13, TypedParts, DestroyTimesOutDoes DEF elsewhere, histVars, Usable, Alive, Latch
  <2>. QED BY <2>1, <2>2, <2>3, <2>4, <2>5, <2>6, <2>7, <2>8, <2>9, <2>10, <2>11, <2>12, <2>13, <1>3 DEF LaunchSteps
<1>4. ASSUME NEW l \in Attempt, TimerFires(l)
      PROVE  mem'.eng[f] \notin Usable \/ mem'.registry = f
  BY <1>4, TypedParts, TimerFiresDoes DEF elsewhere, Begun, Registered, Usable, Alive, Latch
<1>5. ASSUME NEW q \in Request, NEW kind \in Kinds, CallMade(q, kind)
      PROVE  mem'.eng[f] \notin Usable \/ mem'.registry = f
  <2>1. CASE kind \in {"stop", "delete"} /\ Called(q, kind)
    BY <1>5, <2>1, TypedParts, CalledDoes DEF CallMade, Usable, Alive, Latch
  <2>2. CASE kind \in {"logout", "kill"} /\ EngineCalled(q, kind)
    BY <1>5, <2>2, TypedParts, EngineCalledDoes DEF CallMade, Usable, Alive, Latch
  <2>. QED BY <2>1, <2>2, <1>5 DEF CallMade
<1>6. ASSUME NEW q \in Request, RequestSteps(q)
      PROVE  mem'.eng[f] \notin Usable \/ mem'.registry = f
  <2>1. CASE StopCaptures(q)
    BY <2>1, TypedParts, StopCapturesDoes DEF histVars, Usable, Alive, Latch
  <2>2. CASE WaitEnds(q)
    BY <2>2, TypedParts, WaitEndsDoes DEF histVars, Usable, Alive, Latch
  <2>3. CASE StopCloses(q) \/ LogoutReturns(q) \/ KillEnds(q)
    BY <2>3, TypedParts, ClosesDoes DEF histVars, Usable, Alive, Latch
  <2>4. CASE LogoutOverruns(q)
    BY <2>4, TypedParts, LogoutOverrunsDoes DEF histVars, Usable, Alive, Latch
  <2>5. CASE StopEscalates(q)
    BY <2>5, TypedParts, StopEscalatesDoes DEF histVars, Usable, Alive, Latch
  <2>6. CASE DeleteEnters(q)
    BY <2>6, TypedParts, DeleteEntersDoes DEF DeleteStarts, histVars, Usable, Alive, Latch
  <2>7. CASE DeleteFenceOpens(q)
    BY <2>7, TypedParts, DeleteFenceOpensDoes DEF DeleteStarts, histVars, Usable, Alive, Latch
  <2>8. CASE DeleteRefused(q)
    BY <2>8, TypedParts, DeleteRefusedDoes DEF Usable, Alive, Latch
  <2>9. CASE RowDeleted(q)
    BY <2>9, TypedParts, RowDeletedDoes DEF histVars, Usable, Alive, Latch
  <2>10. CASE NotFound(q) \/ DeleteFails(q) \/ Purged(q)
    BY <2>10, TypedParts, UnmarksDoes DEF histVars, Usable, Alive, Latch
  <2>. QED BY <2>1, <2>2, <2>3, <2>4, <2>5, <2>6, <2>7, <2>8, <2>9, <2>10, <1>6 DEF RequestSteps
<1>7. ASSUME NEW e \in Engine, EngineSteps(e)
      PROVE  mem'.eng[f] \notin Usable \/ mem'.registry = f
  <2>1. CASE KillLands(e) \/ LeakEnds(e)
    BY <2>1, TypedParts, KillLandsDoes DEF others, histVars, Usable, Alive, Latch
  <2>2. CASE RemovalSettles(e)
    BY <2>2, TypedParts DEF RemovalSettles, others, histVars, Usable, Alive, Latch
  <2>3. CASE EngineReady(e) \/ EngineWedges(e)
    BY <2>3, TypedParts, EngineRunsDoes DEF others, histVars, Usable, Alive, Latch
  <2>4. CASE EngineDrops(e) \/ EngineUnlinked(e) \/ EngineFails(e) \/ StuckAuth(e) \/ WipeLands(e)
    BY <2>4, TypedParts, EngineEndsDoes DEF others, histVars, Usable, Alive, Latch
  <2>5. CASE ProbeFails(e) \/ ProbePasses
    BY <2>5, TypedParts, ProbesDoes DEF others, histVars, Usable, Alive, Latch
  <2>6. CASE DropHandled(e)
    BY <2>6, TypedParts, DropHandledDoes DEF Usable, Alive, Latch
  <2>7. CASE DropUnread(e)
    BY <2>7, TypedParts, DropUnreadDoes DEF others, histVars, Usable, Alive, Latch
  <2>. QED BY <2>1, <2>2, <2>3, <2>4, <2>5, <2>6, <2>7, <1>7 DEF EngineSteps
<1>. QED BY <1>1, <1>2, <1>3, <1>4, <1>5, <1>6, <1>7, NextCases


\* Nothing comes to life unless its launch opens it.
LEMMA NewlyAlive ==
    ASSUME Typed, NEW f \in Engine, [Next]_vars
    PROVE  mem.eng[f] \in Alive \/ mem'.eng[f] \notin Alive \/ \E k \in Launcher : Opens(k, f)
<1>1. CASE UNCHANGED vars
  BY <1>1, TypedParts DEF vars, histVars, Alive, Latch
<1>2. CASE StartSteps
  <2>1. CASE StartCalled
    BY <2>1, TypedParts, StartCalledDoes DEF elsewhere, Begun, Alive, Latch
  <2>2. CASE HookDone
    BY <2>2, TypedParts, HookDoneDoes DEF elsewhere, Registered, histVars, Alive, Latch
  <2>3. CASE ReapEnds
    BY <2>3, TypedParts, ReapEndsDoes DEF elsewhere, histVars, Alive, Latch
  <2>. QED BY <2>1, <2>2, <2>3, <1>2 DEF StartSteps
<1>3. ASSUME NEW l \in Launcher, LaunchSteps(l)
      PROVE  mem.eng[f] \in Alive \/ mem'.eng[f] \notin Alive \/ \E k \in Launcher : Opens(k, f)
  <2>1. CASE FenceOpens(l)
    <3>1. CASE l = Start
      BY <2>1, <3>1, TypedParts, FenceOpensDoes DEF elsewhere, histVars, Alive, Latch
    <3>2. CASE l # Start
      BY <2>1, <3>2, TypedParts, FenceOpensDoes DEF Registered, elsewhere, histVars, Alive, Latch
    <3>. QED BY <3>1, <3>2
  <2>2. CASE FenceRefuses(l)
    BY <2>2, TypedParts, FenceRefusesDoes DEF elsewhere, Alive, Latch
  <2>3. CASE WriteSettles(l)
    <3>1. CASE mem'.eng[f] = "open" /\ mem.eng[f] = "made" /\ mem.registry = launch[l].eng /\ ~mem.mark
      BY <2>3, <3>1, TypedParts, WriteSettlesDoes DEF Opens, elsewhere, Latch
    <3>2. CASE ~(mem'.eng[f] = "open" /\ mem.eng[f] = "made" /\ mem.registry = launch[l].eng /\ ~mem.mark)
      BY <2>3, <3>2, TypedParts, WriteSettlesDoes DEF Latch, Alive
    <3>. QED BY <3>1, <3>2
  <2>4. CASE WriteFails(l)
    BY <2>4, TypedParts, WriteFailsDoes DEF elsewhere, Alive, Latch
  <2>5. CASE InitResolves(l)
    BY <2>5, TypedParts, InitResolvesDoes DEF elsewhere, histVars, Alive, Latch
  <2>6. CASE InitRejects(l)
    BY <2>6, TypedParts, InitRejectsDoes DEF elsewhere, Alive, Latch
  <2>7. CASE InitTimesOut(l)
    BY <2>7, TypedParts, InitTimesOutDoes DEF elsewhere, histVars, Alive, Latch
  <2>8. CASE LateKillEnds(l)
    BY <2>8, TypedParts, LateKillEndsDoes DEF elsewhere, Alive, Latch
  <2>9. CASE RowRead(l)
    BY <2>9, TypedParts, RowReadDoes DEF elsewhere, Alive, Latch
  <2>10. CASE RetireEnds(l) \/ RetireTimesOut(l)
    BY <2>10, TypedParts, RetireEndsDoes DEF elsewhere, histVars, Alive, Latch
  <2>11. CASE Repurged(l)
    BY <2>11, RepurgedDoes
  <2>12. CASE OldEngineGone(l)
    BY <2>12, TypedParts, OldEngineGoneDoes DEF elsewhere, histVars, Alive, Latch
  <2>13. CASE DestroyTimesOut(l)
    BY <2>13, TypedParts, DestroyTimesOutDoes DEF elsewhere, histVars, Alive, Latch
  <2>. QED BY <2>1, <2>2, <2>3, <2>4, <2>5, <2>6, <2>7, <2>8, <2>9, <2>10, <2>11, <2>12, <2>13, <1>3 DEF LaunchSteps
<1>4. ASSUME NEW l \in Attempt, TimerFires(l)
      PROVE  mem.eng[f] \in Alive \/ mem'.eng[f] \notin Alive \/ \E k \in Launcher : Opens(k, f)
  BY <1>4, TypedParts, TimerFiresDoes DEF elsewhere, Begun, Registered, Alive, Latch
<1>5. ASSUME NEW q \in Request, NEW kind \in Kinds, CallMade(q, kind)
      PROVE  mem.eng[f] \in Alive \/ mem'.eng[f] \notin Alive \/ \E k \in Launcher : Opens(k, f)
  <2>1. CASE kind \in {"stop", "delete"} /\ Called(q, kind)
    BY <1>5, <2>1, TypedParts, CalledDoes DEF CallMade, Alive, Latch
  <2>2. CASE kind \in {"logout", "kill"} /\ EngineCalled(q, kind)
    BY <1>5, <2>2, TypedParts, EngineCalledDoes DEF CallMade, Alive, Latch
  <2>. QED BY <2>1, <2>2, <1>5 DEF CallMade
<1>6. ASSUME NEW q \in Request, RequestSteps(q)
      PROVE  mem.eng[f] \in Alive \/ mem'.eng[f] \notin Alive \/ \E k \in Launcher : Opens(k, f)
  <2>1. CASE StopCaptures(q)
    BY <2>1, TypedParts, StopCapturesDoes DEF histVars, Alive, Latch
  <2>2. CASE WaitEnds(q)
    BY <2>2, TypedParts, WaitEndsDoes DEF histVars, Alive, Latch
  <2>3. CASE StopCloses(q) \/ LogoutReturns(q) \/ KillEnds(q)
    BY <2>3, TypedParts, ClosesDoes DEF histVars, Alive, Latch
  <2>4. CASE LogoutOverruns(q)
    BY <2>4, TypedParts, LogoutOverrunsDoes DEF histVars, Alive, Latch
  <2>5. CASE StopEscalates(q)
    BY <2>5, TypedParts, StopEscalatesDoes DEF histVars, Alive, Latch
  <2>6. CASE DeleteEnters(q)
    BY <2>6, TypedParts, DeleteEntersDoes DEF DeleteStarts, histVars, Alive, Latch
  <2>7. CASE DeleteFenceOpens(q)
    BY <2>7, TypedParts, DeleteFenceOpensDoes DEF DeleteStarts, histVars, Alive, Latch
  <2>8. CASE DeleteRefused(q)
    BY <2>8, TypedParts, DeleteRefusedDoes DEF Alive, Latch
  <2>9. CASE RowDeleted(q)
    BY <2>9, TypedParts, RowDeletedDoes DEF histVars, Alive, Latch
  <2>10. CASE NotFound(q) \/ DeleteFails(q) \/ Purged(q)
    BY <2>10, TypedParts, UnmarksDoes DEF histVars, Alive, Latch
  <2>. QED BY <2>1, <2>2, <2>3, <2>4, <2>5, <2>6, <2>7, <2>8, <2>9, <2>10, <1>6 DEF RequestSteps
<1>7. ASSUME NEW e \in Engine, EngineSteps(e)
      PROVE  mem.eng[f] \in Alive \/ mem'.eng[f] \notin Alive \/ \E k \in Launcher : Opens(k, f)
  <2>1. CASE KillLands(e) \/ LeakEnds(e)
    BY <2>1, TypedParts, KillLandsDoes DEF others, histVars, Alive, Latch
  <2>2. CASE RemovalSettles(e)
    BY <2>2, TypedParts DEF RemovalSettles, others, histVars, Alive, Latch
  <2>3. CASE EngineReady(e) \/ EngineWedges(e)
    BY <2>3, TypedParts, EngineRunsDoes DEF others, histVars, Alive, Latch
  <2>4. CASE EngineDrops(e) \/ EngineUnlinked(e) \/ EngineFails(e) \/ StuckAuth(e) \/ WipeLands(e)
    BY <2>4, TypedParts, EngineEndsDoes DEF others, histVars, Alive, Latch
  <2>5. CASE ProbeFails(e) \/ ProbePasses
    BY <2>5, TypedParts, ProbesDoes DEF others, histVars, Alive, Latch
  <2>6. CASE DropHandled(e)
    BY <2>6, TypedParts, DropHandledDoes DEF Alive, Latch
  <2>7. CASE DropUnread(e)
    BY <2>7, TypedParts, DropUnreadDoes DEF others, histVars, Alive, Latch
  <2>. QED BY <2>1, <2>2, <2>3, <2>4, <2>5, <2>6, <2>7, <1>7 DEF EngineSteps
<1>. QED BY <1>1, <1>2, <1>3, <1>4, <1>5, <1>6, <1>7, NextCases


\* Engines being closed can no longer serve.
Closed ==
    /\ \A l \in Launcher : TearsDown(l) => mem.eng[launch[l].victim] \notin Usable
    /\ \A l \in Launcher : launch[l].at = "killing" => mem.eng[launch[l].eng] \notin Usable
    /\ \A q \in Request : request[q].at \in {"closing", "killing"} => mem.eng[request[q].eng] \notin Usable

\* A launch's victim is latched as the launch turns on it.
LEMMA VictimIsShut ==
    ASSUME Typed, NEW k \in Launcher, [Next]_vars
    PROVE  (TearsDown(k) /\ launch'[k].victim = launch[k].victim) \/ ~TearsDown(k)' \/ mem'.eng[launch'[k].victim] \notin Usable
<1>1. CASE UNCHANGED vars
  BY <1>1, TypedParts DEF vars, histVars, Usable, Alive, Latch, TearsDown
<1>2. CASE StartSteps
  <2>1. CASE StartCalled
    BY <2>1, TypedParts, StartCalledDoes DEF elsewhere, Begun, Usable, Alive, Latch, TearsDown
  <2>2. CASE HookDone
    BY <2>2, TypedParts, HookDoneDoes DEF elsewhere, Registered, histVars, Usable, Alive, Latch, TearsDown
  <2>3. CASE ReapEnds
    BY <2>3, TypedParts, ReapEndsDoes DEF elsewhere, histVars, Usable, Alive, Latch, TearsDown
  <2>. QED BY <2>1, <2>2, <2>3, <1>2 DEF StartSteps
<1>3. ASSUME NEW l \in Launcher, LaunchSteps(l)
      PROVE  (TearsDown(k) /\ launch'[k].victim = launch[k].victim) \/ ~TearsDown(k)' \/ mem'.eng[launch'[k].victim] \notin Usable
  <2>1. CASE FenceOpens(l)
    <3>1. CASE l = Start
      BY <2>1, <3>1, TypedParts, FenceOpensDoes DEF elsewhere, histVars, Usable, Alive, Latch, TearsDown
    <3>2. CASE l # Start
      BY <2>1, <3>2, TypedParts, FenceOpensDoes DEF Registered, elsewhere, histVars, Usable, Alive, Latch, TearsDown
    <3>. QED BY <3>1, <3>2
  <2>2. CASE FenceRefuses(l)
    BY <2>2, TypedParts, FenceRefusesDoes DEF elsewhere, Usable, Alive, Latch, TearsDown
  <2>3. CASE WriteSettles(l)
    BY <2>3, TypedParts, WriteSettlesDoes DEF elsewhere, histVars, Usable, Alive, Latch, TearsDown
  <2>4. CASE WriteFails(l)
    BY <2>4, TypedParts, WriteFailsDoes DEF elsewhere, Usable, Alive, Latch, TearsDown
  <2>5. CASE InitResolves(l)
    BY <2>5, TypedParts, InitResolvesDoes DEF elsewhere, histVars, Usable, Alive, Latch, TearsDown
  <2>6. CASE InitRejects(l)
    BY <2>6, TypedParts, InitRejectsDoes DEF elsewhere, Usable, Alive, Latch, TearsDown
  <2>7. CASE InitTimesOut(l)
    BY <2>7, TypedParts, InitTimesOutDoes DEF elsewhere, histVars, Usable, Alive, Latch, TearsDown
  <2>8. CASE LateKillEnds(l)
    BY <2>8, TypedParts, LateKillEndsDoes DEF elsewhere, Usable, Alive, Latch, TearsDown
  <2>9. CASE RowRead(l)
    BY <2>9, TypedParts, RowReadDoes DEF elsewhere, Usable, Alive, Latch, TearsDown
  <2>10. CASE RetireEnds(l) \/ RetireTimesOut(l)
    BY <2>10, TypedParts, RetireEndsDoes DEF elsewhere, histVars, Usable, Alive, Latch, TearsDown
  <2>11. CASE Repurged(l)
    BY <2>11, TypedParts, RepurgedDoes DEF elsewhere, histVars, Usable, Alive, Latch, TearsDown
  <2>12. CASE OldEngineGone(l)
    BY <2>12, TypedParts, OldEngineGoneDoes DEF elsewhere, histVars, Usable, Alive, Latch, TearsDown
  <2>13. CASE DestroyTimesOut(l)
    BY <2>13, TypedParts, DestroyTimesOutDoes DEF elsewhere, histVars, Usable, Alive, Latch, TearsDown
  <2>. QED BY <2>1, <2>2, <2>3, <2>4, <2>5, <2>6, <2>7, <2>8, <2>9, <2>10, <2>11, <2>12, <2>13, <1>3 DEF LaunchSteps
<1>4. ASSUME NEW l \in Attempt, TimerFires(l)
      PROVE  (TearsDown(k) /\ launch'[k].victim = launch[k].victim) \/ ~TearsDown(k)' \/ mem'.eng[launch'[k].victim] \notin Usable
  BY <1>4, TypedParts, TimerFiresDoes DEF elsewhere, Begun, Registered, Usable, Alive, Latch, TearsDown
<1>5. ASSUME NEW q \in Request, NEW kind \in Kinds, CallMade(q, kind)
      PROVE  (TearsDown(k) /\ launch'[k].victim = launch[k].victim) \/ ~TearsDown(k)' \/ mem'.eng[launch'[k].victim] \notin Usable
  <2>1. CASE kind \in {"stop", "delete"} /\ Called(q, kind)
    BY <1>5, <2>1, TypedParts, CalledDoes DEF CallMade, Usable, Alive, Latch, TearsDown
  <2>2. CASE kind \in {"logout", "kill"} /\ EngineCalled(q, kind)
    BY <1>5, <2>2, TypedParts, EngineCalledDoes DEF CallMade, Usable, Alive, Latch, TearsDown
  <2>. QED BY <2>1, <2>2, <1>5 DEF CallMade
<1>6. ASSUME NEW q \in Request, RequestSteps(q)
      PROVE  (TearsDown(k) /\ launch'[k].victim = launch[k].victim) \/ ~TearsDown(k)' \/ mem'.eng[launch'[k].victim] \notin Usable
  <2>1. CASE StopCaptures(q)
    BY <2>1, TypedParts, StopCapturesDoes DEF histVars, Usable, Alive, Latch, TearsDown
  <2>2. CASE WaitEnds(q)
    BY <2>2, TypedParts, WaitEndsDoes DEF histVars, Usable, Alive, Latch, TearsDown
  <2>3. CASE StopCloses(q) \/ LogoutReturns(q) \/ KillEnds(q)
    BY <2>3, TypedParts, ClosesDoes DEF histVars, Usable, Alive, Latch, TearsDown
  <2>4. CASE LogoutOverruns(q)
    BY <2>4, TypedParts, LogoutOverrunsDoes DEF histVars, Usable, Alive, Latch, TearsDown
  <2>5. CASE StopEscalates(q)
    BY <2>5, TypedParts, StopEscalatesDoes DEF histVars, Usable, Alive, Latch, TearsDown
  <2>6. CASE DeleteEnters(q)
    BY <2>6, TypedParts, DeleteEntersDoes DEF DeleteStarts, histVars, Usable, Alive, Latch, TearsDown
  <2>7. CASE DeleteFenceOpens(q)
    BY <2>7, TypedParts, DeleteFenceOpensDoes DEF DeleteStarts, histVars, Usable, Alive, Latch, TearsDown
  <2>8. CASE DeleteRefused(q)
    BY <2>8, TypedParts, DeleteRefusedDoes DEF Usable, Alive, Latch, TearsDown
  <2>9. CASE RowDeleted(q)
    BY <2>9, TypedParts, RowDeletedDoes DEF histVars, Usable, Alive, Latch, TearsDown
  <2>10. CASE NotFound(q) \/ DeleteFails(q) \/ Purged(q)
    BY <2>10, TypedParts, UnmarksDoes DEF histVars, Usable, Alive, Latch, TearsDown
  <2>. QED BY <2>1, <2>2, <2>3, <2>4, <2>5, <2>6, <2>7, <2>8, <2>9, <2>10, <1>6 DEF RequestSteps
<1>7. ASSUME NEW e \in Engine, EngineSteps(e)
      PROVE  (TearsDown(k) /\ launch'[k].victim = launch[k].victim) \/ ~TearsDown(k)' \/ mem'.eng[launch'[k].victim] \notin Usable
  <2>1. CASE KillLands(e) \/ LeakEnds(e)
    BY <2>1, TypedParts, KillLandsDoes DEF others, histVars, Usable, Alive, Latch, TearsDown
  <2>2. CASE RemovalSettles(e)
    BY <2>2, TypedParts DEF RemovalSettles, others, histVars, Usable, Alive, Latch, TearsDown
  <2>3. CASE EngineReady(e) \/ EngineWedges(e)
    BY <2>3, TypedParts, EngineRunsDoes DEF others, histVars, Usable, Alive, Latch, TearsDown
  <2>4. CASE EngineDrops(e) \/ EngineUnlinked(e) \/ EngineFails(e) \/ StuckAuth(e) \/ WipeLands(e)
    BY <2>4, TypedParts, EngineEndsDoes DEF others, histVars, Usable, Alive, Latch, TearsDown
  <2>5. CASE ProbeFails(e) \/ ProbePasses
    BY <2>5, TypedParts, ProbesDoes DEF others, histVars, Usable, Alive, Latch, TearsDown
  <2>6. CASE DropHandled(e)
    BY <2>6, TypedParts, DropHandledDoes DEF Usable, Alive, Latch, TearsDown
  <2>7. CASE DropUnread(e)
    BY <2>7, TypedParts, DropUnreadDoes DEF others, histVars, Usable, Alive, Latch, TearsDown
  <2>. QED BY <2>1, <2>2, <2>3, <2>4, <2>5, <2>6, <2>7, <1>7 DEF EngineSteps
<1>. QED BY <1>1, <1>2, <1>3, <1>4, <1>5, <1>6, <1>7, NextCases


\* So is the engine whose initialisation met its deadline.
LEMMA KilledIsShut ==
    ASSUME Typed, NEW k \in Launcher, [Next]_vars
    PROVE  (launch[k].at = "killing" /\ launch'[k].eng = launch[k].eng) \/ launch'[k].at # "killing" \/ mem'.eng[launch'[k].eng] \notin Usable
<1>1. CASE UNCHANGED vars
  BY <1>1, TypedParts DEF vars, histVars, Usable, Alive, Latch
<1>2. CASE StartSteps
  <2>1. CASE StartCalled
    BY <2>1, TypedParts, StartCalledDoes DEF elsewhere, Begun, Usable, Alive, Latch
  <2>2. CASE HookDone
    BY <2>2, TypedParts, HookDoneDoes DEF elsewhere, Registered, histVars, Usable, Alive, Latch
  <2>3. CASE ReapEnds
    BY <2>3, TypedParts, ReapEndsDoes DEF elsewhere, histVars, Usable, Alive, Latch
  <2>. QED BY <2>1, <2>2, <2>3, <1>2 DEF StartSteps
<1>3. ASSUME NEW l \in Launcher, LaunchSteps(l)
      PROVE  (launch[k].at = "killing" /\ launch'[k].eng = launch[k].eng) \/ launch'[k].at # "killing" \/ mem'.eng[launch'[k].eng] \notin Usable
  <2>1. CASE FenceOpens(l)
    <3>1. CASE l = Start
      BY <2>1, <3>1, TypedParts, FenceOpensDoes DEF elsewhere, histVars, Usable, Alive, Latch
    <3>2. CASE l # Start
      BY <2>1, <3>2, TypedParts, FenceOpensDoes DEF Registered, elsewhere, histVars, Usable, Alive, Latch
    <3>. QED BY <3>1, <3>2
  <2>2. CASE FenceRefuses(l)
    BY <2>2, TypedParts, FenceRefusesDoes DEF elsewhere, Usable, Alive, Latch
  <2>3. CASE WriteSettles(l)
    BY <2>3, TypedParts, WriteSettlesDoes DEF elsewhere, histVars, Usable, Alive, Latch
  <2>4. CASE WriteFails(l)
    BY <2>4, TypedParts, WriteFailsDoes DEF elsewhere, Usable, Alive, Latch
  <2>5. CASE InitResolves(l)
    BY <2>5, TypedParts, InitResolvesDoes DEF elsewhere, histVars, Usable, Alive, Latch
  <2>6. CASE InitRejects(l)
    BY <2>6, TypedParts, InitRejectsDoes DEF elsewhere, Usable, Alive, Latch
  <2>7. CASE InitTimesOut(l)
    BY <2>7, TypedParts, InitTimesOutDoes DEF elsewhere, histVars, Usable, Alive, Latch
  <2>8. CASE LateKillEnds(l)
    BY <2>8, TypedParts, LateKillEndsDoes DEF elsewhere, Usable, Alive, Latch
  <2>9. CASE RowRead(l)
    BY <2>9, TypedParts, RowReadDoes DEF elsewhere, Usable, Alive, Latch
  <2>10. CASE RetireEnds(l) \/ RetireTimesOut(l)
    BY <2>10, TypedParts, RetireEndsDoes DEF elsewhere, histVars, Usable, Alive, Latch
  <2>11. CASE Repurged(l)
    BY <2>11, TypedParts, RepurgedDoes DEF elsewhere, histVars, Usable, Alive, Latch
  <2>12. CASE OldEngineGone(l)
    BY <2>12, TypedParts, OldEngineGoneDoes DEF elsewhere, histVars, Usable, Alive, Latch
  <2>13. CASE DestroyTimesOut(l)
    BY <2>13, TypedParts, DestroyTimesOutDoes DEF elsewhere, histVars, Usable, Alive, Latch
  <2>. QED BY <2>1, <2>2, <2>3, <2>4, <2>5, <2>6, <2>7, <2>8, <2>9, <2>10, <2>11, <2>12, <2>13, <1>3 DEF LaunchSteps
<1>4. ASSUME NEW l \in Attempt, TimerFires(l)
      PROVE  (launch[k].at = "killing" /\ launch'[k].eng = launch[k].eng) \/ launch'[k].at # "killing" \/ mem'.eng[launch'[k].eng] \notin Usable
  BY <1>4, TypedParts, TimerFiresDoes DEF elsewhere, Begun, Registered, Usable, Alive, Latch
<1>5. ASSUME NEW q \in Request, NEW kind \in Kinds, CallMade(q, kind)
      PROVE  (launch[k].at = "killing" /\ launch'[k].eng = launch[k].eng) \/ launch'[k].at # "killing" \/ mem'.eng[launch'[k].eng] \notin Usable
  <2>1. CASE kind \in {"stop", "delete"} /\ Called(q, kind)
    BY <1>5, <2>1, TypedParts, CalledDoes DEF CallMade, Usable, Alive, Latch
  <2>2. CASE kind \in {"logout", "kill"} /\ EngineCalled(q, kind)
    BY <1>5, <2>2, TypedParts, EngineCalledDoes DEF CallMade, Usable, Alive, Latch
  <2>. QED BY <2>1, <2>2, <1>5 DEF CallMade
<1>6. ASSUME NEW q \in Request, RequestSteps(q)
      PROVE  (launch[k].at = "killing" /\ launch'[k].eng = launch[k].eng) \/ launch'[k].at # "killing" \/ mem'.eng[launch'[k].eng] \notin Usable
  <2>1. CASE StopCaptures(q)
    BY <2>1, TypedParts, StopCapturesDoes DEF histVars, Usable, Alive, Latch
  <2>2. CASE WaitEnds(q)
    BY <2>2, TypedParts, WaitEndsDoes DEF histVars, Usable, Alive, Latch
  <2>3. CASE StopCloses(q) \/ LogoutReturns(q) \/ KillEnds(q)
    BY <2>3, TypedParts, ClosesDoes DEF histVars, Usable, Alive, Latch
  <2>4. CASE LogoutOverruns(q)
    BY <2>4, TypedParts, LogoutOverrunsDoes DEF histVars, Usable, Alive, Latch
  <2>5. CASE StopEscalates(q)
    BY <2>5, TypedParts, StopEscalatesDoes DEF histVars, Usable, Alive, Latch
  <2>6. CASE DeleteEnters(q)
    BY <2>6, TypedParts, DeleteEntersDoes DEF DeleteStarts, histVars, Usable, Alive, Latch
  <2>7. CASE DeleteFenceOpens(q)
    BY <2>7, TypedParts, DeleteFenceOpensDoes DEF DeleteStarts, histVars, Usable, Alive, Latch
  <2>8. CASE DeleteRefused(q)
    BY <2>8, TypedParts, DeleteRefusedDoes DEF Usable, Alive, Latch
  <2>9. CASE RowDeleted(q)
    BY <2>9, TypedParts, RowDeletedDoes DEF histVars, Usable, Alive, Latch
  <2>10. CASE NotFound(q) \/ DeleteFails(q) \/ Purged(q)
    BY <2>10, TypedParts, UnmarksDoes DEF histVars, Usable, Alive, Latch
  <2>. QED BY <2>1, <2>2, <2>3, <2>4, <2>5, <2>6, <2>7, <2>8, <2>9, <2>10, <1>6 DEF RequestSteps
<1>7. ASSUME NEW e \in Engine, EngineSteps(e)
      PROVE  (launch[k].at = "killing" /\ launch'[k].eng = launch[k].eng) \/ launch'[k].at # "killing" \/ mem'.eng[launch'[k].eng] \notin Usable
  <2>1. CASE KillLands(e) \/ LeakEnds(e)
    BY <2>1, TypedParts, KillLandsDoes DEF others, histVars, Usable, Alive, Latch
  <2>2. CASE RemovalSettles(e)
    BY <2>2, TypedParts DEF RemovalSettles, others, histVars, Usable, Alive, Latch
  <2>3. CASE EngineReady(e) \/ EngineWedges(e)
    BY <2>3, TypedParts, EngineRunsDoes DEF others, histVars, Usable, Alive, Latch
  <2>4. CASE EngineDrops(e) \/ EngineUnlinked(e) \/ EngineFails(e) \/ StuckAuth(e) \/ WipeLands(e)
    BY <2>4, TypedParts, EngineEndsDoes DEF others, histVars, Usable, Alive, Latch
  <2>5. CASE ProbeFails(e) \/ ProbePasses
    BY <2>5, TypedParts, ProbesDoes DEF others, histVars, Usable, Alive, Latch
  <2>6. CASE DropHandled(e)
    BY <2>6, TypedParts, DropHandledDoes DEF Usable, Alive, Latch
  <2>7. CASE DropUnread(e)
    BY <2>7, TypedParts, DropUnreadDoes DEF others, histVars, Usable, Alive, Latch
  <2>. QED BY <2>1, <2>2, <2>3, <2>4, <2>5, <2>6, <2>7, <1>7 DEF EngineSteps
<1>. QED BY <1>1, <1>2, <1>3, <1>4, <1>5, <1>6, <1>7, NextCases


\* And the engine a call takes down.
LEMMA CapturedIsShut ==
    ASSUME Typed, NEW r \in Request, [Next]_vars
    PROVE  \/ request[r].at \in {"closing", "killing"} /\ request'[r].eng = request[r].eng
           \/ request'[r].at \notin {"closing", "killing"}
           \/ mem'.eng[request'[r].eng] \notin Usable
<1>1. CASE UNCHANGED vars
  BY <1>1, TypedParts DEF vars, histVars, Usable, Alive, Latch
<1>2. CASE StartSteps
  <2>1. CASE StartCalled
    BY <2>1, TypedParts, StartCalledDoes DEF elsewhere, Begun, Usable, Alive, Latch
  <2>2. CASE HookDone
    BY <2>2, TypedParts, HookDoneDoes DEF elsewhere, Registered, histVars, Usable, Alive, Latch
  <2>3. CASE ReapEnds
    BY <2>3, TypedParts, ReapEndsDoes DEF elsewhere, histVars, Usable, Alive, Latch
  <2>. QED BY <2>1, <2>2, <2>3, <1>2 DEF StartSteps
<1>3. ASSUME NEW l \in Launcher, LaunchSteps(l)
      PROVE  \/ request[r].at \in {"closing", "killing"} /\ request'[r].eng = request[r].eng
             \/ request'[r].at \notin {"closing", "killing"}
             \/ mem'.eng[request'[r].eng] \notin Usable
  <2>1. CASE FenceOpens(l)
    <3>1. CASE l = Start
      BY <2>1, <3>1, TypedParts, FenceOpensDoes DEF elsewhere, histVars, Usable, Alive, Latch
    <3>2. CASE l # Start
      BY <2>1, <3>2, TypedParts, FenceOpensDoes DEF Registered, elsewhere, histVars, Usable, Alive, Latch
    <3>. QED BY <3>1, <3>2
  <2>2. CASE FenceRefuses(l)
    BY <2>2, TypedParts, FenceRefusesDoes DEF elsewhere, Usable, Alive, Latch
  <2>3. CASE WriteSettles(l)
    BY <2>3, TypedParts, WriteSettlesDoes DEF elsewhere, histVars, Usable, Alive, Latch
  <2>4. CASE WriteFails(l)
    BY <2>4, TypedParts, WriteFailsDoes DEF elsewhere, Usable, Alive, Latch
  <2>5. CASE InitResolves(l)
    BY <2>5, TypedParts, InitResolvesDoes DEF elsewhere, histVars, Usable, Alive, Latch
  <2>6. CASE InitRejects(l)
    BY <2>6, TypedParts, InitRejectsDoes DEF elsewhere, Usable, Alive, Latch
  <2>7. CASE InitTimesOut(l)
    BY <2>7, TypedParts, InitTimesOutDoes DEF elsewhere, histVars, Usable, Alive, Latch
  <2>8. CASE LateKillEnds(l)
    BY <2>8, TypedParts, LateKillEndsDoes DEF elsewhere, Usable, Alive, Latch
  <2>9. CASE RowRead(l)
    BY <2>9, TypedParts, RowReadDoes DEF elsewhere, Usable, Alive, Latch
  <2>10. CASE RetireEnds(l) \/ RetireTimesOut(l)
    BY <2>10, TypedParts, RetireEndsDoes DEF elsewhere, histVars, Usable, Alive, Latch
  <2>11. CASE Repurged(l)
    BY <2>11, TypedParts, RepurgedDoes DEF elsewhere, histVars, Usable, Alive, Latch
  <2>12. CASE OldEngineGone(l)
    BY <2>12, TypedParts, OldEngineGoneDoes DEF elsewhere, histVars, Usable, Alive, Latch
  <2>13. CASE DestroyTimesOut(l)
    BY <2>13, TypedParts, DestroyTimesOutDoes DEF elsewhere, histVars, Usable, Alive, Latch
  <2>. QED BY <2>1, <2>2, <2>3, <2>4, <2>5, <2>6, <2>7, <2>8, <2>9, <2>10, <2>11, <2>12, <2>13, <1>3 DEF LaunchSteps
<1>4. ASSUME NEW l \in Attempt, TimerFires(l)
      PROVE  \/ request[r].at \in {"closing", "killing"} /\ request'[r].eng = request[r].eng
             \/ request'[r].at \notin {"closing", "killing"}
             \/ mem'.eng[request'[r].eng] \notin Usable
  BY <1>4, TypedParts, TimerFiresDoes DEF elsewhere, Begun, Registered, Usable, Alive, Latch
<1>5. ASSUME NEW q \in Request, NEW kind \in Kinds, CallMade(q, kind)
      PROVE  \/ request[r].at \in {"closing", "killing"} /\ request'[r].eng = request[r].eng
             \/ request'[r].at \notin {"closing", "killing"}
             \/ mem'.eng[request'[r].eng] \notin Usable
  <2>1. CASE kind \in {"stop", "delete"} /\ Called(q, kind)
    BY <1>5, <2>1, TypedParts, CalledDoes DEF CallMade, Usable, Alive, Latch
  <2>2. CASE kind \in {"logout", "kill"} /\ EngineCalled(q, kind)
    <3>1. CASE r = q
      <4>1. \/ request'[q].at \notin {"closing", "killing"}
            \/ /\ mem.registry \in Engine /\ request'[q].eng = mem.registry
               /\ mem'.eng[mem.registry] = Latch(mem.eng[mem.registry])
        BY <1>5, <2>2, EngineCalledDoes
      <4>. QED BY <3>1, <4>1 DEF Latch, Usable, Alive
    <3>2. CASE r # q
      <4>1. request'[r] = request[r]
        BY <3>2, <1>5, <2>2, EngineCalledDoes
      <4>. QED BY <4>1, <3>2
    <3>. QED BY <3>1, <3>2
  <2>. QED BY <2>1, <2>2, <1>5 DEF CallMade
<1>6. ASSUME NEW q \in Request, RequestSteps(q)
      PROVE  \/ request[r].at \in {"closing", "killing"} /\ request'[r].eng = request[r].eng
             \/ request'[r].at \notin {"closing", "killing"}
             \/ mem'.eng[request'[r].eng] \notin Usable
  <2>1. CASE StopCaptures(q)
    BY <2>1, TypedParts, StopCapturesDoes DEF histVars, Usable, Alive, Latch
  <2>2. CASE WaitEnds(q)
    BY <2>2, TypedParts, WaitEndsDoes DEF histVars, Usable, Alive, Latch
  <2>3. CASE StopCloses(q) \/ LogoutReturns(q) \/ KillEnds(q)
    BY <2>3, TypedParts, ClosesDoes DEF histVars, Usable, Alive, Latch
  <2>4. CASE LogoutOverruns(q)
    BY <2>4, TypedParts, LogoutOverrunsDoes DEF histVars, Usable, Alive, Latch
  <2>5. CASE StopEscalates(q)
    BY <2>5, TypedParts, StopEscalatesDoes DEF histVars, Usable, Alive, Latch
  <2>6. CASE DeleteEnters(q)
    <3>1. CASE r = q
      <4>1. \/ request'[q].at \notin {"closing", "killing"}
            \/ /\ mem.registry \in Engine /\ request'[q].eng = mem.registry
               /\ mem'.eng[mem.registry] = Latch(mem.eng[mem.registry])
        BY <2>6, DeleteEntersDoes DEF DeleteStarts
      <4>. QED BY <3>1, <4>1 DEF Latch, Usable, Alive
    <3>2. CASE r # q
      <4>1. request'[r] = request[r]
        BY <3>2, <2>6, DeleteEntersDoes DEF DeleteStarts
      <4>. QED BY <4>1, <3>2
    <3>. QED BY <3>1, <3>2
  <2>7. CASE DeleteFenceOpens(q)
    <3>1. CASE r = q
      <4>1. \/ request'[q].at \notin {"closing", "killing"}
            \/ /\ mem.registry \in Engine /\ request'[q].eng = mem.registry
               /\ mem'.eng[mem.registry] = Latch(mem.eng[mem.registry])
        BY <2>7, DeleteFenceOpensDoes DEF DeleteStarts
      <4>. QED BY <3>1, <4>1 DEF Latch, Usable, Alive
    <3>2. CASE r # q
      <4>1. request'[r] = request[r]
        BY <3>2, <2>7, DeleteFenceOpensDoes DEF DeleteStarts
      <4>. QED BY <4>1, <3>2
    <3>. QED BY <3>1, <3>2
  <2>8. CASE DeleteRefused(q)
    BY <2>8, TypedParts, DeleteRefusedDoes DEF Usable, Alive, Latch
  <2>9. CASE RowDeleted(q)
    BY <2>9, TypedParts, RowDeletedDoes DEF histVars, Usable, Alive, Latch
  <2>10. CASE NotFound(q) \/ DeleteFails(q) \/ Purged(q)
    BY <2>10, TypedParts, UnmarksDoes DEF histVars, Usable, Alive, Latch
  <2>. QED BY <2>1, <2>2, <2>3, <2>4, <2>5, <2>6, <2>7, <2>8, <2>9, <2>10, <1>6 DEF RequestSteps
<1>7. ASSUME NEW e \in Engine, EngineSteps(e)
      PROVE  \/ request[r].at \in {"closing", "killing"} /\ request'[r].eng = request[r].eng
             \/ request'[r].at \notin {"closing", "killing"}
             \/ mem'.eng[request'[r].eng] \notin Usable
  <2>1. CASE KillLands(e) \/ LeakEnds(e)
    BY <2>1, TypedParts, KillLandsDoes DEF others, histVars, Usable, Alive, Latch
  <2>2. CASE RemovalSettles(e)
    BY <2>2, TypedParts DEF RemovalSettles, others, histVars, Usable, Alive, Latch
  <2>3. CASE EngineReady(e) \/ EngineWedges(e)
    BY <2>3, TypedParts, EngineRunsDoes DEF others, histVars, Usable, Alive, Latch
  <2>4. CASE EngineDrops(e) \/ EngineUnlinked(e) \/ EngineFails(e) \/ StuckAuth(e) \/ WipeLands(e)
    BY <2>4, TypedParts, EngineEndsDoes DEF others, histVars, Usable, Alive, Latch
  <2>5. CASE ProbeFails(e) \/ ProbePasses
    BY <2>5, TypedParts, ProbesDoes DEF others, histVars, Usable, Alive, Latch
  <2>6. CASE DropHandled(e)
    BY <2>6, TypedParts, DropHandledDoes DEF Usable, Alive, Latch
  <2>7. CASE DropUnread(e)
    BY <2>7, TypedParts, DropUnreadDoes DEF others, histVars, Usable, Alive, Latch
  <2>. QED BY <2>1, <2>2, <2>3, <2>4, <2>5, <2>6, <2>7, <1>7 DEF EngineSteps
<1>. QED BY <1>1, <1>2, <1>3, <1>4, <1>5, <1>6, <1>7, NextCases


\* Every step keeps it.
LEMMA ClosedStep ==
    ASSUME Typed, Closed, [Next]_vars, Typed'
    PROVE  Closed'
<1>1. ASSUME NEW l \in Launcher, TearsDown(l)'
      PROVE  mem'.eng[launch'[l].victim] \notin Usable
  <2>1. CASE TearsDown(l) /\ launch'[l].victim = launch[l].victim
    <3>1. launch[l].victim \in Engine /\ launch[l].victim \in Held /\ mem.eng[launch[l].victim] \notin Usable
      BY <2>1, TypedShapes DEF LaunchShape, LaunchFits, Held, Closed
    <3>. QED BY <2>1, <3>1, UnusableStays
  <2>. QED BY <1>1, <2>1, VictimIsShut
<1>2. ASSUME NEW l \in Launcher, launch'[l].at = "killing"
      PROVE  mem'.eng[launch'[l].eng] \notin Usable
  <2>1. CASE launch[l].at = "killing" /\ launch'[l].eng = launch[l].eng
    <3>1. launch[l].eng \in Engine /\ launch[l].eng \in Held /\ mem.eng[launch[l].eng] \notin Usable
      BY <2>1, TypedShapes DEF LaunchShape, LaunchFits, Held, Closed
    <3>. QED BY <2>1, <3>1, UnusableStays
  <2>. QED BY <1>2, <2>1, KilledIsShut
<1>3. ASSUME NEW q \in Request, request'[q].at \in {"closing", "killing"}
      PROVE  mem'.eng[request'[q].eng] \notin Usable
  <2>1. CASE request[q].at \in {"closing", "killing"} /\ request'[q].eng = request[q].eng
    <3>1. request[q].eng \in Engine /\ request[q].eng \in Held /\ mem.eng[request[q].eng] \notin Usable
      BY <2>1, TypedShapes DEF RequestShape, RequestFits, Captured, Held, Closed
    <3>. QED BY <2>1, <3>1, UnusableStays
  <2>. QED BY <1>3, <2>1, CapturedIsShut
<1>. QED BY <1>1, <1>2, <1>3 DEF Closed

\* An engine leaves the registry when it can no longer serve.
LEMMA RegistryLetsGo ==
    ASSUME Typed, Closed, \A l \in Launcher : Placed(l), NEW f \in Engine, mem.registry = f, mem'.registry # f, [Next]_vars
    PROVE  mem'.eng[f] \notin Usable
<1>0. /\ \A l \in Launcher : LaunchFits(l) /\ Placed(l)
      /\ \A q \in Request : RequestFits(q)
  BY TypedShapes DEF LaunchShape, RequestShape
<1>1. CASE UNCHANGED vars
  BY <1>1, TypedParts, <1>0 DEF vars, histVars, Usable, Alive, Latch, Placed, LaunchFits, RequestFits, Captured, TearsDown, Closed
<1>2. CASE StartSteps
  <2>1. CASE StartCalled
    BY <2>1, TypedParts, <1>0, StartCalledDoes DEF elsewhere, Begun, Usable, Alive, Latch, Placed, LaunchFits, RequestFits, Captured, TearsDown, Closed
  <2>2. CASE HookDone
    BY <2>2, TypedParts, <1>0, HookDoneDoes DEF elsewhere, Registered, histVars, Usable, Alive, Latch, Placed, LaunchFits, RequestFits, Captured, TearsDown, Closed
  <2>3. CASE ReapEnds
    BY <2>3, TypedParts, <1>0, ReapEndsDoes DEF elsewhere, histVars, Usable, Alive, Latch, Placed, LaunchFits, RequestFits, Captured, TearsDown, Closed
  <2>. QED BY <2>1, <2>2, <2>3, <1>2 DEF StartSteps
<1>3. ASSUME NEW l \in Launcher, LaunchSteps(l)
      PROVE  mem'.eng[f] \notin Usable
  <2>1. CASE FenceOpens(l)
    <3>1. CASE l = Start
      BY <1>0, <2>1, <3>1, TypedParts, FenceOpensDoes DEF elsewhere, histVars, Usable, Alive, Latch, Placed
    <3>2. CASE l # Start
      BY <1>0, <2>1, <3>2, TypedParts, FenceOpensDoes DEF Registered, elsewhere, histVars, Usable, Alive, Latch, Placed
    <3>. QED BY <3>1, <3>2
  <2>2. CASE FenceRefuses(l)
    BY <2>2, TypedParts, <1>0, FenceRefusesDoes DEF elsewhere, Usable, Alive, Latch, Placed, LaunchFits, RequestFits, Captured, TearsDown, Closed
  <2>3. CASE WriteSettles(l)
    BY <2>3, TypedParts, <1>0, WriteSettlesDoes DEF elsewhere, histVars, Usable, Alive, Latch, Placed, LaunchFits, RequestFits, Captured, TearsDown, Closed
  <2>4. CASE WriteFails(l)
    BY <2>4, TypedParts, <1>0, WriteFailsDoes DEF elsewhere, Usable, Alive, Latch, Placed, LaunchFits, RequestFits, Captured, TearsDown, Closed
  <2>5. CASE InitResolves(l)
    BY <2>5, TypedParts, <1>0, InitResolvesDoes DEF elsewhere, histVars, Usable, Alive, Latch, Placed, LaunchFits, RequestFits, Captured, TearsDown, Closed
  <2>6. CASE InitRejects(l)
    BY <2>6, TypedParts, <1>0, InitRejectsDoes DEF elsewhere, Usable, Alive, Latch, Placed, LaunchFits, RequestFits, Captured, TearsDown, Closed
  <2>7. CASE InitTimesOut(l)
    BY <2>7, TypedParts, <1>0, InitTimesOutDoes DEF elsewhere, histVars, Usable, Alive, Latch, Placed, LaunchFits, RequestFits, Captured, TearsDown, Closed
  <2>8. CASE LateKillEnds(l)
    BY <2>8, TypedParts, <1>0, LateKillEndsDoes DEF elsewhere, Usable, Alive, Latch, Placed, LaunchFits, RequestFits, Captured, TearsDown, Closed
  <2>9. CASE RowRead(l)
    BY <2>9, TypedParts, <1>0, RowReadDoes DEF elsewhere, Usable, Alive, Latch, Placed, LaunchFits, RequestFits, Captured, TearsDown, Closed
  <2>10. CASE RetireEnds(l) \/ RetireTimesOut(l)
    BY <2>10, TypedParts, <1>0, RetireEndsDoes DEF elsewhere, histVars, Usable, Alive, Latch, Placed, LaunchFits, RequestFits, Captured, TearsDown, Closed
  <2>11. CASE Repurged(l)
    BY <2>11, RepurgedDoes
  <2>12. CASE OldEngineGone(l)
    BY <2>12, TypedParts, <1>0, OldEngineGoneDoes DEF elsewhere, histVars, Usable, Alive, Latch, Placed, LaunchFits, RequestFits, Captured, TearsDown, Closed
  <2>13. CASE DestroyTimesOut(l)
    BY <2>13, TypedParts, <1>0, DestroyTimesOutDoes DEF elsewhere, histVars, Usable, Alive, Latch, Placed, LaunchFits, RequestFits, Captured, TearsDown, Closed
  <2>. QED BY <2>1, <2>2, <2>3, <2>4, <2>5, <2>6, <2>7, <2>8, <2>9, <2>10, <2>11, <2>12, <2>13, <1>3 DEF LaunchSteps
<1>4. ASSUME NEW l \in Attempt, TimerFires(l)
      PROVE  mem'.eng[f] \notin Usable
  BY <1>4, TypedParts, <1>0, TimerFiresDoes DEF elsewhere, Begun, Registered, Usable, Alive, Latch, Placed, LaunchFits, RequestFits, Captured, TearsDown, Closed
<1>5. ASSUME NEW q \in Request, NEW kind \in Kinds, CallMade(q, kind)
      PROVE  mem'.eng[f] \notin Usable
  <2>1. CASE kind \in {"stop", "delete"} /\ Called(q, kind)
    BY <1>5, <2>1, TypedParts, <1>0, CalledDoes DEF CallMade, Usable, Alive, Latch, Placed, LaunchFits, RequestFits, Captured, TearsDown, Closed
  <2>2. CASE kind \in {"logout", "kill"} /\ EngineCalled(q, kind)
    BY <1>5, <2>2, TypedParts, <1>0, EngineCalledDoes DEF CallMade, Usable, Alive, Latch, Placed, LaunchFits, RequestFits, Captured, TearsDown, Closed
  <2>. QED BY <2>1, <2>2, <1>5 DEF CallMade
<1>6. ASSUME NEW q \in Request, RequestSteps(q)
      PROVE  mem'.eng[f] \notin Usable
  <2>1. CASE StopCaptures(q)
    BY <2>1, TypedParts, <1>0, StopCapturesDoes DEF histVars, Usable, Alive, Latch, Placed, LaunchFits, RequestFits, Captured, TearsDown, Closed
  <2>2. CASE WaitEnds(q)
    BY <2>2, TypedParts, <1>0, WaitEndsDoes DEF histVars, Usable, Alive, Latch, Placed, LaunchFits, RequestFits, Captured, TearsDown, Closed
  <2>3. CASE StopCloses(q) \/ LogoutReturns(q) \/ KillEnds(q)
    BY <2>3, TypedParts, ClosesDoes DEF Usable, Alive
  <2>4. CASE LogoutOverruns(q)
    BY <2>4, TypedParts, LogoutOverrunsDoes DEF Closed
  <2>5. CASE StopEscalates(q)
    BY <2>5, TypedParts, <1>0, StopEscalatesDoes DEF histVars, Usable, Alive, Latch, Placed, LaunchFits, RequestFits, Captured, TearsDown, Closed
  <2>6. CASE DeleteEnters(q)
    BY <2>6, TypedParts, <1>0, DeleteEntersDoes DEF DeleteStarts, histVars, Usable, Alive, Latch, Placed, LaunchFits, RequestFits, Captured, TearsDown, Closed
  <2>7. CASE DeleteFenceOpens(q)
    BY <2>7, TypedParts, <1>0, DeleteFenceOpensDoes DEF DeleteStarts, histVars, Usable, Alive, Latch, Placed, LaunchFits, RequestFits, Captured, TearsDown, Closed
  <2>8. CASE DeleteRefused(q)
    BY <2>8, TypedParts, <1>0, DeleteRefusedDoes DEF Usable, Alive, Latch, Placed, LaunchFits, RequestFits, Captured, TearsDown, Closed
  <2>9. CASE RowDeleted(q)
    BY <2>9, TypedParts, <1>0, RowDeletedDoes DEF histVars, Usable, Alive, Latch, Placed, LaunchFits, RequestFits, Captured, TearsDown, Closed
  <2>10. CASE NotFound(q) \/ DeleteFails(q) \/ Purged(q)
    BY <2>10, TypedParts, <1>0, UnmarksDoes DEF histVars, Usable, Alive, Latch, Placed, LaunchFits, RequestFits, Captured, TearsDown, Closed
  <2>. QED BY <2>1, <2>2, <2>3, <2>4, <2>5, <2>6, <2>7, <2>8, <2>9, <2>10, <1>6 DEF RequestSteps
<1>7. ASSUME NEW e \in Engine, EngineSteps(e)
      PROVE  mem'.eng[f] \notin Usable
  <2>1. CASE KillLands(e) \/ LeakEnds(e)
    BY <2>1, TypedParts, <1>0, KillLandsDoes DEF others, histVars, Usable, Alive, Latch, Placed, LaunchFits, RequestFits, Captured, TearsDown, Closed
  <2>2. CASE RemovalSettles(e)
    BY <2>2, TypedParts, <1>0 DEF RemovalSettles, others, histVars, Usable, Alive, Latch, Placed, LaunchFits, RequestFits, Captured, TearsDown, Closed
  <2>3. CASE EngineReady(e) \/ EngineWedges(e)
    BY <2>3, TypedParts, <1>0, EngineRunsDoes DEF others, histVars, Usable, Alive, Latch, Placed, LaunchFits, RequestFits, Captured, TearsDown, Closed
  <2>4. CASE EngineDrops(e) \/ EngineUnlinked(e) \/ EngineFails(e) \/ StuckAuth(e) \/ WipeLands(e)
    BY <2>4, TypedParts, <1>0, EngineEndsDoes DEF others, histVars, Usable, Alive, Latch, Placed, LaunchFits, RequestFits, Captured, TearsDown, Closed
  <2>5. CASE ProbeFails(e) \/ ProbePasses
    BY <2>5, TypedParts, <1>0, ProbesDoes DEF others, histVars, Usable, Alive, Latch, Placed, LaunchFits, RequestFits, Captured, TearsDown, Closed
  <2>6. CASE DropHandled(e)
    BY <2>6, TypedParts, <1>0, DropHandledDoes DEF Usable, Alive, Latch, Placed, LaunchFits, RequestFits, Captured, TearsDown, Closed
  <2>7. CASE DropUnread(e)
    BY <2>7, TypedParts, <1>0, DropUnreadDoes DEF others, histVars, Usable, Alive, Latch, Placed, LaunchFits, RequestFits, Captured, TearsDown, Closed
  <2>. QED BY <2>1, <2>2, <2>3, <2>4, <2>5, <2>6, <2>7, <1>7 DEF EngineSteps
<1>. QED BY <1>1, <1>2, <1>3, <1>4, <1>5, <1>6, <1>7, NextCases


\* One engine at most can serve, and the registry names it.
Sole == \A f \in Engine : mem.eng[f] \in Usable => mem.registry = f

\* Every step keeps it.
LEMMA SoleStep ==
    ASSUME Typed, Closed, \A l \in Launcher : Placed(l), Sole, [Next]_vars
    PROVE  Sole'
<1> SUFFICES ASSUME NEW f \in Engine, mem'.eng[f] \in Usable
             PROVE  mem'.registry = f
  BY DEF Sole
<1>1. CASE mem.eng[f] \in Usable
  BY <1>1, RegistryLetsGo DEF Sole
<1>2. CASE mem.eng[f] \notin Usable
  BY <1>2, NewlyUsable
<1>. QED BY <1>1, <1>2
\* A launch waits for the removals it finds pending before it goes on.
LEMMA FenceHolds ==
    ASSUME Typed, NEW k \in Launcher, [Next]_vars
    PROVE  \/ launch'[k] = launch[k] \/ launch'[k].at \notin {"fenced", "hook", "writing"}
           \/ /\ removing' = removing
              /\ \/ removing = {} \/ launch[k].at = "hook"
                 \/ launch[k].at = "fenced" /\ launch[k].waits \cap removing = {}
                 \/ launch'[k].at = "fenced" /\ launch'[k].waits = removing
<1>1. CASE UNCHANGED vars
  BY <1>1, TypedParts DEF vars, histVars
<1>2. CASE StartSteps
  <2>1. CASE StartCalled
    BY <2>1, TypedParts, StartCalledDoes DEF elsewhere, Begun
  <2>2. CASE HookDone
    BY <2>2, TypedParts, HookDoneDoes DEF elsewhere, Registered, histVars
  <2>3. CASE ReapEnds
    BY <2>3, TypedParts, ReapEndsDoes DEF elsewhere, histVars
  <2>. QED BY <2>1, <2>2, <2>3, <1>2 DEF StartSteps
<1>3. ASSUME NEW l \in Launcher, LaunchSteps(l)
      PROVE  \/ launch'[k] = launch[k] \/ launch'[k].at \notin {"fenced", "hook", "writing"}
             \/ /\ removing' = removing
                /\ \/ removing = {} \/ launch[k].at = "hook"
                   \/ launch[k].at = "fenced" /\ launch[k].waits \cap removing = {}
                   \/ launch'[k].at = "fenced" /\ launch'[k].waits = removing
  <2>1. CASE FenceOpens(l)
    <3>1. CASE l = Start
      BY <2>1, <3>1, TypedParts, FenceOpensDoes DEF elsewhere, histVars
    <3>2. CASE l # Start
      BY <2>1, <3>2, TypedParts, FenceOpensDoes DEF Registered, elsewhere, histVars
    <3>. QED BY <3>1, <3>2
  <2>2. CASE FenceRefuses(l)
    BY <2>2, TypedParts, FenceRefusesDoes DEF elsewhere
  <2>3. CASE WriteSettles(l)
    BY <2>3, TypedParts, WriteSettlesDoes DEF elsewhere, histVars
  <2>4. CASE WriteFails(l)
    BY <2>4, TypedParts, WriteFailsDoes DEF elsewhere
  <2>5. CASE InitResolves(l)
    BY <2>5, TypedParts, InitResolvesDoes DEF elsewhere, histVars
  <2>6. CASE InitRejects(l)
    BY <2>6, TypedParts, InitRejectsDoes DEF elsewhere
  <2>7. CASE InitTimesOut(l)
    BY <2>7, TypedParts, InitTimesOutDoes DEF elsewhere, histVars
  <2>8. CASE LateKillEnds(l)
    BY <2>8, TypedParts, LateKillEndsDoes DEF elsewhere
  <2>9. CASE RowRead(l)
    BY <2>9, TypedParts, RowReadDoes DEF elsewhere
  <2>10. CASE RetireEnds(l) \/ RetireTimesOut(l)
    BY <2>10, TypedParts, RetireEndsDoes DEF elsewhere, histVars
  <2>11. CASE Repurged(l)
    BY <2>11, TypedParts, RepurgedDoes DEF elsewhere, histVars
  <2>12. CASE OldEngineGone(l)
    BY <2>12, TypedParts, OldEngineGoneDoes DEF elsewhere, histVars
  <2>13. CASE DestroyTimesOut(l)
    BY <2>13, TypedParts, DestroyTimesOutDoes DEF elsewhere, histVars
  <2>. QED BY <2>1, <2>2, <2>3, <2>4, <2>5, <2>6, <2>7, <2>8, <2>9, <2>10, <2>11, <2>12, <2>13, <1>3 DEF LaunchSteps
<1>4. ASSUME NEW l \in Attempt, TimerFires(l)
      PROVE  \/ launch'[k] = launch[k] \/ launch'[k].at \notin {"fenced", "hook", "writing"}
             \/ /\ removing' = removing
                /\ \/ removing = {} \/ launch[k].at = "hook"
                   \/ launch[k].at = "fenced" /\ launch[k].waits \cap removing = {}
                   \/ launch'[k].at = "fenced" /\ launch'[k].waits = removing
  BY <1>4, TypedParts, TimerFiresDoes DEF elsewhere, Begun, Registered
<1>5. ASSUME NEW q \in Request, NEW kind \in Kinds, CallMade(q, kind)
      PROVE  \/ launch'[k] = launch[k] \/ launch'[k].at \notin {"fenced", "hook", "writing"}
             \/ /\ removing' = removing
                /\ \/ removing = {} \/ launch[k].at = "hook"
                   \/ launch[k].at = "fenced" /\ launch[k].waits \cap removing = {}
                   \/ launch'[k].at = "fenced" /\ launch'[k].waits = removing
  <2>1. CASE kind \in {"stop", "delete"} /\ Called(q, kind)
    BY <1>5, <2>1, TypedParts, CalledDoes DEF CallMade
  <2>2. CASE kind \in {"logout", "kill"} /\ EngineCalled(q, kind)
    BY <1>5, <2>2, TypedParts, EngineCalledDoes DEF CallMade
  <2>. QED BY <2>1, <2>2, <1>5 DEF CallMade
<1>6. ASSUME NEW q \in Request, RequestSteps(q)
      PROVE  \/ launch'[k] = launch[k] \/ launch'[k].at \notin {"fenced", "hook", "writing"}
             \/ /\ removing' = removing
                /\ \/ removing = {} \/ launch[k].at = "hook"
                   \/ launch[k].at = "fenced" /\ launch[k].waits \cap removing = {}
                   \/ launch'[k].at = "fenced" /\ launch'[k].waits = removing
  <2>1. CASE StopCaptures(q)
    BY <2>1, TypedParts, StopCapturesDoes DEF histVars
  <2>2. CASE WaitEnds(q)
    BY <2>2, TypedParts, WaitEndsDoes DEF histVars
  <2>3. CASE StopCloses(q) \/ LogoutReturns(q) \/ KillEnds(q)
    BY <2>3, TypedParts, ClosesDoes DEF histVars
  <2>4. CASE LogoutOverruns(q)
    BY <2>4, TypedParts, LogoutOverrunsDoes DEF histVars
  <2>5. CASE StopEscalates(q)
    BY <2>5, TypedParts, StopEscalatesDoes DEF histVars
  <2>6. CASE DeleteEnters(q)
    BY <2>6, TypedParts, DeleteEntersDoes DEF DeleteStarts, histVars
  <2>7. CASE DeleteFenceOpens(q)
    BY <2>7, TypedParts, DeleteFenceOpensDoes DEF DeleteStarts, histVars
  <2>8. CASE DeleteRefused(q)
    BY <2>8, TypedParts, DeleteRefusedDoes
  <2>9. CASE RowDeleted(q)
    BY <2>9, TypedParts, RowDeletedDoes DEF histVars
  <2>10. CASE NotFound(q) \/ DeleteFails(q) \/ Purged(q)
    BY <2>10, TypedParts, UnmarksDoes DEF histVars
  <2>. QED BY <2>1, <2>2, <2>3, <2>4, <2>5, <2>6, <2>7, <2>8, <2>9, <2>10, <1>6 DEF RequestSteps
<1>7. ASSUME NEW e \in Engine, EngineSteps(e)
      PROVE  \/ launch'[k] = launch[k] \/ launch'[k].at \notin {"fenced", "hook", "writing"}
             \/ /\ removing' = removing
                /\ \/ removing = {} \/ launch[k].at = "hook"
                   \/ launch[k].at = "fenced" /\ launch[k].waits \cap removing = {}
                   \/ launch'[k].at = "fenced" /\ launch'[k].waits = removing
  <2>1. CASE KillLands(e) \/ LeakEnds(e)
    BY <2>1, TypedParts, KillLandsDoes DEF others, histVars
  <2>2. CASE RemovalSettles(e)
    BY <2>2, TypedParts DEF RemovalSettles, others, histVars
  <2>3. CASE EngineReady(e) \/ EngineWedges(e)
    BY <2>3, TypedParts, EngineRunsDoes DEF others, histVars
  <2>4. CASE EngineDrops(e) \/ EngineUnlinked(e) \/ EngineFails(e) \/ StuckAuth(e) \/ WipeLands(e)
    BY <2>4, TypedParts, EngineEndsDoes DEF others, histVars
  <2>5. CASE ProbeFails(e) \/ ProbePasses
    BY <2>5, TypedParts, ProbesDoes DEF others, histVars
  <2>6. CASE DropHandled(e)
    BY <2>6, TypedParts, DropHandledDoes
  <2>7. CASE DropUnread(e)
    BY <2>7, TypedParts, DropUnreadDoes DEF others, histVars
  <2>. QED BY <2>1, <2>2, <2>3, <2>4, <2>5, <2>6, <2>7, <1>7 DEF EngineSteps
<1>. QED BY <1>1, <1>2, <1>3, <1>4, <1>5, <1>6, <1>7, NextCases


\* A launch begins with start() or with the reconnect timer.
LEMMA UnbornBegins ==
    ASSUME Typed, NEW k \in Launcher, [Next]_vars
    PROVE  \/ Unborn(k) \/ ~Unborn(k)'
           \/ Begun /\ launch[k].at = "idle" /\ request' = request /\ row' = row /\ (row \/ mem.recon.armed)
<1>1. CASE UNCHANGED vars
  BY <1>1, TypedParts DEF vars, histVars, Unborn
<1>2. CASE StartSteps
  <2>1. CASE StartCalled
    BY <2>1, TypedParts, StartCalledDoes DEF elsewhere, Begun, Unborn
  <2>2. CASE HookDone
    BY <2>2, TypedParts, HookDoneDoes DEF elsewhere, Registered, histVars, Unborn
  <2>3. CASE ReapEnds
    BY <2>3, TypedParts, ReapEndsDoes DEF elsewhere, histVars, Unborn
  <2>. QED BY <2>1, <2>2, <2>3, <1>2 DEF StartSteps
<1>3. ASSUME NEW l \in Launcher, LaunchSteps(l)
      PROVE  \/ Unborn(k) \/ ~Unborn(k)'
             \/ Begun /\ launch[k].at = "idle" /\ request' = request /\ row' = row /\ (row \/ mem.recon.armed)
  <2>1. CASE FenceOpens(l)
    <3>1. CASE l = Start
      BY <2>1, <3>1, TypedParts, FenceOpensDoes DEF elsewhere, histVars, Unborn
    <3>2. CASE l # Start
      BY <2>1, <3>2, TypedParts, FenceOpensDoes DEF Registered, elsewhere, histVars, Unborn
    <3>. QED BY <3>1, <3>2
  <2>2. CASE FenceRefuses(l)
    BY <2>2, TypedParts, FenceRefusesDoes DEF elsewhere, Unborn
  <2>3. CASE WriteSettles(l)
    BY <2>3, TypedParts, WriteSettlesDoes DEF elsewhere, histVars, Unborn
  <2>4. CASE WriteFails(l)
    BY <2>4, TypedParts, WriteFailsDoes DEF elsewhere, Unborn
  <2>5. CASE InitResolves(l)
    BY <2>5, TypedParts, InitResolvesDoes DEF elsewhere, histVars, Unborn
  <2>6. CASE InitRejects(l)
    BY <2>6, TypedParts, InitRejectsDoes DEF elsewhere, Unborn
  <2>7. CASE InitTimesOut(l)
    BY <2>7, TypedParts, InitTimesOutDoes DEF elsewhere, histVars, Unborn
  <2>8. CASE LateKillEnds(l)
    BY <2>8, TypedParts, LateKillEndsDoes DEF elsewhere, Unborn
  <2>9. CASE RowRead(l)
    BY <2>9, TypedParts, RowReadDoes DEF elsewhere, Unborn
  <2>10. CASE RetireEnds(l) \/ RetireTimesOut(l)
    BY <2>10, TypedParts, RetireEndsDoes DEF elsewhere, histVars, Unborn
  <2>11. CASE Repurged(l)
    BY <2>11, TypedParts, RepurgedDoes DEF elsewhere, histVars, Unborn
  <2>12. CASE OldEngineGone(l)
    BY <2>12, TypedParts, OldEngineGoneDoes DEF elsewhere, histVars, Unborn
  <2>13. CASE DestroyTimesOut(l)
    BY <2>13, TypedParts, DestroyTimesOutDoes DEF elsewhere, histVars, Unborn
  <2>. QED BY <2>1, <2>2, <2>3, <2>4, <2>5, <2>6, <2>7, <2>8, <2>9, <2>10, <2>11, <2>12, <2>13, <1>3 DEF LaunchSteps
<1>4. ASSUME NEW l \in Attempt, TimerFires(l)
      PROVE  \/ Unborn(k) \/ ~Unborn(k)'
             \/ Begun /\ launch[k].at = "idle" /\ request' = request /\ row' = row /\ (row \/ mem.recon.armed)
  <2>1. request' = request /\ row' = row /\ launch[l].at = "idle" /\ mem.recon.armed
    BY <1>4, TimerFiresDoes DEF elsewhere
  <2>2. Begun \/ launch' = launch
    BY <1>4, TimerFiresDoes
  <2>3. \A j \in Launcher : j # l => launch'[j] = launch[j]
    BY <1>4, TypedParts, TimerFiresDoes DEF Registered
  <2>. QED BY <2>1, <2>2, <2>3 DEF Unborn
<1>5. ASSUME NEW q \in Request, NEW kind \in Kinds, CallMade(q, kind)
      PROVE  \/ Unborn(k) \/ ~Unborn(k)'
             \/ Begun /\ launch[k].at = "idle" /\ request' = request /\ row' = row /\ (row \/ mem.recon.armed)
  <2>1. CASE kind \in {"stop", "delete"} /\ Called(q, kind)
    BY <1>5, <2>1, TypedParts, CalledDoes DEF CallMade, Unborn
  <2>2. CASE kind \in {"logout", "kill"} /\ EngineCalled(q, kind)
    BY <1>5, <2>2, TypedParts, EngineCalledDoes DEF CallMade, Unborn
  <2>. QED BY <2>1, <2>2, <1>5 DEF CallMade
<1>6. ASSUME NEW q \in Request, RequestSteps(q)
      PROVE  \/ Unborn(k) \/ ~Unborn(k)'
             \/ Begun /\ launch[k].at = "idle" /\ request' = request /\ row' = row /\ (row \/ mem.recon.armed)
  <2>1. CASE StopCaptures(q)
    BY <2>1, TypedParts, StopCapturesDoes DEF histVars, Unborn
  <2>2. CASE WaitEnds(q)
    BY <2>2, TypedParts, WaitEndsDoes DEF histVars, Unborn
  <2>3. CASE StopCloses(q) \/ LogoutReturns(q) \/ KillEnds(q)
    BY <2>3, TypedParts, ClosesDoes DEF histVars, Unborn
  <2>4. CASE LogoutOverruns(q)
    BY <2>4, TypedParts, LogoutOverrunsDoes DEF histVars, Unborn
  <2>5. CASE StopEscalates(q)
    BY <2>5, TypedParts, StopEscalatesDoes DEF histVars, Unborn
  <2>6. CASE DeleteEnters(q)
    BY <2>6, TypedParts, DeleteEntersDoes DEF DeleteStarts, histVars, Unborn
  <2>7. CASE DeleteFenceOpens(q)
    BY <2>7, TypedParts, DeleteFenceOpensDoes DEF DeleteStarts, histVars, Unborn
  <2>8. CASE DeleteRefused(q)
    BY <2>8, TypedParts, DeleteRefusedDoes DEF Unborn
  <2>9. CASE RowDeleted(q)
    BY <2>9, TypedParts, RowDeletedDoes DEF histVars, Unborn
  <2>10. CASE NotFound(q) \/ DeleteFails(q) \/ Purged(q)
    BY <2>10, TypedParts, UnmarksDoes DEF histVars, Unborn
  <2>. QED BY <2>1, <2>2, <2>3, <2>4, <2>5, <2>6, <2>7, <2>8, <2>9, <2>10, <1>6 DEF RequestSteps
<1>7. ASSUME NEW e \in Engine, EngineSteps(e)
      PROVE  \/ Unborn(k) \/ ~Unborn(k)'
             \/ Begun /\ launch[k].at = "idle" /\ request' = request /\ row' = row /\ (row \/ mem.recon.armed)
  <2>1. CASE KillLands(e) \/ LeakEnds(e)
    BY <2>1, TypedParts, KillLandsDoes DEF others, histVars, Unborn
  <2>2. CASE RemovalSettles(e)
    BY <2>2, TypedParts DEF RemovalSettles, others, histVars, Unborn
  <2>3. CASE EngineReady(e) \/ EngineWedges(e)
    BY <2>3, TypedParts, EngineRunsDoes DEF others, histVars, Unborn
  <2>4. CASE EngineDrops(e) \/ EngineUnlinked(e) \/ EngineFails(e) \/ StuckAuth(e) \/ WipeLands(e)
    BY <2>4, TypedParts, EngineEndsDoes DEF others, histVars, Unborn
  <2>5. CASE ProbeFails(e) \/ ProbePasses
    BY <2>5, TypedParts, ProbesDoes DEF others, histVars, Unborn
  <2>6. CASE DropHandled(e)
    BY <2>6, TypedParts, DropHandledDoes DEF Unborn
  <2>7. CASE DropUnread(e)
    BY <2>7, TypedParts, DropUnreadDoes DEF others, histVars, Unborn
  <2>. QED BY <2>1, <2>2, <2>3, <2>4, <2>5, <2>6, <2>7, <1>7 DEF EngineSteps
<1>. QED BY <1>1, <1>2, <1>3, <1>4, <1>5, <1>6, <1>7, NextCases


\* A launch that writes its INITIALIZING has just registered its engine.
LEMMA WritingBegins ==
    ASSUME Typed, NEW k \in Launcher, [Next]_vars
    PROVE  \/ launch'[k] = launch[k] \/ launch'[k].at # "writing" \/ Registers(k)
<1>1. CASE UNCHANGED vars
  BY <1>1, TypedParts DEF vars, histVars
<1>2. CASE StartSteps
  <2>1. CASE StartCalled
    BY <2>1, TypedParts, StartCalledDoes DEF elsewhere, Begun
  <2>2. CASE HookDone
    <3>1. Registers(Start)
      BY <2>2, TypedParts, HookDoneDoes DEF Registered, Registers, elsewhere
    <3>. QED BY <3>1 DEF Registers
  <2>3. CASE ReapEnds
    BY <2>3, TypedParts, ReapEndsDoes DEF elsewhere, histVars
  <2>. QED BY <2>1, <2>2, <2>3, <1>2 DEF StartSteps
<1>3. ASSUME NEW l \in Launcher, LaunchSteps(l)
      PROVE  \/ launch'[k] = launch[k] \/ launch'[k].at # "writing" \/ Registers(k)
  <2>1. CASE FenceOpens(l)
    <3>1. CASE l = Start
      BY <2>1, <3>1, TypedParts, FenceOpensDoes
    <3>2. CASE l # Start
      <4>1. /\ launch[l].at = "fenced" /\ launch[l].waits \cap removing = {}
            /\ l \in Attempt /\ Registered(l, mem, mem.mark, mem.recon) /\ UNCHANGED <<row, elsewhere>>
        BY <2>1, <3>2, TypedParts, FenceOpensDoes
      <4>2. Registers(l)
        BY <4>1, TypedParts DEF Registered, Registers, elsewhere
      <4>. QED BY <4>2 DEF Registers
    <3>. QED BY <3>1, <3>2
  <2>2. CASE FenceRefuses(l)
    BY <2>2, TypedParts, FenceRefusesDoes DEF elsewhere
  <2>3. CASE WriteSettles(l)
    BY <2>3, TypedParts, WriteSettlesDoes DEF elsewhere, histVars
  <2>4. CASE WriteFails(l)
    BY <2>4, TypedParts, WriteFailsDoes DEF elsewhere
  <2>5. CASE InitResolves(l)
    BY <2>5, TypedParts, InitResolvesDoes DEF elsewhere, histVars
  <2>6. CASE InitRejects(l)
    BY <2>6, TypedParts, InitRejectsDoes DEF elsewhere
  <2>7. CASE InitTimesOut(l)
    BY <2>7, TypedParts, InitTimesOutDoes DEF elsewhere, histVars
  <2>8. CASE LateKillEnds(l)
    BY <2>8, TypedParts, LateKillEndsDoes DEF elsewhere
  <2>9. CASE RowRead(l)
    BY <2>9, TypedParts, RowReadDoes DEF elsewhere
  <2>10. CASE RetireEnds(l) \/ RetireTimesOut(l)
    BY <2>10, TypedParts, RetireEndsDoes DEF elsewhere, histVars
  <2>11. CASE Repurged(l)
    BY <2>11, TypedParts, RepurgedDoes DEF elsewhere, histVars
  <2>12. CASE OldEngineGone(l)
    <3>1. CASE removing # {}
      BY <2>12, <3>1, TypedParts, OldEngineGoneDoes
    <3>2. CASE removing = {}
      <4>1. Registers(l)
        BY <2>12, <3>2, TypedParts, OldEngineGoneDoes DEF Registers, elsewhere
      <4>. QED BY <4>1 DEF Registers
    <3>. QED BY <3>1, <3>2
  <2>13. CASE DestroyTimesOut(l)
    BY <2>13, TypedParts, DestroyTimesOutDoes DEF elsewhere, histVars
  <2>. QED BY <2>1, <2>2, <2>3, <2>4, <2>5, <2>6, <2>7, <2>8, <2>9, <2>10, <2>11, <2>12, <2>13, <1>3 DEF LaunchSteps
<1>4. ASSUME NEW l \in Attempt, TimerFires(l)
      PROVE  \/ launch'[k] = launch[k] \/ launch'[k].at # "writing" \/ Registers(k)
  <2>1. CASE ~mem.mark /\ mem.registry = NoEngine /\ removing = {}
    <3>1. Registers(l)
      BY <1>4, <2>1, TypedParts, TimerFiresDoes DEF Registered, Registers, elsewhere
    <3>. QED BY <3>1 DEF Registers
  <2>2. CASE ~(~mem.mark /\ mem.registry = NoEngine /\ removing = {})
    BY <1>4, <2>2, TypedParts, TimerFiresDoes
  <2>. QED BY <2>1, <2>2
<1>5. ASSUME NEW q \in Request, NEW kind \in Kinds, CallMade(q, kind)
      PROVE  \/ launch'[k] = launch[k] \/ launch'[k].at # "writing" \/ Registers(k)
  <2>1. CASE kind \in {"stop", "delete"} /\ Called(q, kind)
    BY <1>5, <2>1, TypedParts, CalledDoes DEF CallMade
  <2>2. CASE kind \in {"logout", "kill"} /\ EngineCalled(q, kind)
    BY <1>5, <2>2, TypedParts, EngineCalledDoes DEF CallMade
  <2>. QED BY <2>1, <2>2, <1>5 DEF CallMade
<1>6. ASSUME NEW q \in Request, RequestSteps(q)
      PROVE  \/ launch'[k] = launch[k] \/ launch'[k].at # "writing" \/ Registers(k)
  <2>1. CASE StopCaptures(q)
    BY <2>1, TypedParts, StopCapturesDoes DEF histVars
  <2>2. CASE WaitEnds(q)
    BY <2>2, TypedParts, WaitEndsDoes DEF histVars
  <2>3. CASE StopCloses(q) \/ LogoutReturns(q) \/ KillEnds(q)
    BY <2>3, TypedParts, ClosesDoes DEF histVars
  <2>4. CASE LogoutOverruns(q)
    BY <2>4, TypedParts, LogoutOverrunsDoes DEF histVars
  <2>5. CASE StopEscalates(q)
    BY <2>5, TypedParts, StopEscalatesDoes DEF histVars
  <2>6. CASE DeleteEnters(q)
    BY <2>6, TypedParts, DeleteEntersDoes DEF DeleteStarts, histVars
  <2>7. CASE DeleteFenceOpens(q)
    BY <2>7, TypedParts, DeleteFenceOpensDoes DEF DeleteStarts, histVars
  <2>8. CASE DeleteRefused(q)
    BY <2>8, TypedParts, DeleteRefusedDoes
  <2>9. CASE RowDeleted(q)
    BY <2>9, TypedParts, RowDeletedDoes DEF histVars
  <2>10. CASE NotFound(q) \/ DeleteFails(q) \/ Purged(q)
    BY <2>10, TypedParts, UnmarksDoes DEF histVars
  <2>. QED BY <2>1, <2>2, <2>3, <2>4, <2>5, <2>6, <2>7, <2>8, <2>9, <2>10, <1>6 DEF RequestSteps
<1>7. ASSUME NEW e \in Engine, EngineSteps(e)
      PROVE  \/ launch'[k] = launch[k] \/ launch'[k].at # "writing" \/ Registers(k)
  <2>1. CASE KillLands(e) \/ LeakEnds(e)
    BY <2>1, TypedParts, KillLandsDoes DEF others, histVars
  <2>2. CASE RemovalSettles(e)
    BY <2>2, TypedParts DEF RemovalSettles, others, histVars
  <2>3. CASE EngineReady(e) \/ EngineWedges(e)
    BY <2>3, TypedParts, EngineRunsDoes DEF others, histVars
  <2>4. CASE EngineDrops(e) \/ EngineUnlinked(e) \/ EngineFails(e) \/ StuckAuth(e) \/ WipeLands(e)
    BY <2>4, TypedParts, EngineEndsDoes DEF others, histVars
  <2>5. CASE ProbeFails(e) \/ ProbePasses
    BY <2>5, TypedParts, ProbesDoes DEF others, histVars
  <2>6. CASE DropHandled(e)
    BY <2>6, TypedParts, DropHandledDoes
  <2>7. CASE DropUnread(e)
    BY <2>7, TypedParts, DropUnreadDoes DEF others, histVars
  <2>. QED BY <2>1, <2>2, <2>3, <2>4, <2>5, <2>6, <2>7, <1>7 DEF EngineSteps
<1>. QED BY <1>1, <1>2, <1>3, <1>4, <1>5, <1>6, <1>7, NextCases


\* The write that calls wait for is the last engine's.
LEMMA WritingMoves ==
    ASSUME Typed, [Next]_vars
    PROVE  \/ mem'.writing \in {mem.writing, NoEngine}
           \/ mem'.writing \in Engine /\ mem'.eng[mem'.writing] = "made"
<1>1. CASE UNCHANGED vars
  BY <1>1, TypedParts DEF vars, histVars
<1>2. CASE StartSteps
  <2>1. CASE StartCalled
    BY <2>1, TypedParts, StartCalledDoes DEF elsewhere, Begun
  <2>2. CASE HookDone
    BY <2>2, TypedParts, HookDoneDoes DEF elsewhere, Registered, histVars
  <2>3. CASE ReapEnds
    BY <2>3, TypedParts, ReapEndsDoes DEF elsewhere, histVars
  <2>. QED BY <2>1, <2>2, <2>3, <1>2 DEF StartSteps
<1>3. ASSUME NEW l \in Launcher, LaunchSteps(l)
      PROVE  \/ mem'.writing \in {mem.writing, NoEngine}
             \/ mem'.writing \in Engine /\ mem'.eng[mem'.writing] = "made"
  <2>1. CASE FenceOpens(l)
    <3>1. CASE l = Start
      BY <2>1, <3>1, TypedParts, FenceOpensDoes
    <3>2. CASE l # Start
      <4>1. Registered(l, mem, mem.mark, mem.recon)
        BY <2>1, <3>2, FenceOpensDoes
      <4>. QED BY <4>1 DEF Registered
    <3>. QED BY <3>1, <3>2
  <2>2. CASE FenceRefuses(l)
    BY <2>2, TypedParts, FenceRefusesDoes DEF elsewhere
  <2>3. CASE WriteSettles(l)
    BY <2>3, TypedParts, WriteSettlesDoes DEF elsewhere, histVars
  <2>4. CASE WriteFails(l)
    BY <2>4, TypedParts, WriteFailsDoes DEF elsewhere
  <2>5. CASE InitResolves(l)
    BY <2>5, TypedParts, InitResolvesDoes DEF elsewhere, histVars
  <2>6. CASE InitRejects(l)
    BY <2>6, TypedParts, InitRejectsDoes DEF elsewhere
  <2>7. CASE InitTimesOut(l)
    BY <2>7, TypedParts, InitTimesOutDoes DEF elsewhere, histVars
  <2>8. CASE LateKillEnds(l)
    BY <2>8, TypedParts, LateKillEndsDoes DEF elsewhere
  <2>9. CASE RowRead(l)
    BY <2>9, TypedParts, RowReadDoes DEF elsewhere
  <2>10. CASE RetireEnds(l) \/ RetireTimesOut(l)
    BY <2>10, TypedParts, RetireEndsDoes DEF elsewhere, histVars
  <2>11. CASE Repurged(l)
    BY <2>11, TypedParts, RepurgedDoes DEF elsewhere, histVars
  <2>12. CASE OldEngineGone(l)
    BY <2>12, TypedParts, OldEngineGoneDoes DEF elsewhere, histVars
  <2>13. CASE DestroyTimesOut(l)
    BY <2>13, TypedParts, DestroyTimesOutDoes DEF elsewhere, histVars
  <2>. QED BY <2>1, <2>2, <2>3, <2>4, <2>5, <2>6, <2>7, <2>8, <2>9, <2>10, <2>11, <2>12, <2>13, <1>3 DEF LaunchSteps
<1>4. ASSUME NEW l \in Attempt, TimerFires(l)
      PROVE  \/ mem'.writing \in {mem.writing, NoEngine}
             \/ mem'.writing \in Engine /\ mem'.eng[mem'.writing] = "made"
  BY <1>4, TypedParts, TimerFiresDoes DEF elsewhere, Begun, Registered
<1>5. ASSUME NEW q \in Request, NEW kind \in Kinds, CallMade(q, kind)
      PROVE  \/ mem'.writing \in {mem.writing, NoEngine}
             \/ mem'.writing \in Engine /\ mem'.eng[mem'.writing] = "made"
  <2>1. CASE kind \in {"stop", "delete"} /\ Called(q, kind)
    BY <1>5, <2>1, TypedParts, CalledDoes DEF CallMade
  <2>2. CASE kind \in {"logout", "kill"} /\ EngineCalled(q, kind)
    BY <1>5, <2>2, TypedParts, EngineCalledDoes DEF CallMade
  <2>. QED BY <2>1, <2>2, <1>5 DEF CallMade
<1>6. ASSUME NEW q \in Request, RequestSteps(q)
      PROVE  \/ mem'.writing \in {mem.writing, NoEngine}
             \/ mem'.writing \in Engine /\ mem'.eng[mem'.writing] = "made"
  <2>1. CASE StopCaptures(q)
    BY <2>1, TypedParts, StopCapturesDoes DEF histVars
  <2>2. CASE WaitEnds(q)
    BY <2>2, TypedParts, WaitEndsDoes DEF histVars
  <2>3. CASE StopCloses(q) \/ LogoutReturns(q) \/ KillEnds(q)
    BY <2>3, TypedParts, ClosesDoes DEF histVars
  <2>4. CASE LogoutOverruns(q)
    BY <2>4, TypedParts, LogoutOverrunsDoes DEF histVars
  <2>5. CASE StopEscalates(q)
    BY <2>5, TypedParts, StopEscalatesDoes DEF histVars
  <2>6. CASE DeleteEnters(q)
    BY <2>6, TypedParts, DeleteEntersDoes DEF DeleteStarts, histVars
  <2>7. CASE DeleteFenceOpens(q)
    BY <2>7, TypedParts, DeleteFenceOpensDoes DEF DeleteStarts, histVars
  <2>8. CASE DeleteRefused(q)
    BY <2>8, TypedParts, DeleteRefusedDoes
  <2>9. CASE RowDeleted(q)
    BY <2>9, TypedParts, RowDeletedDoes DEF histVars
  <2>10. CASE NotFound(q) \/ DeleteFails(q) \/ Purged(q)
    BY <2>10, TypedParts, UnmarksDoes DEF histVars
  <2>. QED BY <2>1, <2>2, <2>3, <2>4, <2>5, <2>6, <2>7, <2>8, <2>9, <2>10, <1>6 DEF RequestSteps
<1>7. ASSUME NEW e \in Engine, EngineSteps(e)
      PROVE  \/ mem'.writing \in {mem.writing, NoEngine}
             \/ mem'.writing \in Engine /\ mem'.eng[mem'.writing] = "made"
  <2>1. CASE KillLands(e) \/ LeakEnds(e)
    BY <2>1, TypedParts, KillLandsDoes DEF others, histVars
  <2>2. CASE RemovalSettles(e)
    BY <2>2, TypedParts DEF RemovalSettles, others, histVars
  <2>3. CASE EngineReady(e) \/ EngineWedges(e)
    BY <2>3, TypedParts, EngineRunsDoes DEF others, histVars
  <2>4. CASE EngineDrops(e) \/ EngineUnlinked(e) \/ EngineFails(e) \/ StuckAuth(e) \/ WipeLands(e)
    BY <2>4, TypedParts, EngineEndsDoes DEF others, histVars
  <2>5. CASE ProbeFails(e) \/ ProbePasses
    BY <2>5, TypedParts, ProbesDoes DEF others, histVars
  <2>6. CASE DropHandled(e)
    BY <2>6, TypedParts, DropHandledDoes
  <2>7. CASE DropUnread(e)
    BY <2>7, TypedParts, DropUnreadDoes DEF others, histVars
  <2>. QED BY <2>1, <2>2, <2>3, <2>4, <2>5, <2>6, <2>7, <1>7 DEF EngineSteps
<1>. QED BY <1>1, <1>2, <1>3, <1>4, <1>5, <1>6, <1>7, NextCases


\* Some call has not been answered.
Asked == \E q \in Request : request[q].at # "idle"

\* A call that meets a launch without an engine crosses it.
LEMMA AskedBegins ==
    ASSUME Typed, [Next]_vars
    PROVE  Asked \/ ~Asked' \/ (crossed' = (crossed \/ \E l \in Launcher : Unborn(l)) /\ launch' = launch)
<1>1. CASE UNCHANGED vars
  BY <1>1 DEF vars, Asked
<1>5. ASSUME NEW q \in Request, NEW kind \in Kinds, CallMade(q, kind)
      PROVE  Asked \/ ~Asked' \/ (crossed' = (crossed \/ \E l \in Launcher : Unborn(l)) /\ launch' = launch)
  <2>1. CASE kind \in {"stop", "delete"} /\ Called(q, kind)
    BY <1>5, <2>1, CalledDoes DEF CallMade
  <2>2. CASE kind \in {"logout", "kill"} /\ EngineCalled(q, kind)
    BY <1>5, <2>2, EngineCalledDoes DEF CallMade
  <2>. QED BY <2>1, <2>2, <1>5 DEF CallMade
<1>6. ASSUME NEW q \in Request, RequestSteps(q)
      PROVE  Asked \/ ~Asked' \/ (crossed' = (crossed \/ \E l \in Launcher : Unborn(l)) /\ launch' = launch)
  <2>1. request[q].at # "idle"
    BY <1>6, StopCapturesDoes, WaitEndsDoes, ClosesDoes, LogoutOverrunsDoes, StopEscalatesDoes, DeleteEntersDoes,
       DeleteFenceOpensDoes DEF RequestSteps, DeleteRefused, RowDeleted, NotFound, DeleteFails, Purged
  <2>. QED BY <2>1 DEF Asked
<1>7. CASE StartSteps \/ (\E l \in Launcher : LaunchSteps(l)) \/ (\E l \in Attempt : TimerFires(l)) \/ (\E e \in Engine : EngineSteps(e))
  <2>1. request' = request
    BY <1>7, StartStepsLeave, LaunchStepsLeave, EngineStepsLeave DEF elsewhere, TimerFires
  <2>. QED BY <2>1 DEF Asked
<1>. QED BY <1>1, <1>5, <1>6, <1>7, NextCases

\* A call captures the registered engine, with the mark set and no reconnect
\* to come, and keeps to it.
LEMMA CapturedBegins ==
    ASSUME Typed, [Next]_vars, NEW r \in Request
    PROVE  \/ ~Captured(r)'
           \/ /\ Captured(r) /\ request'[r].eng = request[r].eng
              /\ request'[r].at = "waiting" => request[r].at = "waiting"
           \/ /\ request'[r].eng = mem.registry /\ mem'.registry = mem.registry /\ launch' = launch
              /\ mem'.mark /\ ~mem'.recon.kept
              /\ request'[r].at = "waiting" => mem.writing = mem.registry /\ mem'.eng = mem.eng
<1>1. CASE UNCHANGED vars
  BY <1>1 DEF vars, Captured
<1>5. ASSUME NEW q \in Request, NEW kind \in Kinds, CallMade(q, kind)
      PROVE  \/ ~Captured(r)'
             \/ /\ Captured(r) /\ request'[r].eng = request[r].eng
                /\ request'[r].at = "waiting" => request[r].at = "waiting"
             \/ /\ request'[r].eng = mem.registry /\ mem'.registry = mem.registry /\ launch' = launch
                /\ mem'.mark /\ ~mem'.recon.kept
                /\ request'[r].at = "waiting" => mem.writing = mem.registry /\ mem'.eng = mem.eng
  <2>1. CASE kind \in {"stop", "delete"} /\ Called(q, kind)
    <3>1. CASE r # q
      <4>1. request'[r] = request[r]
        BY <3>1, <1>5, <2>1, CalledDoes
      <4>. QED BY <4>1 DEF Captured
    <3>2. CASE r = q
      BY <3>2, <1>5, <2>1, CalledDoes, TypedParts, ReconConstants DEF Captured
    <3>. QED BY <3>1, <3>2
  <2>2. CASE kind \in {"logout", "kill"} /\ EngineCalled(q, kind)
    <3>1. CASE r # q
      <4>1. request'[r] = request[r]
        BY <3>1, <1>5, <2>2, EngineCalledDoes
      <4>. QED BY <4>1 DEF Captured
    <3>2. CASE r = q
      BY <3>2, <1>5, <2>2, EngineCalledDoes, TypedParts, ReconConstants DEF Captured
    <3>. QED BY <3>1, <3>2
  <2>. QED BY <2>1, <2>2, <1>5 DEF CallMade
<1>6. ASSUME NEW q \in Request, RequestSteps(q)
      PROVE  \/ ~Captured(r)'
             \/ /\ Captured(r) /\ request'[r].eng = request[r].eng
                /\ request'[r].at = "waiting" => request[r].at = "waiting"
             \/ /\ request'[r].eng = mem.registry /\ mem'.registry = mem.registry /\ launch' = launch
                /\ mem'.mark /\ ~mem'.recon.kept
                /\ request'[r].at = "waiting" => mem.writing = mem.registry /\ mem'.eng = mem.eng
  <2>1. CASE StopCaptures(q)
    <3>1. CASE r # q
      <4>1. request'[r] = request[r]
        BY <3>1, <2>1, StopCapturesDoes
      <4>. QED BY <4>1 DEF Captured
    <3>2. CASE r = q
      BY <3>2, <2>1, StopCapturesDoes, TypedParts, ReconConstants DEF Captured
    <3>. QED BY <3>1, <3>2
  <2>2. CASE WaitEnds(q)
    BY <2>2, TypedParts, ReconConstants, WaitEndsDoes DEF histVars, Captured
  <2>3. CASE StopCloses(q) \/ LogoutReturns(q) \/ KillEnds(q)
    BY <2>3, TypedParts, ClosesDoes DEF Captured
  <2>4. CASE LogoutOverruns(q)
    BY <2>4, TypedParts, ReconConstants, LogoutOverrunsDoes DEF histVars, Captured
  <2>5. CASE StopEscalates(q)
    BY <2>5, TypedParts, ReconConstants, StopEscalatesDoes DEF histVars, Captured
  <2>6. CASE DeleteEnters(q)
    <3>1. CASE r # q
      <4>1. request'[r] = request[r]
        BY <3>1, <2>6, DeleteEntersDoes DEF DeleteStarts
      <4>. QED BY <4>1 DEF Captured
    <3>2. CASE r = q
      BY <3>2, <2>6, DeleteEntersDoes, TypedParts, ReconConstants DEF Captured, DeleteStarts
    <3>. QED BY <3>1, <3>2
  <2>7. CASE DeleteFenceOpens(q)
    <3>1. CASE r # q
      <4>1. request'[r] = request[r]
        BY <3>1, <2>7, DeleteFenceOpensDoes DEF DeleteStarts
      <4>. QED BY <4>1 DEF Captured
    <3>2. CASE r = q
      BY <3>2, <2>7, DeleteFenceOpensDoes, TypedParts, ReconConstants DEF Captured, DeleteStarts
    <3>. QED BY <3>1, <3>2
  <2>8. CASE DeleteRefused(q)
    BY <2>8, DeleteRefusedDoes DEF Captured
  <2>9. CASE RowDeleted(q)
    BY <2>9, TypedParts, ReconConstants, RowDeletedDoes DEF histVars, Captured
  <2>10. CASE NotFound(q) \/ DeleteFails(q) \/ Purged(q)
    BY <2>10, TypedParts, UnmarksDoes DEF Captured
  <2>. QED BY <2>1, <2>2, <2>3, <2>4, <2>5, <2>6, <2>7, <2>8, <2>9, <2>10, <1>6 DEF RequestSteps
<1>7. CASE StartSteps \/ (\E l \in Launcher : LaunchSteps(l)) \/ (\E l \in Attempt : TimerFires(l)) \/ (\E e \in Engine : EngineSteps(e))
  <2>1. request' = request
    BY <1>7, StartStepsLeave, LaunchStepsLeave, EngineStepsLeave DEF elsewhere, TimerFires
  <2>. QED BY <2>1 DEF Captured
<1>. QED BY <1>1, <1>5, <1>6, <1>7, NextCases
-----------------------------------------------------------------------------
(* No removal of credentials runs beside a successor.                      *)

\* What a launch registered and has not opened yet.
Unopened == \A l \in Launcher : launch[l].at = "writing" => mem.eng[launch[l].eng] \in {"made", "gone"}

\* No call is beside a launch without an engine; what a call has captured is
\* what the registry still names, and what a launch is still writing for.
Apart ==
    /\ Asked => \A l \in Launcher : ~Unborn(l)
    /\ \A q \in Request : Captured(q) => mem.registry \in {request[q].eng, NoEngine}
    /\ \A q \in Request, l \in Launcher :
         request[q].at = "waiting" /\ launch[l].at = "writing" => request[q].eng = launch[l].eng

\* Removals and what stands between a launch and its engine's first use.
Spared ==
    /\ \A e \in removing, f \in Engine : f # e => mem.eng[f] \notin Alive
    /\ \A l \in Launcher : launch[l].at = "fenced" => removing \subseteq launch[l].waits
    /\ \A l \in Launcher : launch[l].at \in {"hook", "writing"} => removing = {}

\* A step after which no two launches have overlapped and no call has crossed a
\* launch came after nothing of that kind.
LEMMA StillClean ==
    ASSUME Reached, [Next]_vars, ~overlapped', ~crossed'
    PROVE  /\ ~overlapped /\ ~crossed /\ Typed /\ Typed'
           /\ OneLaunch /\ \A l \in Launcher : Placed(l)
BY OverlapStays, RefusalStays, ReachedStep DEF Reached

\* An engine stays unopened until its own launch opens it.
LEMMA UnopenedStep ==
    ASSUME Typed, OneLaunch, Unopened, [Next]_vars
    PROVE  Unopened'
<1> SUFFICES ASSUME NEW l \in Launcher, launch'[l].at = "writing"
             PROVE  mem'.eng[launch'[l].eng] \in {"made", "gone"}
  BY DEF Unopened
<1>1. CASE Registers(l)
  BY <1>1 DEF Registers
<1>2. CASE launch'[l] = launch[l]
  <2> DEFINE f == launch[l].eng
  <2>1. f \in Engine /\ f \in Held /\ mem.eng[f] \in {"made", "gone"}
    BY <1>2, TypedShapes DEF LaunchShape, LaunchFits, Held, Unopened
  <2>2. ASSUME NEW k \in Launcher, Opens(k, f)
        PROVE  FALSE
    BY <1>2, <2>2 DEF Opens, OneLaunch, InFlight
  <2>. QED BY <1>2, <2>1, <2>2, UnopenedStays
<1>. QED BY <1>1, <1>2, WritingBegins

\* A launch that has registered its engine was not beside a call.
LEMMA RegistersAlone ==
    ASSUME Apart, NEW k \in Launcher, Registers(k), ~crossed'
    PROVE  ~Asked /\ ~Asked'
<1>1. ~Asked
  BY DEF Apart, Registers, Unborn, Begun, Asked
<1>. QED BY <1>1 DEF Registers, Asked

\* Calls and launches stay apart.
LEMMA ApartStep ==
    ASSUME Typed, Typed', \A l \in Launcher : Placed(l), Apart, [Next]_vars, ~crossed'
    PROVE  Apart'
<1>1. ASSUME Asked', NEW l \in Launcher, Unborn(l)'
      PROVE  FALSE
  <2>1. CASE Asked
    <3>1. ~Unborn(l)
      BY <2>1 DEF Apart
    <3>2. Begun
      BY <1>1, <3>1, UnbornBegins
    <3>. QED BY <2>1, <3>2 DEF Begun, Asked
  <2>2. CASE ~Asked
    <3>1. crossed' = (crossed \/ \E k \in Launcher : Unborn(k)) /\ launch' = launch
      BY <1>1, <2>2, AskedBegins
    <3>. QED BY <1>1, <3>1 DEF Unborn
  <2>. QED BY <2>1, <2>2
<1>2. ASSUME NEW q \in Request, Captured(q)'
      PROVE  mem'.registry \in {request'[q].eng, NoEngine}
  <2>1. CASE request'[q].eng = mem.registry /\ mem'.registry = mem.registry
    BY <2>1
  <2>2. CASE Captured(q) /\ request'[q].eng = request[q].eng
    <3>1. mem.registry \in {request[q].eng, NoEngine}
      BY <2>2 DEF Apart
    <3>2. ASSUME NEW k \in Launcher, Registers(k)
          PROVE  FALSE
      BY <2>2, <3>2, RegistersAlone DEF Asked, Captured
    <3>. QED BY <2>2, <3>1, <3>2, RegistryMoves
  <2>. QED BY <1>2, <2>1, <2>2, CapturedBegins
<1>3. ASSUME NEW q \in Request, NEW l \in Launcher, request'[q].at = "waiting", launch'[l].at = "writing"
      PROVE  request'[q].eng = launch'[l].eng
  <2>1. CASE Registers(l)
    <3>1. Asked'
      BY <1>3 DEF Asked
    <3>. QED BY <2>1, <3>1, RegistersAlone
  <2>2. CASE launch'[l] = launch[l]
    <3>1. CASE request[q].at = "waiting" /\ request'[q].eng = request[q].eng
      BY <1>3, <2>2, <3>1 DEF Apart
    <3>2. CASE request'[q].eng = mem.registry /\ mem'.registry = mem.registry
      <4>1. mem.registry \in {launch[l].eng, NoEngine}
        BY <1>3, <2>2 DEF Placed
      <4>2. request'[q].eng \in Engine /\ NoEngine \notin Engine
        BY <1>3, TypedParts, TypedShapes DEF RequestShape, RequestFits, Captured, Typed
      <4>. QED BY <2>2, <3>2, <4>1, <4>2
    <3>3. Captured(q)'
      BY <1>3 DEF Captured
    <3>. QED BY <1>3, <3>1, <3>2, <3>3, CapturedBegins
  <2>. QED BY <1>3, <2>1, <2>2, WritingBegins
<1>. QED BY <1>1, <1>2, <1>3 DEF Apart

\* When a removal begins to be tracked, its engine is the registered one, and
\* no launch is on its way to a successor.
LEMMA RemovesAlone ==
    ASSUME Typed, \A l \in Launcher : Placed(l), Sole, Unopened, Apart, ~crossed',
           NEW e \in Engine, Removes(e)
    PROVE  /\ \A f \in Engine : f # e => mem.eng[f] \notin Alive
           /\ \A l \in Launcher : launch[l].at \notin {"fenced", "hook", "writing"}
<1>1. NoEngine \notin Engine
  BY TypedParts
<1>2. CASE mem.eng[e] \in Alive
  <2>1. mem.registry = e
    BY <1>2 DEF Sole, Usable
  <2>2. ASSUME NEW l \in Launcher, launch[l].at = "writing"
        PROVE  FALSE
    <3>1. launch[l].eng = e
      BY <1>1, <2>1, <2>2 DEF Placed
    <3>. QED BY <1>2, <2>2, <3>1 DEF Unopened, Alive
  <2>. QED BY <1>1, <2>1, <2>2 DEF Placed, Sole, Usable
<1>3. CASE mem.eng[e] \notin Alive
  <2>1. PICK q \in Request :
          /\ mem.eng[e] \in Running
          /\ \/ request[q].at = "idle" /\ e = mem.registry
             \/ request[q].at = "waiting" /\ e = request[q].eng
    BY <1>3 DEF Removes
  <2>2. mem.registry \in {e, NoEngine}
    BY <2>1 DEF Apart, Captured
  <2>3. ASSUME NEW l \in Launcher, launch[l].at = "writing"
        PROVE  FALSE
    <3>1. launch[l].eng = e
      BY <1>1, <2>1, <2>3 DEF Placed, Apart
    <3>. QED BY <2>1, <2>3, <3>1 DEF Unopened, Running, Alive
  <2>4. ASSUME NEW l \in Launcher, launch[l].at \in {"fenced", "hook"}
        PROVE  FALSE
    <3>1. CASE request[q].at = "waiting"
      BY <2>4, <3>1 DEF Apart, Asked, Unborn
    <3>2. CASE e = mem.registry
      BY <1>1, <2>4, <3>2 DEF Placed
    <3>. QED BY <2>1, <3>1, <3>2
  <2>. QED BY <1>1, <2>2, <2>3, <2>4 DEF Sole, Usable
<1>. QED BY <1>2, <1>3

\* Every step spares the successor.
LEMMA SparedStep ==
    ASSUME Typed, \A l \in Launcher : Placed(l), Sole, Unopened, Apart, Spared, [Next]_vars, ~crossed'
    PROVE  Spared'
<1>1. CASE removing' \subseteq removing
  <2>1. ASSUME NEW e \in removing', NEW f \in Engine, f # e, mem'.eng[f] \in Alive
        PROVE  FALSE
    <3>1. mem.eng[f] \notin Alive
      BY <1>1, <2>1 DEF Spared
    <3>2. PICK k \in Launcher : Opens(k, f)
      BY <2>1, <3>1, NewlyAlive
    <3>. QED BY <1>1, <2>1, <3>2 DEF Opens, Spared
  <2>2. ASSUME NEW l \in Launcher, launch'[l].at = "fenced"
        PROVE  removing' \subseteq launch'[l].waits
    BY <1>1, <2>2, FenceHolds DEF Spared
  <2>3. ASSUME NEW l \in Launcher, launch'[l].at \in {"hook", "writing"}
        PROVE  removing' = {}
    <3>1. CASE launch'[l] = launch[l]
      BY <1>1, <2>3, <3>1 DEF Spared
    <3>2. CASE launch'[l] # launch[l]
      <4>1. /\ removing' = removing
            /\ \/ removing = {} \/ launch[l].at = "hook"
               \/ launch[l].at = "fenced" /\ launch[l].waits \cap removing = {}
        BY <2>3, <3>2, FenceHolds
      <4>. QED BY <4>1 DEF Spared
    <3>. QED BY <3>1, <3>2
  <2>. QED BY <2>1, <2>2, <2>3 DEF Spared
<1>2. ASSUME NEW e \in Engine, removing' = removing \cup {e}, Removes(e)
      PROVE  Spared'
  <2>1. /\ \A f \in Engine : f # e => mem.eng[f] \notin Alive
        /\ \A l \in Launcher : launch[l].at \notin {"fenced", "hook", "writing"}
    BY <1>2, RemovesAlone
  <2>2. \A f \in Engine : mem'.eng[f] \notin Alive
    BY <1>2, <2>1 DEF Removes
  <2>3. launch' = launch
    BY <1>2 DEF Removes
  <2>. QED BY <2>1, <2>2, <2>3 DEF Spared
<1>3. removing' \subseteq removing \/ \E f \in Engine : removing' = removing \cup {f} /\ Removes(f)
  BY RemovingMoves
<1>. QED BY <1>1, <1>2, <1>3

\* The invariant behind RemovalSparesSuccessor.
Fenced ==
    /\ Reached /\ Closed
    /\ ~overlapped => Sole /\ Unopened
    /\ ~overlapped /\ ~crossed => Apart /\ Spared

\* It holds at the start.
LEMMA FencedInit == Init => Fenced
<1> SUFFICES ASSUME Init PROVE Fenced
  OBVIOUS
<1>1. Reached
  BY ReachedInit
<1>2. /\ mem.registry = NoEngine /\ removing = {}
      /\ \A f \in Engine : mem.eng[f] = "none"
      /\ \A l \in Launcher : launch[l].at = "idle"
      /\ \A q \in Request : request[q].at = "idle"
  BY DEF Init, IdleLaunch, IdleRequest
<1>3. Closed /\ Sole /\ Unopened
  BY <1>2 DEF Closed, Sole, Unopened, TearsDown, Usable, Alive
<1>4. Apart /\ Spared
  BY <1>2 DEF Apart, Spared, Asked, Captured
<1>. QED BY <1>1, <1>3, <1>4 DEF Fenced

\* Every step keeps it.
LEMMA FencedStep ==
    ASSUME Fenced, [Next]_vars
    PROVE  Fenced'
<1>1. Reached' /\ Typed' /\ Typed
  BY ReachedStep DEF Fenced, Reached
<1>2. Closed'
  BY <1>1, ClosedStep DEF Fenced
<1>3. ASSUME ~overlapped' PROVE Sole' /\ Unopened'
  <2>1. OneLaunch /\ (\A l \in Launcher : Placed(l)) /\ Sole /\ Unopened
    BY <1>1, <1>3, OverlapStays DEF Fenced, Reached
  <2>. QED BY <1>1, <2>1, SoleStep, UnopenedStep DEF Fenced
<1>4. ASSUME ~overlapped', ~crossed' PROVE Apart' /\ Spared'
  <2>1. ~overlapped /\ ~crossed /\ \A l \in Launcher : Placed(l)
    BY <1>4, StillClean DEF Fenced
  <2>2. Apart /\ Spared /\ Sole /\ Unopened
    BY <2>1 DEF Fenced
  <2>. QED BY <1>1, <1>4, <2>1, <2>2, ApartStep, SparedStep
<1>. QED BY <1>1, <1>2, <1>3, <1>4 DEF Fenced

\* No tracked removal of credentials runs beside an engine that is not the one
\* removed.
THEOREM LifecycleSparesSuccessor == Spec => []RemovalSparesSuccessor
<1>1. Fenced => RemovalSparesSuccessor
  BY DEF Fenced, Spared, RemovalSparesSuccessor
<1>. QED BY FencedInit, FencedStep, <1>1, PTL DEF Spec

-----------------------------------------------------------------------------
(* A name is given up when nothing is being removed under it.              *)

\* Reconnect state is made by start() only, after its hook.
LEMMA KeptRises ==
    ASSUME Typed, [Next]_vars
    PROVE  mem.recon.kept \/ ~mem'.recon.kept \/ launch[Start].at = "hook"
<1>1. CASE UNCHANGED vars
  BY <1>1, TypedParts, ReconConstants DEF vars, histVars
<1>2. CASE StartSteps
  <2>1. CASE StartCalled
    BY <2>1, TypedParts, ReconConstants, StartCalledDoes DEF elsewhere, Begun
  <2>2. CASE HookDone
    BY <2>2, HookDoneDoes
  <2>3. CASE ReapEnds
    BY <2>3, TypedParts, ReconConstants, ReapEndsDoes DEF elsewhere, histVars
  <2>. QED BY <2>1, <2>2, <2>3, <1>2 DEF StartSteps
<1>3. ASSUME NEW l \in Launcher, LaunchSteps(l)
      PROVE  mem.recon.kept \/ ~mem'.recon.kept \/ launch[Start].at = "hook"
  <2>1. CASE FenceOpens(l)
    <3>1. CASE l = Start
      BY <2>1, <3>1, TypedParts, FenceOpensDoes, ReconConstants DEF elsewhere, histVars
    <3>2. CASE l # Start
      BY <2>1, <3>2, TypedParts, FenceOpensDoes, ReconConstants DEF Registered, elsewhere, histVars
    <3>. QED BY <3>1, <3>2
  <2>2. CASE FenceRefuses(l)
    BY <2>2, TypedParts, ReconConstants, FenceRefusesDoes DEF elsewhere
  <2>3. CASE WriteSettles(l)
    BY <2>3, TypedParts, ReconConstants, WriteSettlesDoes DEF elsewhere, histVars
  <2>4. CASE WriteFails(l)
    BY <2>4, TypedParts, ReconConstants, WriteFailsDoes DEF elsewhere
  <2>5. CASE InitResolves(l)
    BY <2>5, TypedParts, ReconConstants, InitResolvesDoes DEF elsewhere, histVars
  <2>6. CASE InitRejects(l)
    BY <2>6, TypedParts, ReconConstants, InitRejectsDoes DEF elsewhere
  <2>7. CASE InitTimesOut(l)
    BY <2>7, TypedParts, ReconConstants, InitTimesOutDoes DEF elsewhere, histVars
  <2>8. CASE LateKillEnds(l)
    BY <2>8, TypedParts, ReconConstants, LateKillEndsDoes DEF elsewhere
  <2>9. CASE RowRead(l)
    BY <2>9, TypedParts, ReconConstants, RowReadDoes DEF elsewhere
  <2>10. CASE RetireEnds(l) \/ RetireTimesOut(l)
    BY <2>10, TypedParts, ReconConstants, RetireEndsDoes DEF elsewhere, histVars
  <2>11. CASE Repurged(l)
    BY <2>11, TypedParts, ReconConstants, RepurgedDoes DEF elsewhere, histVars
  <2>12. CASE OldEngineGone(l)
    BY <2>12, TypedParts, ReconConstants, OldEngineGoneDoes DEF elsewhere, histVars
  <2>13. CASE DestroyTimesOut(l)
    BY <2>13, TypedParts, ReconConstants, DestroyTimesOutDoes DEF elsewhere, histVars
  <2>. QED BY <2>1, <2>2, <2>3, <2>4, <2>5, <2>6, <2>7, <2>8, <2>9, <2>10, <2>11, <2>12, <2>13, <1>3 DEF LaunchSteps
<1>4. ASSUME NEW l \in Attempt, TimerFires(l)
      PROVE  mem.recon.kept \/ ~mem'.recon.kept \/ launch[Start].at = "hook"
  BY <1>4, TypedParts, ReconConstants, TimerFiresDoes DEF elsewhere, Begun, Registered
<1>5. ASSUME NEW q \in Request, NEW kind \in Kinds, CallMade(q, kind)
      PROVE  mem.recon.kept \/ ~mem'.recon.kept \/ launch[Start].at = "hook"
  <2>1. CASE kind \in {"stop", "delete"} /\ Called(q, kind)
    BY <1>5, <2>1, TypedParts, ReconConstants, CalledDoes DEF CallMade
  <2>2. CASE kind \in {"logout", "kill"} /\ EngineCalled(q, kind)
    BY <1>5, <2>2, TypedParts, ReconConstants, EngineCalledDoes DEF CallMade
  <2>. QED BY <2>1, <2>2, <1>5 DEF CallMade
<1>6. ASSUME NEW q \in Request, RequestSteps(q)
      PROVE  mem.recon.kept \/ ~mem'.recon.kept \/ launch[Start].at = "hook"
  <2>1. CASE StopCaptures(q)
    BY <2>1, TypedParts, ReconConstants, StopCapturesDoes DEF histVars
  <2>2. CASE WaitEnds(q)
    BY <2>2, TypedParts, ReconConstants, WaitEndsDoes DEF histVars
  <2>3. CASE StopCloses(q) \/ LogoutReturns(q) \/ KillEnds(q)
    BY <2>3, TypedParts, ReconConstants, ClosesDoes DEF histVars
  <2>4. CASE LogoutOverruns(q)
    BY <2>4, TypedParts, ReconConstants, LogoutOverrunsDoes DEF histVars
  <2>5. CASE StopEscalates(q)
    BY <2>5, StopEscalatesDoes
  <2>6. CASE DeleteEnters(q)
    BY <2>6, TypedParts, ReconConstants, DeleteEntersDoes DEF DeleteStarts, histVars
  <2>7. CASE DeleteFenceOpens(q)
    BY <2>7, TypedParts, ReconConstants, DeleteFenceOpensDoes DEF DeleteStarts, histVars
  <2>8. CASE DeleteRefused(q)
    BY <2>8, TypedParts, ReconConstants, DeleteRefusedDoes
  <2>9. CASE RowDeleted(q)
    BY <2>9, RowDeletedDoes
  <2>10. CASE NotFound(q) \/ DeleteFails(q) \/ Purged(q)
    BY <2>10, TypedParts, ReconConstants, UnmarksDoes DEF histVars
  <2>. QED BY <2>1, <2>2, <2>3, <2>4, <2>5, <2>6, <2>7, <2>8, <2>9, <2>10, <1>6 DEF RequestSteps
<1>7. ASSUME NEW e \in Engine, EngineSteps(e)
      PROVE  mem.recon.kept \/ ~mem'.recon.kept \/ launch[Start].at = "hook"
  <2>1. CASE KillLands(e) \/ LeakEnds(e)
    BY <2>1, TypedParts, ReconConstants, KillLandsDoes DEF others, histVars
  <2>2. CASE RemovalSettles(e)
    BY <2>2, TypedParts, ReconConstants DEF RemovalSettles, others, histVars
  <2>3. CASE EngineReady(e) \/ EngineWedges(e)
    BY <2>3, TypedParts, ReconConstants, EngineRunsDoes DEF others, histVars
  <2>4. CASE EngineDrops(e) \/ EngineUnlinked(e) \/ EngineFails(e) \/ StuckAuth(e) \/ WipeLands(e)
    BY <2>4, TypedParts, ReconConstants, EngineEndsDoes DEF others, histVars
  <2>5. CASE ProbeFails(e) \/ ProbePasses
    BY <2>5, TypedParts, ReconConstants, ProbesDoes DEF others, histVars
  <2>6. CASE DropHandled(e)
    BY <2>6, TypedParts, ReconConstants, DropHandledDoes
  <2>7. CASE DropUnread(e)
    BY <2>7, TypedParts, ReconConstants, DropUnreadDoes DEF others, histVars
  <2>. QED BY <2>1, <2>2, <2>3, <2>4, <2>5, <2>6, <2>7, <1>7 DEF EngineSteps
<1>. QED BY <1>1, <1>2, <1>3, <1>4, <1>5, <1>6, <1>7, NextCases


\* A timer belongs to reconnect state.
LEMMA ArmedIsKeptStep ==
    ASSUME Typed, mem.recon.armed => mem.recon.kept, [Next]_vars
    PROVE  mem'.recon.armed => mem'.recon.kept
<1>1. CASE UNCHANGED vars
  BY <1>1, TypedParts, ReconConstants DEF vars, histVars
<1>2. CASE StartSteps
  <2>1. CASE StartCalled
    BY <2>1, TypedParts, ReconConstants, StartCalledDoes DEF elsewhere, Begun
  <2>2. CASE HookDone
    <3>1. mem'.recon = FreshRecon
      BY <2>2, HookDoneDoes DEF Registered
    <3>. QED BY <3>1, ReconConstants
  <2>3. CASE ReapEnds
    BY <2>3, TypedParts, ReconConstants, ReapEndsDoes DEF elsewhere, histVars
  <2>. QED BY <2>1, <2>2, <2>3, <1>2 DEF StartSteps
<1>3. ASSUME NEW l \in Launcher, LaunchSteps(l)
      PROVE  mem'.recon.armed => mem'.recon.kept
  <2>1. CASE FenceOpens(l)
    <3>1. CASE l = Start
      BY <2>1, <3>1, TypedParts, FenceOpensDoes, ReconConstants DEF elsewhere, histVars
    <3>2. CASE l # Start
      BY <2>1, <3>2, TypedParts, FenceOpensDoes, ReconConstants DEF Registered, elsewhere, histVars
    <3>. QED BY <3>1, <3>2
  <2>2. CASE FenceRefuses(l)
    BY <2>2, TypedParts, ReconConstants, FenceRefusesDoes DEF elsewhere
  <2>3. CASE WriteSettles(l)
    BY <2>3, TypedParts, ReconConstants, WriteSettlesDoes DEF elsewhere, histVars
  <2>4. CASE WriteFails(l)
    BY <2>4, TypedParts, ReconConstants, WriteFailsDoes DEF elsewhere
  <2>5. CASE InitResolves(l)
    BY <2>5, TypedParts, ReconConstants, InitResolvesDoes DEF elsewhere, histVars
  <2>6. CASE InitRejects(l)
    BY <2>6, TypedParts, ReconConstants, InitRejectsDoes DEF elsewhere
  <2>7. CASE InitTimesOut(l)
    BY <2>7, TypedParts, ReconConstants, InitTimesOutDoes DEF elsewhere, histVars
  <2>8. CASE LateKillEnds(l)
    BY <2>8, TypedParts, ReconConstants, LateKillEndsDoes DEF elsewhere
  <2>9. CASE RowRead(l)
    BY <2>9, TypedParts, ReconConstants, RowReadDoes DEF elsewhere
  <2>10. CASE RetireEnds(l) \/ RetireTimesOut(l)
    BY <2>10, TypedParts, ReconConstants, RetireEndsDoes DEF elsewhere, histVars
  <2>11. CASE Repurged(l)
    BY <2>11, TypedParts, ReconConstants, RepurgedDoes DEF elsewhere, histVars
  <2>12. CASE OldEngineGone(l)
    BY <2>12, TypedParts, ReconConstants, OldEngineGoneDoes DEF elsewhere, histVars
  <2>13. CASE DestroyTimesOut(l)
    BY <2>13, TypedParts, ReconConstants, DestroyTimesOutDoes DEF elsewhere, histVars
  <2>. QED BY <2>1, <2>2, <2>3, <2>4, <2>5, <2>6, <2>7, <2>8, <2>9, <2>10, <2>11, <2>12, <2>13, <1>3 DEF LaunchSteps
<1>4. ASSUME NEW l \in Attempt, TimerFires(l)
      PROVE  mem'.recon.armed => mem'.recon.kept
  BY <1>4, TypedParts, ReconConstants, TimerFiresDoes DEF elsewhere, Begun, Registered
<1>5. ASSUME NEW q \in Request, NEW kind \in Kinds, CallMade(q, kind)
      PROVE  mem'.recon.armed => mem'.recon.kept
  <2>1. CASE kind \in {"stop", "delete"} /\ Called(q, kind)
    BY <1>5, <2>1, TypedParts, ReconConstants, CalledDoes DEF CallMade
  <2>2. CASE kind \in {"logout", "kill"} /\ EngineCalled(q, kind)
    BY <1>5, <2>2, TypedParts, ReconConstants, EngineCalledDoes DEF CallMade
  <2>. QED BY <2>1, <2>2, <1>5 DEF CallMade
<1>6. ASSUME NEW q \in Request, RequestSteps(q)
      PROVE  mem'.recon.armed => mem'.recon.kept
  <2>1. CASE StopCaptures(q)
    BY <2>1, TypedParts, ReconConstants, StopCapturesDoes DEF histVars
  <2>2. CASE WaitEnds(q)
    BY <2>2, TypedParts, ReconConstants, WaitEndsDoes DEF histVars
  <2>3. CASE StopCloses(q) \/ LogoutReturns(q) \/ KillEnds(q)
    BY <2>3, TypedParts, ReconConstants, ClosesDoes DEF histVars
  <2>4. CASE LogoutOverruns(q)
    BY <2>4, TypedParts, ReconConstants, LogoutOverrunsDoes DEF histVars
  <2>5. CASE StopEscalates(q)
    BY <2>5, TypedParts, ReconConstants, StopEscalatesDoes DEF histVars
  <2>6. CASE DeleteEnters(q)
    BY <2>6, TypedParts, ReconConstants, DeleteEntersDoes DEF DeleteStarts, histVars
  <2>7. CASE DeleteFenceOpens(q)
    BY <2>7, TypedParts, ReconConstants, DeleteFenceOpensDoes DEF DeleteStarts, histVars
  <2>8. CASE DeleteRefused(q)
    BY <2>8, TypedParts, ReconConstants, DeleteRefusedDoes
  <2>9. CASE RowDeleted(q)
    BY <2>9, TypedParts, ReconConstants, RowDeletedDoes DEF histVars
  <2>10. CASE NotFound(q) \/ DeleteFails(q) \/ Purged(q)
    BY <2>10, TypedParts, ReconConstants, UnmarksDoes DEF histVars
  <2>. QED BY <2>1, <2>2, <2>3, <2>4, <2>5, <2>6, <2>7, <2>8, <2>9, <2>10, <1>6 DEF RequestSteps
<1>7. ASSUME NEW e \in Engine, EngineSteps(e)
      PROVE  mem'.recon.armed => mem'.recon.kept
  <2>1. CASE KillLands(e) \/ LeakEnds(e)
    BY <2>1, TypedParts, ReconConstants, KillLandsDoes DEF others, histVars
  <2>2. CASE RemovalSettles(e)
    BY <2>2, TypedParts, ReconConstants DEF RemovalSettles, others, histVars
  <2>3. CASE EngineReady(e) \/ EngineWedges(e)
    BY <2>3, TypedParts, ReconConstants, EngineRunsDoes DEF others, histVars
  <2>4. CASE EngineDrops(e) \/ EngineUnlinked(e) \/ EngineFails(e) \/ StuckAuth(e) \/ WipeLands(e)
    BY <2>4, TypedParts, ReconConstants, EngineEndsDoes DEF others, histVars
  <2>5. CASE ProbeFails(e) \/ ProbePasses
    BY <2>5, TypedParts, ReconConstants, ProbesDoes DEF others, histVars
  <2>6. CASE DropHandled(e)
    BY <2>6, TypedParts, ReconConstants, DropHandledDoes
  <2>7. CASE DropUnread(e)
    BY <2>7, TypedParts, ReconConstants, DropUnreadDoes DEF others, histVars
  <2>. QED BY <2>1, <2>2, <2>3, <2>4, <2>5, <2>6, <2>7, <1>7 DEF EngineSteps
<1>. QED BY <1>1, <1>2, <1>3, <1>4, <1>5, <1>6, <1>7, NextCases


\* The row goes in delete()'s transaction.
LEMMA RowFalls ==
    ASSUME Typed, [Next]_vars
    PROVE  \/ row' = row
           \/ \E r \in Request : request[r].at = "deleting" /\ UNCHANGED <<mem, launch, removing>>
<1>1. CASE UNCHANGED vars
  BY <1>1, TypedParts DEF vars, histVars
<1>2. CASE StartSteps
  <2>1. CASE StartCalled
    BY <2>1, TypedParts, StartCalledDoes DEF elsewhere, Begun
  <2>2. CASE HookDone
    BY <2>2, TypedParts, HookDoneDoes DEF elsewhere, Registered, histVars
  <2>3. CASE ReapEnds
    BY <2>3, TypedParts, ReapEndsDoes DEF elsewhere, histVars
  <2>. QED BY <2>1, <2>2, <2>3, <1>2 DEF StartSteps
<1>3. ASSUME NEW l \in Launcher, LaunchSteps(l)
      PROVE  \/ row' = row
             \/ \E r \in Request : request[r].at = "deleting" /\ UNCHANGED <<mem, launch, removing>>
  <2>1. CASE FenceOpens(l)
    BY <2>1, TypedParts, FenceOpensDoes DEF elsewhere, Registered, histVars
  <2>2. CASE FenceRefuses(l)
    BY <2>2, TypedParts, FenceRefusesDoes DEF elsewhere
  <2>3. CASE WriteSettles(l)
    BY <2>3, TypedParts, WriteSettlesDoes DEF elsewhere, histVars
  <2>4. CASE WriteFails(l)
    BY <2>4, TypedParts, WriteFailsDoes DEF elsewhere
  <2>5. CASE InitResolves(l)
    BY <2>5, TypedParts, InitResolvesDoes DEF elsewhere, histVars
  <2>6. CASE InitRejects(l)
    BY <2>6, TypedParts, InitRejectsDoes DEF elsewhere
  <2>7. CASE InitTimesOut(l)
    BY <2>7, TypedParts, InitTimesOutDoes DEF elsewhere, histVars
  <2>8. CASE LateKillEnds(l)
    BY <2>8, TypedParts, LateKillEndsDoes DEF elsewhere
  <2>9. CASE RowRead(l)
    BY <2>9, TypedParts, RowReadDoes DEF elsewhere
  <2>10. CASE RetireEnds(l) \/ RetireTimesOut(l)
    BY <2>10, TypedParts, RetireEndsDoes DEF elsewhere, histVars
  <2>11. CASE Repurged(l)
    BY <2>11, TypedParts, RepurgedDoes DEF elsewhere, histVars
  <2>12. CASE OldEngineGone(l)
    BY <2>12, TypedParts, OldEngineGoneDoes DEF elsewhere, histVars
  <2>13. CASE DestroyTimesOut(l)
    BY <2>13, TypedParts, DestroyTimesOutDoes DEF elsewhere, histVars
  <2>. QED BY <2>1, <2>2, <2>3, <2>4, <2>5, <2>6, <2>7, <2>8, <2>9, <2>10, <2>11, <2>12, <2>13, <1>3 DEF LaunchSteps
<1>4. ASSUME NEW l \in Attempt, TimerFires(l)
      PROVE  \/ row' = row
             \/ \E r \in Request : request[r].at = "deleting" /\ UNCHANGED <<mem, launch, removing>>
  BY <1>4, TypedParts, TimerFiresDoes DEF elsewhere, Begun, Registered
<1>5. ASSUME NEW q \in Request, NEW kind \in Kinds, CallMade(q, kind)
      PROVE  \/ row' = row
             \/ \E r \in Request : request[r].at = "deleting" /\ UNCHANGED <<mem, launch, removing>>
  <2>1. CASE kind \in {"stop", "delete"} /\ Called(q, kind)
    BY <1>5, <2>1, TypedParts, CalledDoes DEF CallMade
  <2>2. CASE kind \in {"logout", "kill"} /\ EngineCalled(q, kind)
    BY <1>5, <2>2, TypedParts, EngineCalledDoes DEF CallMade
  <2>. QED BY <2>1, <2>2, <1>5 DEF CallMade
<1>6. ASSUME NEW q \in Request, RequestSteps(q)
      PROVE  \/ row' = row
             \/ \E r \in Request : request[r].at = "deleting" /\ UNCHANGED <<mem, launch, removing>>
  <2>1. CASE StopCaptures(q)
    BY <2>1, TypedParts, StopCapturesDoes DEF histVars
  <2>2. CASE WaitEnds(q)
    BY <2>2, TypedParts, WaitEndsDoes DEF histVars
  <2>3. CASE StopCloses(q) \/ LogoutReturns(q) \/ KillEnds(q)
    BY <2>3, TypedParts, ClosesDoes DEF histVars
  <2>4. CASE LogoutOverruns(q)
    BY <2>4, TypedParts, LogoutOverrunsDoes DEF histVars
  <2>5. CASE StopEscalates(q)
    BY <2>5, TypedParts, StopEscalatesDoes DEF histVars
  <2>6. CASE DeleteEnters(q)
    BY <2>6, TypedParts, DeleteEntersDoes DEF DeleteStarts, histVars
  <2>7. CASE DeleteFenceOpens(q)
    BY <2>7, TypedParts, DeleteFenceOpensDoes DEF DeleteStarts, histVars
  <2>8. CASE DeleteRefused(q)
    BY <2>8, TypedParts, DeleteRefusedDoes
  <2>9. CASE RowDeleted(q)
    BY <2>9, TypedParts, RowDeletedDoes DEF histVars
  <2>10. CASE NotFound(q) \/ DeleteFails(q) \/ Purged(q)
    BY <2>10, TypedParts, UnmarksDoes DEF histVars
  <2>. QED BY <2>1, <2>2, <2>3, <2>4, <2>5, <2>6, <2>7, <2>8, <2>9, <2>10, <1>6 DEF RequestSteps
<1>7. ASSUME NEW e \in Engine, EngineSteps(e)
      PROVE  \/ row' = row
             \/ \E r \in Request : request[r].at = "deleting" /\ UNCHANGED <<mem, launch, removing>>
  <2>1. CASE KillLands(e) \/ LeakEnds(e)
    BY <2>1, TypedParts, KillLandsDoes DEF others, histVars
  <2>2. CASE RemovalSettles(e)
    BY <2>2, TypedParts DEF RemovalSettles, others, histVars
  <2>3. CASE EngineReady(e) \/ EngineWedges(e)
    BY <2>3, TypedParts, EngineRunsDoes DEF others, histVars
  <2>4. CASE EngineDrops(e) \/ EngineUnlinked(e) \/ EngineFails(e) \/ StuckAuth(e) \/ WipeLands(e)
    BY <2>4, TypedParts, EngineEndsDoes DEF others, histVars
  <2>5. CASE ProbeFails(e) \/ ProbePasses
    BY <2>5, TypedParts, ProbesDoes DEF others, histVars
  <2>6. CASE DropHandled(e)
    BY <2>6, TypedParts, DropHandledDoes
  <2>7. CASE DropUnread(e)
    BY <2>7, TypedParts, DropUnreadDoes DEF others, histVars
  <2>. QED BY <2>1, <2>2, <2>3, <2>4, <2>5, <2>6, <2>7, <1>7 DEF EngineSteps
<1>. QED BY <1>1, <1>2, <1>3, <1>4, <1>5, <1>6, <1>7, NextCases


\* The mark is taken back by a call that finds no row or ends a delete(), and
\* by start().
LEMMA MarkIsTakenBack ==
    ASSUME Typed, [Next]_vars
    PROVE  \/ mem'.mark \/ ~mem.mark \/ ~row \/ \E r \in Request : Late(r)
           \/ mem.registry = NoEngine \/ launch[Start].at = "fenced"
<1>1. CASE UNCHANGED vars
  BY <1>1, TypedParts DEF vars, histVars, Late
<1>2. CASE StartSteps
  <2>1. CASE StartCalled
    BY <2>1, TypedParts, StartCalledDoes DEF elsewhere, Begun, Late
  <2>2. CASE HookDone
    BY <2>2, TypedParts, HookDoneDoes DEF elsewhere, Registered, histVars, Late
  <2>3. CASE ReapEnds
    BY <2>3, TypedParts, ReapEndsDoes DEF elsewhere, histVars, Late
  <2>. QED BY <2>1, <2>2, <2>3, <1>2 DEF StartSteps
<1>3. ASSUME NEW l \in Launcher, LaunchSteps(l)
      PROVE  \/ mem'.mark \/ ~mem.mark \/ ~row \/ \E r \in Request : Late(r)
             \/ mem.registry = NoEngine \/ launch[Start].at = "fenced"
  <2>1. CASE FenceOpens(l)
    <3>1. CASE l = Start
      BY <2>1, <3>1, TypedParts, FenceOpensDoes DEF elsewhere, histVars, Late
    <3>2. CASE l # Start
      BY <2>1, <3>2, TypedParts, FenceOpensDoes DEF Registered, elsewhere, histVars, Late
    <3>. QED BY <3>1, <3>2
  <2>2. CASE FenceRefuses(l)
    BY <2>2, TypedParts, FenceRefusesDoes DEF elsewhere, Late
  <2>3. CASE WriteSettles(l)
    BY <2>3, TypedParts, WriteSettlesDoes DEF elsewhere, histVars, Late
  <2>4. CASE WriteFails(l)
    BY <2>4, TypedParts, WriteFailsDoes DEF elsewhere, Late
  <2>5. CASE InitResolves(l)
    BY <2>5, TypedParts, InitResolvesDoes DEF elsewhere, histVars, Late
  <2>6. CASE InitRejects(l)
    BY <2>6, TypedParts, InitRejectsDoes DEF elsewhere, Late
  <2>7. CASE InitTimesOut(l)
    BY <2>7, TypedParts, InitTimesOutDoes DEF elsewhere, histVars, Late
  <2>8. CASE LateKillEnds(l)
    BY <2>8, TypedParts, LateKillEndsDoes DEF elsewhere, Late
  <2>9. CASE RowRead(l)
    BY <2>9, TypedParts, RowReadDoes DEF elsewhere, Late
  <2>10. CASE RetireEnds(l) \/ RetireTimesOut(l)
    BY <2>10, TypedParts, RetireEndsDoes DEF elsewhere, histVars, Late
  <2>11. CASE Repurged(l)
    BY <2>11, TypedParts, RepurgedDoes DEF elsewhere, histVars, Late
  <2>12. CASE OldEngineGone(l)
    BY <2>12, TypedParts, OldEngineGoneDoes DEF elsewhere, histVars, Late
  <2>13. CASE DestroyTimesOut(l)
    BY <2>13, TypedParts, DestroyTimesOutDoes DEF elsewhere, histVars, Late
  <2>. QED BY <2>1, <2>2, <2>3, <2>4, <2>5, <2>6, <2>7, <2>8, <2>9, <2>10, <2>11, <2>12, <2>13, <1>3 DEF LaunchSteps
<1>4. ASSUME NEW l \in Attempt, TimerFires(l)
      PROVE  \/ mem'.mark \/ ~mem.mark \/ ~row \/ \E r \in Request : Late(r)
             \/ mem.registry = NoEngine \/ launch[Start].at = "fenced"
  BY <1>4, TypedParts, TimerFiresDoes DEF elsewhere, Begun, Registered, Late
<1>5. ASSUME NEW q \in Request, NEW kind \in Kinds, CallMade(q, kind)
      PROVE  \/ mem'.mark \/ ~mem.mark \/ ~row \/ \E r \in Request : Late(r)
             \/ mem.registry = NoEngine \/ launch[Start].at = "fenced"
  <2>1. CASE kind \in {"stop", "delete"} /\ Called(q, kind)
    BY <1>5, <2>1, TypedParts, CalledDoes DEF CallMade, Late
  <2>2. CASE kind \in {"logout", "kill"} /\ EngineCalled(q, kind)
    BY <1>5, <2>2, TypedParts, EngineCalledDoes DEF CallMade, Late
  <2>. QED BY <2>1, <2>2, <1>5 DEF CallMade
<1>6. ASSUME NEW q \in Request, RequestSteps(q)
      PROVE  \/ mem'.mark \/ ~mem.mark \/ ~row \/ \E r \in Request : Late(r)
             \/ mem.registry = NoEngine \/ launch[Start].at = "fenced"
  <2>1. CASE StopCaptures(q)
    BY <2>1, TypedParts, StopCapturesDoes DEF histVars, Late
  <2>2. CASE WaitEnds(q)
    BY <2>2, TypedParts, WaitEndsDoes DEF histVars, Late
  <2>3. CASE StopCloses(q) \/ LogoutReturns(q) \/ KillEnds(q)
    BY <2>3, TypedParts, ClosesDoes DEF histVars, Late
  <2>4. CASE LogoutOverruns(q)
    BY <2>4, TypedParts, LogoutOverrunsDoes DEF histVars, Late
  <2>5. CASE StopEscalates(q)
    BY <2>5, TypedParts, StopEscalatesDoes DEF histVars, Late
  <2>6. CASE DeleteEnters(q)
    BY <2>6, TypedParts, DeleteEntersDoes DEF DeleteStarts, histVars, Late
  <2>7. CASE DeleteFenceOpens(q)
    BY <2>7, TypedParts, DeleteFenceOpensDoes DEF DeleteStarts, histVars, Late
  <2>8. CASE DeleteRefused(q)
    BY <2>8, TypedParts, DeleteRefusedDoes DEF Late
  <2>9. CASE RowDeleted(q)
    BY <2>9, TypedParts, RowDeletedDoes DEF histVars, Late
  <2>10. CASE NotFound(q) \/ DeleteFails(q) \/ Purged(q)
    BY <2>10, TypedParts, UnmarksDoes DEF histVars, Late
  <2>. QED BY <2>1, <2>2, <2>3, <2>4, <2>5, <2>6, <2>7, <2>8, <2>9, <2>10, <1>6 DEF RequestSteps
<1>7. ASSUME NEW e \in Engine, EngineSteps(e)
      PROVE  \/ mem'.mark \/ ~mem.mark \/ ~row \/ \E r \in Request : Late(r)
             \/ mem.registry = NoEngine \/ launch[Start].at = "fenced"
  <2>1. CASE KillLands(e) \/ LeakEnds(e)
    BY <2>1, TypedParts, KillLandsDoes DEF others, histVars, Late
  <2>2. CASE RemovalSettles(e)
    BY <2>2, TypedParts DEF RemovalSettles, others, histVars, Late
  <2>3. CASE EngineReady(e) \/ EngineWedges(e)
    BY <2>3, TypedParts, EngineRunsDoes DEF others, histVars, Late
  <2>4. CASE EngineDrops(e) \/ EngineUnlinked(e) \/ EngineFails(e) \/ StuckAuth(e) \/ WipeLands(e)
    BY <2>4, TypedParts, EngineEndsDoes DEF others, histVars, Late
  <2>5. CASE ProbeFails(e) \/ ProbePasses
    BY <2>5, TypedParts, ProbesDoes DEF others, histVars, Late
  <2>6. CASE DropHandled(e)
    BY <2>6, TypedParts, DropHandledDoes DEF Late
  <2>7. CASE DropUnread(e)
    BY <2>7, TypedParts, DropUnreadDoes DEF others, histVars, Late
  <2>. QED BY <2>1, <2>2, <2>3, <2>4, <2>5, <2>6, <2>7, <1>7 DEF EngineSteps
<1>. QED BY <1>1, <1>2, <1>3, <1>4, <1>5, <1>6, <1>7, NextCases


\* A delete() goes past its teardown when its engine is out of the registry,
\* and then waits for the removals it finds.
LEMMA LateBegins ==
    ASSUME Typed, [Next]_vars, NEW r \in Request
    PROVE  \/ ~Late(r)' \/ request'[r] = request[r]
           \/ /\ removing' = removing /\ launch' = launch
              /\ \/ Late(r) /\ mem' = mem
                 \/ /\ Captured(r) /\ mem'.recon = mem.recon
                    /\ mem'.registry = IF mem.registry = request[r].eng THEN NoEngine ELSE mem.registry
                 \/ mem'.registry = NoEngine /\ ~mem'.recon.kept
              /\ \/ request'[r].at = "purging" \/ removing = {}
                 \/ request'[r].at = "fenced again" /\ request'[r].waits = removing
                 \/ request[r].at = "fenced again" /\ request[r].waits \cap removing = {}
<1>1. CASE UNCHANGED vars
  BY <1>1 DEF vars, Late
<1>5. ASSUME NEW q \in Request, NEW kind \in Kinds, CallMade(q, kind)
      PROVE  \/ ~Late(r)' \/ request'[r] = request[r]
             \/ /\ removing' = removing /\ launch' = launch
                /\ \/ Late(r) /\ mem' = mem
                   \/ /\ Captured(r) /\ mem'.recon = mem.recon
                      /\ mem'.registry = IF mem.registry = request[r].eng THEN NoEngine ELSE mem.registry
                   \/ mem'.registry = NoEngine /\ ~mem'.recon.kept
                /\ \/ request'[r].at = "purging" \/ removing = {}
                   \/ request'[r].at = "fenced again" /\ request'[r].waits = removing
                   \/ request[r].at = "fenced again" /\ request[r].waits \cap removing = {}
  <2>1. CASE kind \in {"stop", "delete"} /\ Called(q, kind)
    <3>1. CASE r # q
      <4>1. request'[r] = request[r]
        BY <3>1, <1>5, <2>1, CalledDoes
      <4>. QED BY <4>1
    <3>2. CASE r = q
      BY <3>2, <1>5, <2>1, CalledDoes, TypedParts, ReconConstants DEF Late, Captured, histVars
    <3>. QED BY <3>1, <3>2
  <2>2. CASE kind \in {"logout", "kill"} /\ EngineCalled(q, kind)
    <3>1. CASE r # q
      <4>1. request'[r] = request[r]
        BY <3>1, <1>5, <2>2, EngineCalledDoes
      <4>. QED BY <4>1
    <3>2. CASE r = q
      BY <3>2, <1>5, <2>2, EngineCalledDoes, TypedParts, ReconConstants DEF Late, Captured, histVars
    <3>. QED BY <3>1, <3>2
  <2>. QED BY <2>1, <2>2, <1>5 DEF CallMade
<1>6. ASSUME NEW q \in Request, RequestSteps(q)
      PROVE  \/ ~Late(r)' \/ request'[r] = request[r]
             \/ /\ removing' = removing /\ launch' = launch
                /\ \/ Late(r) /\ mem' = mem
                   \/ /\ Captured(r) /\ mem'.recon = mem.recon
                      /\ mem'.registry = IF mem.registry = request[r].eng THEN NoEngine ELSE mem.registry
                   \/ mem'.registry = NoEngine /\ ~mem'.recon.kept
                /\ \/ request'[r].at = "purging" \/ removing = {}
                   \/ request'[r].at = "fenced again" /\ request'[r].waits = removing
                   \/ request[r].at = "fenced again" /\ request[r].waits \cap removing = {}
  <2>1. CASE StopCaptures(q)
    <3>1. CASE r # q
      <4>1. request'[r] = request[r]
        BY <3>1, <2>1, StopCapturesDoes
      <4>. QED BY <4>1
    <3>2. CASE r = q
      BY <3>2, <2>1, StopCapturesDoes, TypedParts, ReconConstants DEF Late, Captured, histVars
    <3>. QED BY <3>1, <3>2
  <2>2. CASE WaitEnds(q)
    <3>1. CASE r # q
      <4>1. request'[r] = request[r]
        BY <3>1, <2>2, WaitEndsDoes
      <4>. QED BY <4>1
    <3>2. CASE r = q
      BY <3>2, <2>2, WaitEndsDoes, TypedParts, ReconConstants DEF Late, Captured, histVars
    <3>. QED BY <3>1, <3>2
  <2>3. CASE StopCloses(q) \/ LogoutReturns(q) \/ KillEnds(q)
    <3>1. CASE r # q
      <4>1. request'[r] = request[r]
        BY <3>1, <2>3, ClosesDoes
      <4>. QED BY <4>1
    <3>2. CASE r = q
      BY <3>2, <2>3, ClosesDoes, TypedParts, ReconConstants DEF Late, Captured, histVars
    <3>. QED BY <3>1, <3>2
  <2>4. CASE LogoutOverruns(q)
    <3>1. CASE r # q
      <4>1. request'[r] = request[r]
        BY <3>1, <2>4, LogoutOverrunsDoes
      <4>. QED BY <4>1
    <3>2. CASE r = q
      BY <3>2, <2>4, LogoutOverrunsDoes, TypedParts, ReconConstants DEF Late, Captured, histVars
    <3>. QED BY <3>1, <3>2
  <2>5. CASE StopEscalates(q)
    <3>1. CASE r # q
      <4>1. request'[r] = request[r]
        BY <3>1, <2>5, StopEscalatesDoes
      <4>. QED BY <4>1
    <3>2. CASE r = q
      BY <3>2, <2>5, StopEscalatesDoes, TypedParts, ReconConstants DEF Late, Captured, histVars
    <3>. QED BY <3>1, <3>2
  <2>6. CASE DeleteEnters(q)
    <3>1. CASE r # q
      <4>1. request'[r] = request[r]
        BY <3>1, <2>6, DeleteEntersDoes DEF DeleteStarts
      <4>. QED BY <4>1
    <3>2. CASE r = q
      BY <3>2, <2>6, DeleteEntersDoes, TypedParts, ReconConstants DEF Late, Captured, histVars, DeleteStarts
    <3>. QED BY <3>1, <3>2
  <2>7. CASE DeleteFenceOpens(q)
    <3>1. CASE r # q
      <4>1. request'[r] = request[r]
        BY <3>1, <2>7, DeleteFenceOpensDoes DEF DeleteStarts
      <4>. QED BY <4>1
    <3>2. CASE r = q
      BY <3>2, <2>7, DeleteFenceOpensDoes, TypedParts, ReconConstants DEF Late, Captured, histVars, DeleteStarts
    <3>. QED BY <3>1, <3>2
  <2>8. CASE DeleteRefused(q)
    <3>1. CASE r # q
      <4>1. request'[r] = request[r]
        BY <3>1, <2>8, DeleteRefusedDoes
      <4>. QED BY <4>1
    <3>2. CASE r = q
      BY <3>2, <2>8, DeleteRefusedDoes, TypedParts, ReconConstants DEF Late, Captured, histVars
    <3>. QED BY <3>1, <3>2
  <2>9. CASE RowDeleted(q)
    <3>1. CASE r # q
      <4>1. request'[r] = request[r]
        BY <3>1, <2>9, RowDeletedDoes
      <4>. QED BY <4>1
    <3>2. CASE r = q
      BY <3>2, <2>9, RowDeletedDoes, TypedParts, ReconConstants DEF Late, Captured, histVars
    <3>. QED BY <3>1, <3>2
  <2>10. CASE NotFound(q) \/ DeleteFails(q) \/ Purged(q)
    <3>1. CASE r # q
      <4>1. request'[r] = request[r]
        BY <3>1, <2>10, UnmarksDoes
      <4>. QED BY <4>1
    <3>2. CASE r = q
      BY <3>2, <2>10, UnmarksDoes, TypedParts, ReconConstants DEF Late, Captured, histVars
    <3>. QED BY <3>1, <3>2
  <2>. QED BY <2>1, <2>2, <2>3, <2>4, <2>5, <2>6, <2>7, <2>8, <2>9, <2>10, <1>6 DEF RequestSteps
<1>7. CASE StartSteps \/ (\E l \in Launcher : LaunchSteps(l)) \/ (\E l \in Attempt : TimerFires(l)) \/ (\E e \in Engine : EngineSteps(e))
  <2>1. request' = request
    BY <1>7, StartStepsLeave, LaunchStepsLeave, EngineStepsLeave DEF elsewhere, TimerFires
  <2>. QED BY <2>1
<1>. QED BY <1>1, <1>5, <1>6, <1>7, NextCases
\* A delete() past its teardown has left nothing to come back, and so has the
\* one that removed the row.
Settled ==
    /\ \A q \in Request : Captured(q) \/ Late(q) => ~mem.recon.kept
    /\ \A q \in Request : Late(q) => mem.registry = NoEngine
    /\ ~row => mem.registry = NoEngine /\ ~mem.recon.kept /\ \A l \in Launcher : ~Unborn(l)

\* What a call waits for has not been opened, and will not be.
Awaited ==
    \A q \in Request : request[q].at = "waiting" =>
        /\ mem.eng[request[q].eng] \in {"made", "gone"}
        /\ mem.eng[request[q].eng] = "made" => mem.mark

\* A delete() waits for every removal before it gives the name up.
Emptied ==
    \A q \in Request :
        /\ request[q].at = "fenced again" => removing \subseteq request[q].waits
        /\ request[q].at = "deleting" => removing = {}

\* What nobody has to be apart for: a timer has its state, and the write that
\* calls wait for is that of an engine nobody has opened.
Kept ==
    /\ mem.recon.armed => mem.recon.kept
    /\ mem.writing # NoEngine => mem.eng[mem.writing] \in {"made", "gone"}

\* Every step keeps it.
LEMMA KeptStep ==
    ASSUME Typed, Typed', Kept, [Next]_vars
    PROVE  Kept'
<1>1. mem'.recon.armed => mem'.recon.kept
  BY ArmedIsKeptStep DEF Kept
<1>2. ASSUME mem'.writing # NoEngine, mem'.writing = mem.writing
      PROVE  mem'.eng[mem.writing] \in {"made", "gone"}
  <2>1. mem.writing \in Engine /\ mem.writing \in Held /\ mem.eng[mem.writing] \in {"made", "gone"}
    BY <1>2, MemoryFields DEF Kept, Held, Typed, TypeOK
  <2>2. ASSUME NEW k \in Launcher, Opens(k, mem.writing)
        PROVE  FALSE
    BY <1>2, <2>1, <2>2 DEF Opens
  <2>. QED BY <2>1, <2>2, UnopenedStays
<1>3. mem'.writing # NoEngine => mem'.eng[mem'.writing] \in {"made", "gone"}
  BY <1>2, WritingMoves
<1>. QED BY <1>1, <1>3 DEF Kept

\* Where a call has got past its beginning, or the row is gone, no launch
\* registers an engine.
LEMMA NoneRegisters ==
    ASSUME Apart, Kept, Settled, ~crossed', Asked \/ ~row, NEW k \in Launcher, Registers(k)
    PROVE  FALSE
BY RegistersAlone DEF Settled, Kept, Registers, Unborn

\* Every step leaves what is settled so.
LEMMA SettledStep ==
    ASSUME Typed, Typed', \A l \in Launcher : Placed(l), Apart, Kept, Settled, [Next]_vars, ~crossed'
    PROVE  Settled'
<1>1. Asked \/ ~row => mem'.registry \in {mem.registry, NoEngine}
  BY NoneRegisters, RegistryMoves
<1>2. Asked \/ ~row => mem.recon.kept \/ ~mem'.recon.kept
  <2>1. ASSUME Asked \/ ~row, launch[Start].at = "hook"
        PROVE  FALSE
    <3>1. Unborn(Start) /\ Start \in Launcher
      BY <2>1, TypedParts DEF Unborn
    <3>. QED BY <2>1, <3>1 DEF Apart, Settled
  <2>. QED BY <2>1, KeptRises
<1>3. ASSUME NEW q \in Request, Late(q)'
      PROVE  mem'.registry = NoEngine /\ ~mem'.recon.kept
  <2>1. CASE Late(q)
    <3>1. Asked /\ mem.registry = NoEngine /\ ~mem.recon.kept
      BY <2>1 DEF Settled, Asked, Late
    <3>. QED BY <1>1, <1>2, <3>1
  <2>2. CASE ~Late(q)
    <3>1. \/ /\ Captured(q) /\ mem'.recon = mem.recon
             /\ mem'.registry = IF mem.registry = request[q].eng THEN NoEngine ELSE mem.registry
          \/ mem'.registry = NoEngine /\ ~mem'.recon.kept
      BY <1>3, <2>2, LateBegins DEF Late
    <3>. QED BY <3>1 DEF Settled, Apart
  <2>. QED BY <2>1, <2>2
<1>4. ASSUME NEW q \in Request, Captured(q)'
      PROVE  ~mem'.recon.kept
  <2>1. CASE Captured(q)
    <3>1. Asked /\ ~mem.recon.kept
      BY <2>1 DEF Settled, Asked, Captured
    <3>. QED BY <1>2, <3>1
  <2>. QED BY <1>4, <2>1, CapturedBegins
<1>5. ASSUME ~row'
      PROVE  mem'.registry = NoEngine /\ ~mem'.recon.kept /\ \A l \in Launcher : ~Unborn(l)'
  <2>1. CASE row
    <3>1. PICK q \in Request : request[q].at = "deleting" /\ UNCHANGED <<mem, launch, removing>>
      BY <1>5, <2>1, RowFalls
    <3>2. Late(q) /\ Asked
      BY <3>1 DEF Late, Asked
    <3>3. mem.registry = NoEngine /\ ~mem.recon.kept /\ \A l \in Launcher : ~Unborn(l)
      BY <3>2 DEF Settled, Apart
    <3>. QED BY <3>1, <3>3 DEF Unborn
  <2>2. CASE ~row
    <3>1. mem.registry = NoEngine /\ ~mem.recon.kept /\ \A l \in Launcher : ~Unborn(l)
      BY <2>2 DEF Settled
    <3>2. ~mem.recon.armed
      BY <3>1 DEF Kept
    <3>. QED BY <1>1, <1>2, <2>2, <3>1, <3>2, UnbornBegins
  <2>. QED BY <2>1, <2>2
<1>. QED BY <1>3, <1>4, <1>5 DEF Settled

\* An engine that a call waits for stays unopened.
LEMMA AwaitedStep ==
    ASSUME Typed, Typed', \A l \in Launcher : Placed(l), Apart, Sole, Kept, Settled, Awaited, [Next]_vars
    PROVE  Awaited'
<1> SUFFICES ASSUME NEW q \in Request, request'[q].at = "waiting"
             PROVE  /\ mem'.eng[request'[q].eng] \in {"made", "gone"}
                    /\ mem'.eng[request'[q].eng] = "made" => mem'.mark
  BY DEF Awaited
<1> DEFINE f == request'[q].eng
<1>0. f \in Engine /\ NoEngine \notin Engine
  BY TypedParts, TypedShapes DEF RequestShape, RequestFits, Captured, Typed
<1>1. CASE request[q].at = "waiting" /\ request'[q].eng = request[q].eng
  <2>1. f \in Held /\ mem.eng[f] \in {"made", "gone"} /\ (mem.eng[f] = "made" => mem.mark)
    BY <1>1 DEF Held, Awaited
  <2>2. ASSUME NEW k \in Launcher, Opens(k, f)
        PROVE  FALSE
    BY <2>1, <2>2 DEF Opens
  <2>3. mem'.eng[f] \in {"made", "gone"}
    BY <1>0, <2>1, <2>2, UnopenedStays
  <2>4. ASSUME mem'.eng[f] = "made", ~mem'.mark
        PROVE  FALSE
    <3>1. mem.eng[f] # "gone"
      BY <1>0, <2>1, <2>4, GoneStays
    <3>2. mem.eng[f] = "made" /\ mem.mark /\ mem.registry = f
      BY <1>0, <2>1, <3>1 DEF Sole, Usable
    <3>3. mem.registry # NoEngine
      BY <1>0, <3>2
    <3>4. ~(~row \/ (\E r \in Request : Late(r)) \/ launch[Start].at = "fenced")
      <4>1. Start \in Launcher
        BY TypedParts
      <4>. QED BY <3>3, <4>1 DEF Settled, Placed
    <3>. QED BY <2>4, <3>2, <3>3, <3>4, MarkIsTakenBack
  <2>. QED BY <2>3, <2>4
<1>2. CASE ~(request[q].at = "waiting" /\ request'[q].eng = request[q].eng)
  <2>1. /\ f = mem.registry /\ mem.writing = mem.registry /\ mem'.eng = mem.eng /\ mem'.mark
    BY <1>2, CapturedBegins DEF Captured
  <2>. QED BY <1>0, <2>1 DEF Kept
<1>. QED BY <1>1, <1>2

\* No new removal is tracked beside a delete() past its teardown.
LEMMA EmptiedStep ==
    ASSUME Typed, Apart, Sole, Settled, Awaited, Emptied, [Next]_vars
    PROVE  Emptied'
<1>1. ASSUME NEW q \in Request, Late(q)
      PROVE  removing' \subseteq removing
  <2>1. mem.registry = NoEngine /\ NoEngine \notin Engine
    BY <1>1, TypedParts DEF Settled
  <2>2. ASSUME NEW e \in Engine, Removes(e)
        PROVE  FALSE
    <3>1. mem.eng[e] \notin Alive
      BY <2>1 DEF Sole, Usable
    <3>2. PICK r \in Request :
            /\ mem.eng[e] \in Running
            /\ \/ request[r].at = "idle" /\ e = mem.registry
               \/ request[r].at = "waiting" /\ e = request[r].eng
      BY <2>2, <3>1 DEF Removes
    <3>. QED BY <2>1, <3>2 DEF Awaited, Running, Alive
  <2>. QED BY <2>2, RemovingMoves
<1> SUFFICES ASSUME NEW q \in Request
             PROVE  /\ request'[q].at = "fenced again" => removing' \subseteq request'[q].waits
                    /\ request'[q].at = "deleting" => removing' = {}
  BY DEF Emptied
<1>2. CASE ~Late(q)'
  BY <1>2 DEF Late
<1>3. CASE Late(q)' /\ request'[q] = request[q]
  <2>1. removing' \subseteq removing
    BY <1>1, <1>3 DEF Late
  <2>. QED BY <1>3, <2>1 DEF Emptied
<1>4. CASE Late(q)' /\ request'[q] # request[q]
  <2>1. /\ removing' = removing
        /\ \/ request'[q].at = "purging" \/ removing = {}
           \/ request'[q].at = "fenced again" /\ request'[q].waits = removing
           \/ request[q].at = "fenced again" /\ request[q].waits \cap removing = {}
    BY <1>4, LateBegins
  <2>. QED BY <2>1 DEF Emptied
<1>. QED BY <1>2, <1>3, <1>4

\* The invariant behind NameIsFreedClean.
Freed ==
    /\ Fenced /\ Kept
    /\ ~overlapped /\ ~crossed => Settled /\ Awaited /\ Emptied

\* It holds at the start.
LEMMA FreedInit == Init => Freed
<1> SUFFICES ASSUME Init PROVE Freed
  OBVIOUS
<1>1. /\ row /\ mem.recon = NoRecon /\ mem.writing = NoEngine
      /\ \A q \in Request : request[q].at = "idle"
  BY DEF Init, IdleRequest
<1>. QED BY <1>1, FencedInit, ReconConstants DEF Freed, Kept, Settled, Awaited, Emptied, Captured, Late

\* Every step keeps it.
LEMMA FreedStep ==
    ASSUME Freed, [Next]_vars
    PROVE  Freed'
<1>1. Fenced /\ Fenced' /\ Typed /\ Typed'
  BY FencedStep DEF Freed, Fenced, Reached
<1>2. Kept'
  BY <1>1, KeptStep DEF Freed
<1>3. ASSUME ~overlapped', ~crossed' PROVE Settled' /\ Awaited' /\ Emptied'
  <2>1. ~overlapped /\ ~crossed /\ \A l \in Launcher : Placed(l)
    BY <1>1, <1>3, StillClean DEF Fenced
  <2>2. Apart /\ Sole /\ Kept /\ Settled /\ Awaited /\ Emptied
    BY <2>1 DEF Freed, Fenced
  <2>. QED BY <1>1, <1>3, <2>1, <2>2, SettledStep, AwaitedStep, EmptiedStep
<1>. QED BY <1>1, <1>2, <1>3 DEF Freed

\* A name is given up only when no tracked removal is left.
THEOREM LifecycleNameIsFreed == Spec => NameIsFreedClean
<1>1. ASSUME Freed, [Next]_vars, ~crossed', ~overlapped', row, ~row'
      PROVE  removing = {}
  <2>1. Emptied
    BY <1>1, StillClean DEF Freed, Fenced
  <2>2. Typed
    BY <1>1 DEF Freed, Fenced, Reached
  <2>. QED BY <1>1, <2>1, <2>2, RowFalls DEF Emptied
<1>2. Freed /\ [Next]_vars => [~crossed' /\ ~overlapped' /\ row /\ ~row' => removing = {}]_vars
  BY <1>1
<1>. QED BY FreedInit, FreedStep, <1>2, PTL DEF Spec, NameIsFreedClean

=============================================================================
