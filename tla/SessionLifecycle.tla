--------------------------- MODULE SessionLifecycle ---------------------------
(***************************************************************************)
(* The engines of one session inside one process: start(), the automatic   *)
(* reconnect, stop / logout / forceKill / delete, and what the engines     *)
(* report (session-engine-controls.ts, session-engine-lifecycle.service.ts,*)
(* session-lifecycle-fences.ts, session-engine-event-wiring.ts, the        *)
(* liveness watchdog and the lifecycle of the two adapters).               *)
(*                                                                         *)
(* An engine is an object with an identity: the registry names at most one,*)
(* but others may still be opening, closing or deleting the credentials    *)
(* that all engines of a session share on disk.  Which process may run the *)
(* session is SessionOwnership's subject and left out here.                *)
(*                                                                         *)
(* Code between two awaits is one action.  What such code does to the      *)
(* process's memory is a function on `mem`, so that handlers that call     *)
(* each other compose.                                                     *)
(***************************************************************************)
EXTENDS Naturals, FiniteSets

CONSTANTS Engine,      \* identities; one is reused once nobody holds it
          NoEngine,
          Start,       \* the start() call; initializingSessions admits one
          Attempt,     \* executeReconnect() calls
          Request,     \* stop(), logout(), forceKill() and delete() calls
          MaxAttempts, \* maxAttempts of the reconnect policy
          MaxCalls,    \* bounds: the calls made in a run,
          MaxFaults    \* and the things that go wrong

ASSUME LifecycleAssumption ==
    /\ NoEngine \notin Engine
    /\ Start \notin Attempt
    /\ {MaxAttempts, MaxCalls, MaxFaults} \subseteq Nat

Launcher == {Start} \cup Attempt

VARIABLES
    row,       \* the session's row exists
    profile,   \* credentials on disk, under the session's name
    mem,       \* see Memory
    removing,  \* pendingTeardowns: engines whose tracked rm has not settled
    wiping,    \* engines whose rm nobody tracks (stuck-auth recovery)
    launch,    \* start() and executeReconnect() in flight
    request,   \* the retiring calls in flight
    losing,    \* handleEngineDisconnected() calls that await the row
    calls, faults, \* what the bounds count
    \* history, read by properties only
    overlapped, \* a launch began, or the reconnects were given up, during a launch
    crossed,    \* a call and a launch without an engine yet were under way together
    refused,    \* a delete() was refused at its first fence
    escaped     \* a launch ended without having seen the row go

histVars == <<overlapped, crossed, refused, escaped>>
vars == <<row, profile, mem, removing, wiping, launch, request, losing, calls, faults, histVars>>

Statuses == {"CREATED", "INITIALIZING", "READY", "DISCONNECTED", "FAILED"}

\* made: constructed only; open: initialize() was called; wedged: dead without a
\* word; lost: it reported its disconnect; unheard: it did and the report was
\* dropped; closing: a teardown has begun; leaked: one timed out for good.
EngineStates == {"none", "made", "open", "ready", "wedged", "lost", "unheard",
                 "closing", "leaked", "gone"}
Alive == {"open", "ready", "wedged"}
Running == Alive \cup {"lost", "unheard", "closing", "leaked"}

\* A reconnectStates entry; `kept` FALSE stands for no entry.
Recon == [kept: BOOLEAN, armed: BOOLEAN, attempts: 0 .. MaxAttempts]
NoRecon == [kept |-> FALSE, armed |-> FALSE, attempts |-> 0]
FreshRecon == [NoRecon EXCEPT !.kept = TRUE]

Memory == [registry: Engine \cup {NoEngine},  \* EngineRegistry
           mark: BOOLEAN,                     \* stoppingSessions
           recon: Recon,
           writing: Engine \cup {NoEngine},   \* pendingInitialStatuses
           misses: 0 .. 1,                    \* the watchdog's failures
           recovered: BOOLEAN,                \* stuckAuthRecoveryUsed
           dying: SUBSET Engine,              \* closings nobody waits for
           eng: [Engine -> EngineStates],
           status: Statuses]                  \* the row's status column

LaunchAt == {"idle", "fenced", "hook", "writing", "initializing", "killing", "reaping",
             "checking", "retiring", "repurging", "destroying", "escalating"}
\* eng: the engine it made; victim: the one it tears down; waits: the removals
\* it found pending at the fence.
IdleLaunch == [at |-> "idle", eng |-> NoEngine, victim |-> NoEngine, waits |-> {}]

Kinds == {"stop", "logout", "kill", "delete"}
RequestAt == {"idle", "entered", "fenced", "waiting", "closing", "killing", "fenced again",
              "deleting", "purging"}
IdleRequest == [at |-> "idle", kind |-> "stop", eng |-> NoEngine, waits |-> {}]

Init ==
    /\ row = TRUE
    /\ profile = FALSE
    /\ mem = [registry |-> NoEngine, mark |-> FALSE, recon |-> NoRecon,
              writing |-> NoEngine, misses |-> 0, recovered |-> FALSE, dying |-> {},
              eng |-> [e \in Engine |-> "none"], status |-> "CREATED"]
    /\ removing = {} /\ wiping = {} /\ losing = {}
    /\ launch = [l \in Launcher |-> IdleLaunch]
    /\ request = [q \in Request |-> IdleRequest]
    /\ calls = 0 /\ faults = 0
    /\ overlapped = FALSE /\ crossed = FALSE /\ refused = FALSE /\ escaped = FALSE

-----------------------------------------------------------------------------
(* What synchronous code does to the memory.                               *)

\* A status write reaches the row if there is one.
Report(m, s) == [m EXCEPT !.status = IF row THEN s ELSE @]

\* An adapter is single-use: from the first moment of a teardown on it opens
\* nothing and reports nothing more.
Latch(state) == IF state \in {"made", "gone"} THEN "gone"
                ELSE IF state = "leaked" THEN "leaked" ELSE "closing"

\* A teardown begins.  The adapter announces DISCONNECTED at once, and the
\* callback is heard while the engine is still registered.
Shut(m, e) ==
    LET closed == [m EXCEPT !.eng[e] = Latch(@)]
    IN IF m.registry = e /\ m.eng[e] \in Alive THEN Report(closed, "DISCONNECTED")
       ELSE closed

Gone(m, e) == [m EXCEPT !.eng[e] = "gone"]

\* EngineRegistry.deleteIfLive()
DeleteIfLive(m, e) == IF m.registry = e THEN [m EXCEPT !.registry = NoEngine] ELSE m

CancelReconnect(m) == [m EXCEPT !.recon = NoRecon]

\* Mutant: the engine is evicted and not killed.
EvictOnly(m, e) == [m EXCEPT !.registry = NoEngine]

\* evictAndForceDestroy(): the kill runs on its own.
Evict(m, e) == [Shut([m EXCEPT !.registry = NoEngine], e) EXCEPT !.dying = @ \cup {e}]

EvictRegistered(m) == IF m.registry = NoEngine THEN m ELSE Evict(m, m.registry)

\* The attempts spent when decideReconnect() looks: none, if five minutes have
\* passed since the last one was scheduled.
Spent(m, stable) == IF stable THEN 0 ELSE m.recon.attempts

\* Mutant: a spent budget leaves the dead engine registered.
RescheduleKeepsEngine(m, stable) ==
    IF ~m.recon.kept THEN m
    ELSE IF Spent(m, stable) >= MaxAttempts THEN CancelReconnect(Report(m, "FAILED"))
    ELSE [m EXCEPT !.recon.armed = TRUE, !.recon.attempts = Spent(m, stable) + 1]

\* scheduleReconnect() with decideReconnect(): give up when the budget is spent,
\* otherwise arm the timer again.
Reschedule(m, stable) ==
    IF ~m.recon.kept THEN m
    ELSE IF Spent(m, stable) >= MaxAttempts
         THEN CancelReconnect(EvictRegistered(Report(m, "FAILED")))
    ELSE [m EXCEPT !.recon.armed = TRUE, !.recon.attempts = Spent(m, stable) + 1]

\* onError(): terminal, so no reconnect; only the registered engine is heard.
Errored(m, e) ==
    IF m.registry = e THEN Evict(Report(CancelReconnect(m), "FAILED"), e)
    ELSE [m EXCEPT !.eng[e] = IF @ \in Alive THEN "lost" ELSE @]

\* Engines somebody still refers to.
Held == {mem.registry, mem.writing} \cup mem.dying \cup removing \cup wiping
        \cup losing
        \cup {launch[l].eng : l \in Launcher} \cup {launch[l].victim : l \in Launcher}
        \cup {request[q].eng : q \in Request}
        \cup UNION {launch[l].waits : l \in Launcher}
        \cup UNION {request[q].waits : q \in Request}

Spare(m) == {e \in Engine \ Held : m.eng[e] \in {"none", "gone"}}

InFlight(l) == launch[l].at # "idle"
Unborn(l) == launch[l].at \in {"fenced", "hook", "destroying", "escalating"}

\* A launch begins.
Begun ==
    /\ overlapped' = (overlapped \/ \E l \in Launcher : InFlight(l))
    /\ crossed' = (crossed \/ \E q \in Request : request[q].at # "idle")

-----------------------------------------------------------------------------
(* A launch: initializeEngine() and what its two callers do around it.     *)

Goes(l, at) == launch' = [launch EXCEPT ![l].at = at]
Ends(l) == launch' = [launch EXCEPT ![l] = IdleLaunch]

\* initializeEngine() up to its first await: the engine is registered and
\* INITIALIZING is on its way to the row.
Register(l, m) ==
    /\ Spare(m) # {}
    /\ LET e == CHOOSE e \in Spare(m) : TRUE
       IN /\ mem' = [m EXCEPT !.registry = e, !.writing = e, !.eng[e] = "made"]
          /\ launch' = [launch EXCEPT ![l] = [IdleLaunch EXCEPT !.at = "writing", !.eng = e]]
    /\ UNCHANGED profile

\* The post-init guard found the session retired.
Retire(l, m) ==
    /\ UNCHANGED profile
    /\ IF m.registry = NoEngine
       THEN mem' = m /\ Goes(l, "repurging")
       ELSE /\ mem' = Shut(m, m.registry)
            /\ launch' = [launch EXCEPT ![l].at = "retiring", ![l].victim = m.registry]

\* Mutant: the post-init guard only looks for the stop mark's row, not the mark.
ReturnsUnguarded(l, m) == mem' = m /\ Goes(l, "checking") /\ UNCHANGED profile

\* initializeEngine() returned: isSessionRetired() looks at the mark first.
Returns(l, m) ==
    IF m.mark THEN Retire(l, m) ELSE mem' = m /\ Goes(l, "checking") /\ UNCHANGED profile

\* initializeEngine() threw.  start() reaps what is registered and gives up;
\* executeReconnect() evicts what is registered and schedules the next attempt.
Throws(l, m) ==
    /\ escaped' = (escaped \/ ~row)
    /\ UNCHANGED <<profile, overlapped, crossed, refused>>
    /\ IF l # Start
       THEN Ends(l) /\ \E stable \in BOOLEAN : mem' = Reschedule(EvictRegistered(m), stable)
       ELSE IF m.registry = NoEngine THEN mem' = CancelReconnect(m) /\ Ends(l)
       ELSE /\ mem' = Shut([m EXCEPT !.registry = NoEngine], m.registry)
            /\ launch' = [launch EXCEPT ![l].at = "reaping", ![l].victim = m.registry]

\* The fences have passed: start() clears the stop mark and the reconnect state
\* and runs the session:starting hook; executeReconnect() goes straight on.
PassFence(l, m) ==
    IF l = Start
    THEN /\ mem' = CancelReconnect([m EXCEPT !.mark = FALSE])
         /\ Goes(l, "hook")
         /\ UNCHANGED profile
    ELSE Register(l, m)

\* Mutant: nobody waits for a removal in flight.
FenceIgnored(l, m) == PassFence(l, m)

\* awaitPendingTeardown()
Fence(l, m) ==
    IF removing = {} THEN PassFence(l, m)
    ELSE /\ mem' = m
         /\ launch' = [launch EXCEPT ![l] = [IdleLaunch EXCEPT !.at = "fenced", !.waits = removing]]
         /\ UNCHANGED profile

elsewhere == <<removing, wiping, request, losing>>

\* start(): the reservation, the row, and nothing registered yet.
StartCalled ==
    /\ ~InFlight(Start) /\ row /\ mem.registry = NoEngine
    /\ Fence(Start, mem)
    /\ Begun
    /\ UNCHANGED <<row, elsewhere, refused, escaped>>

FenceOpens(l) ==
    /\ launch[l].at = "fenced" /\ launch[l].waits \cap removing = {}
    /\ PassFence(l, mem)
    /\ UNCHANGED <<row, elsewhere, histVars>>

\* The wait is bounded and fails closed: start() answers 409, a reconnect
\* attempt counts as failed.
FenceRefuses(l) ==
    /\ launch[l].at = "fenced" /\ launch[l].waits \cap removing # {}
    /\ IF l = Start THEN Ends(l) /\ UNCHANGED <<mem, profile, histVars>> ELSE Throws(l, mem)
    /\ UNCHANGED <<row, elsewhere>>

\* The hook is done: fresh reconnect state, a fresh stuck-auth budget, the engine.
HookDone ==
    /\ launch[Start].at = "hook"
    /\ Register(Start, [mem EXCEPT !.recon = FreshRecon, !.recovered = FALSE])
    /\ UNCHANGED <<row, elsewhere, histVars>>

\* The INITIALIZING write settled.  The engine is initialised only if it is
\* still the registered one and no stop has been marked.
WriteSettles(l) ==
    LET e == launch[l].eng
        m == [Report(mem, "INITIALIZING") EXCEPT
                !.writing = IF @ = e THEN NoEngine ELSE @]
    IN /\ launch[l].at = "writing"
       /\ IF m.registry # e \/ m.mark
          THEN Returns(l, m)
          ELSE /\ mem' = [m EXCEPT !.eng[e] = IF @ = "made" THEN "open" ELSE @]
               /\ profile' = (profile \/ m.eng[e] = "made")
               /\ Goes(l, "initializing")
       /\ UNCHANGED <<row, elsewhere, histVars>>

WriteFails(l) ==
    LET e == launch[l].eng
    IN /\ launch[l].at = "writing"
       /\ Throws(l, [mem EXCEPT !.writing = IF @ = e THEN NoEngine ELSE @])
       /\ UNCHANGED <<row, elsewhere>>

InitResolves(l) ==
    /\ launch[l].at = "initializing"
    /\ Returns(l, mem)
    /\ UNCHANGED <<row, elsewhere, histVars>>

\* A rejection reaches onError() before it reaches the caller.
InitRejects(l) ==
    /\ launch[l].at = "initializing"
    /\ Throws(l, Errored(mem, launch[l].eng))
    /\ UNCHANGED <<row, elsewhere>>

\* The deadline of initialize(): engines.delete(), then a kill.
InitTimesOut(l) ==
    /\ launch[l].at = "initializing"
    /\ mem' = Shut([mem EXCEPT !.registry = NoEngine], launch[l].eng)
    /\ Goes(l, "killing")
    /\ UNCHANGED <<row, profile, elsewhere, histVars>>

LateKillEnds(l) ==
    /\ launch[l].at = "killing"
    /\ Throws(l, Report(Gone(mem, launch[l].eng), "DISCONNECTED"))
    /\ UNCHANGED <<row, elsewhere>>

\* Mutant: the reconnect state that start() armed is left behind.
ReapKeepsState ==
    /\ launch[Start].at = "reaping"
    /\ mem' = Report(Gone(mem, launch[Start].victim), "FAILED")
    /\ Ends(Start)
    /\ UNCHANGED <<row, profile, elsewhere, histVars>>

\* The end of start()'s catch block.
ReapEnds ==
    /\ launch[Start].at = "reaping"
    /\ mem' = CancelReconnect(Report(Gone(mem, launch[Start].victim), "FAILED"))
    /\ Ends(Start)
    /\ UNCHANGED <<row, profile, elsewhere, histVars>>

\* A delete() that has looked for an engine and not yet removed the row.
DeleteUnderWay ==
    \E q \in Request : /\ request[q].kind = "delete"
                       /\ request[q].at \in {"waiting", "killing", "fenced again", "deleting"}

\* Mutant: the post-init guard trusts the stop mark alone.
RowUnread(l) ==
    /\ launch[l].at = "checking"
    /\ Ends(l)
    /\ UNCHANGED <<row, mem, profile, elsewhere, histVars>>

\* isSessionRetired() and its row.
RowRead(l) ==
    /\ launch[l].at = "checking"
    /\ IF row THEN Ends(l) /\ UNCHANGED <<mem, profile>> ELSE Retire(l, mem)
    /\ escaped' = (escaped \/ (row /\ DeleteUnderWay))
    /\ UNCHANGED <<row, elsewhere, overlapped, crossed, refused>>

RetireEnds(l) ==
    LET v == launch[l].victim
    IN /\ launch[l].at = "retiring"
       /\ mem' = DeleteIfLive(Gone(mem, v), v)
       /\ launch' = [launch EXCEPT ![l].at = "repurging", ![l].victim = NoEngine]
       /\ UNCHANGED <<row, profile, elsewhere, histVars>>

\* Nobody escalates a destroy that times out here.
RetireTimesOut(l) ==
    LET v == launch[l].victim
    IN /\ launch[l].at = "retiring"
       /\ mem.eng[v] = "closing"
       /\ mem' = DeleteIfLive([mem EXCEPT !.eng[v] = "leaked"], v)
       /\ launch' = [launch EXCEPT ![l].at = "repurging", ![l].victim = NoEngine]
       /\ UNCHANGED <<row, profile, elsewhere, histVars>>

\* purgeAuthDirsIfDeleted()
Repurged(l) ==
    /\ launch[l].at = "repurging"
    /\ profile' = (profile /\ row)
    /\ Ends(l)
    /\ UNCHANGED <<row, mem, elsewhere, histVars>>

\* executeReconnect(): the mark stops it; an engine still registered is torn
\* down first.
TimerFires(l) ==
    LET m == [mem EXCEPT !.recon.armed = FALSE]
    IN /\ ~InFlight(l) /\ mem.recon.armed
       /\ IF m.mark THEN mem' = m /\ UNCHANGED <<launch, profile, overlapped, crossed>>
          ELSE /\ Begun
               /\ IF m.registry = NoEngine THEN Fence(l, m)
                  ELSE /\ mem' = Shut(m, m.registry)
                       /\ launch' = [launch EXCEPT
                            ![l] = [IdleLaunch EXCEPT !.at = "destroying", !.victim = m.registry]]
                       /\ UNCHANGED profile
       /\ UNCHANGED <<row, elsewhere, refused, escaped>>

\* The old engine closes, at once or after the kill that follows a timeout.
OldEngineGone(l) ==
    LET v == launch[l].victim
    IN /\ launch[l].at \in {"destroying", "escalating"}
       /\ Fence(l, DeleteIfLive(Gone(mem, v), v))
       /\ UNCHANGED <<row, elsewhere, histVars>>

DestroyTimesOut(l) ==
    /\ launch[l].at = "destroying"
    /\ Goes(l, "escalating")
    /\ UNCHANGED <<row, profile, mem, elsewhere, histVars>>

-----------------------------------------------------------------------------
(* The retiring calls.                                                     *)

Steps(q, at) == request' = [request EXCEPT ![q].at = at]
Answers(q) == request' = [request EXCEPT ![q] = IdleRequest]

Retiring == CancelReconnect([mem EXCEPT !.mark = TRUE])

\* The engine's own teardown begins.  A logout that can reach its client is
\* tracked as a removal from this moment on.
TearDown(q, kind, e, m) ==
    /\ mem' = Shut(m, e)
    /\ request' = [request EXCEPT ![q] =
            [IdleRequest EXCEPT !.at = IF kind \in {"stop", "logout"} THEN "closing" ELSE "killing",
                                !.kind = kind, !.eng = e]]
    /\ removing' = IF kind = "logout" /\ m.eng[e] \in Running THEN removing \cup {e} ELSE removing

\* Mutant: the INITIALIZING write in flight is not awaited.
NoWait(q, kind, m) == TearDown(q, kind, m.registry, m)

\* awaitInitialStatus() for the captured engine, then its teardown.
Capture(q, kind, m) ==
    IF m.writing # m.registry THEN TearDown(q, kind, m.registry, m)
    ELSE /\ mem' = m
         /\ request' = [request EXCEPT ![q] =
                [IdleRequest EXCEPT !.at = "waiting", !.kind = kind, !.eng = m.registry]]
         /\ UNCHANGED removing

\* stop() and delete() mark the session before their first await.
Called(q, kind) ==
    /\ mem' = [mem EXCEPT !.mark = TRUE]
    /\ request' = [request EXCEPT ![q] = [IdleRequest EXCEPT !.at = "entered", !.kind = kind]]
    /\ UNCHANGED <<row, profile, removing, wiping, launch, losing>>

\* Their 404 takes the mark back.
NotFound(q) ==
    /\ request[q].at = "entered" /\ ~row
    /\ mem' = [mem EXCEPT !.mark = FALSE]
    /\ Answers(q)
    /\ UNCHANGED <<row, profile, removing, wiping, launch, losing, histVars>>

StopCaptures(q) ==
    /\ request[q].at = "entered" /\ request[q].kind = "stop" /\ row
    /\ IF mem.registry = NoEngine
       THEN mem' = Report(Retiring, "DISCONNECTED") /\ Answers(q) /\ UNCHANGED removing
       ELSE Capture(q, "stop", Retiring)
    /\ UNCHANGED <<row, profile, wiping, launch, losing, histVars>>

\* logout() and forceKill() need an engine; they mark once they have the row.
EngineCalled(q, kind) ==
    /\ row /\ mem.registry # NoEngine
    /\ Capture(q, kind, Retiring)
    /\ UNCHANGED <<row, profile, wiping, launch, losing>>

\* The write settled, or ten seconds have passed.
WaitEnds(q) ==
    /\ request[q].at = "waiting" /\ mem.writing # request[q].eng
    /\ TearDown(q, request[q].kind, request[q].eng, mem)
    /\ UNCHANGED <<row, profile, wiping, launch, losing, histVars>>

\* What a stop, a kill and a logout end with.
Retired(m, e) == Report(DeleteIfLive(m, e), "DISCONNECTED")

StopCloses(q) ==
    LET e == request[q].eng
    IN /\ request[q].at = "closing" /\ request[q].kind = "stop"
       /\ mem' = Retired(Gone(mem, e), e)
       /\ Answers(q)
       /\ UNCHANGED <<row, profile, removing, wiping, launch, losing, histVars>>

\* A graceful disconnect that fails is followed by a kill.
StopEscalates(q) ==
    /\ request[q].at = "closing" /\ request[q].kind = "stop"
    /\ Steps(q, "killing")
    /\ UNCHANGED <<row, profile, mem, removing, wiping, launch, losing, histVars>>

\* logout() answers when its removal has settled.
LogoutReturns(q) ==
    LET e == request[q].eng
    IN /\ request[q].at = "closing" /\ request[q].kind = "logout" /\ e \notin removing
       /\ mem' = Retired(Gone(mem, e), e)
       /\ Answers(q)
       /\ UNCHANGED <<row, profile, removing, wiping, launch, losing, histVars>>

\* At its deadline it answers too, and the removal goes on, still tracked.
LogoutOverruns(q) ==
    LET e == request[q].eng
    IN /\ request[q].at = "closing" /\ request[q].kind = "logout" /\ e \in removing
       /\ mem' = Retired([mem EXCEPT !.dying = @ \cup {e}], e)
       /\ Answers(q)
       /\ UNCHANGED <<row, profile, removing, wiping, launch, losing, histVars>>

\* Mutant: delete() looks at pending removals only before its teardown.
NoSecondFence(q, m) ==
    /\ mem' = m
    /\ request' = [request EXCEPT ![q].at = "deleting"]

\* delete()'s fence between the teardown and the transaction.
SecondFence(q, m) ==
    /\ mem' = m
    /\ request' = [request EXCEPT ![q].at = IF removing = {} THEN "deleting" ELSE "fenced again",
                                  ![q].waits = removing]

KillEnds(q) ==
    LET e == request[q].eng
    IN /\ request[q].at = "killing"
       /\ IF request[q].kind = "delete" THEN SecondFence(q, DeleteIfLive(Gone(mem, e), e))
          ELSE mem' = Retired(Gone(mem, e), e) /\ Answers(q)
       /\ UNCHANGED <<row, profile, removing, wiping, launch, losing, histVars>>

\* delete() past its first fence.
DeleteBegins(q) ==
    IF mem.registry = NoEngine THEN SecondFence(q, Retiring) /\ UNCHANGED removing
    ELSE Capture(q, "delete", Retiring)

DeleteEnters(q) ==
    /\ request[q].at = "entered" /\ request[q].kind = "delete" /\ row
    /\ IF removing = {} THEN DeleteBegins(q)
       ELSE /\ request' = [request EXCEPT ![q].at = "fenced", ![q].waits = removing]
            /\ UNCHANGED <<mem, removing>>
    /\ UNCHANGED <<row, profile, wiping, launch, losing, histVars>>

DeleteFenceOpens(q) ==
    /\ request[q].waits \cap removing = {}
    /\ \/ request[q].at = "fenced" /\ DeleteBegins(q)
       \/ /\ request[q].at = "fenced again"
          /\ Steps(q, "deleting")
          /\ UNCHANGED <<mem, removing>>
    /\ UNCHANGED <<row, profile, wiping, launch, losing, histVars>>

\* 409.  The first fence leaves the mark of the entry, the second takes it back.
DeleteRefused(q) ==
    /\ request[q].waits \cap removing # {}
    /\ \/ request[q].at = "fenced" /\ refused' = TRUE /\ UNCHANGED mem
       \/ /\ request[q].at = "fenced again"
          /\ mem' = [(IF request[q].eng = NoEngine THEN mem ELSE Report(mem, "DISCONNECTED"))
                        EXCEPT !.mark = FALSE]
          /\ UNCHANGED refused
    /\ Answers(q)
    /\ UNCHANGED <<row, profile, removing, wiping, launch, losing, overlapped, crossed, escaped>>

\* The hook and the transaction.
RowDeleted(q) ==
    /\ request[q].at = "deleting"
    /\ row' = FALSE
    /\ Steps(q, "purging")
    /\ UNCHANGED <<profile, mem, removing, wiping, launch, losing, histVars>>

DeleteFails(q) ==
    /\ request[q].at = "deleting"
    /\ mem' = [mem EXCEPT !.mark = FALSE]
    /\ Answers(q)
    /\ UNCHANGED <<row, profile, removing, wiping, launch, losing, histVars>>

\* purgeSessionData(), then the finally block.
Purged(q) ==
    /\ request[q].at = "purging"
    /\ profile' = FALSE
    /\ mem' = [mem EXCEPT !.mark = FALSE, !.recovered = FALSE]
    /\ Answers(q)
    /\ UNCHANGED <<row, removing, wiping, launch, losing, histVars>>

-----------------------------------------------------------------------------
(* What goes on after nobody waits for it.                                 *)

others == <<row, launch, request, histVars>>

KillLands(e) ==
    /\ e \in mem.dying \ removing
    /\ mem' = [Gone(mem, e) EXCEPT !.dying = @ \ {e}]
    /\ UNCHANGED <<others, profile, removing, wiping, losing>>

\* A destroy that had timed out may still complete.
LeakEnds(e) ==
    /\ mem.eng[e] = "leaked"
    /\ mem' = Gone(mem, e)
    /\ UNCHANGED <<others, profile, removing, wiping, losing>>

\* A tracked removal settles: it removed the credentials or failed before that.
RemovalSettles(e) ==
    /\ e \in removing
    /\ profile' \in {profile, FALSE}
    /\ removing' = removing \ {e}
    /\ UNCHANGED <<others, mem, wiping, losing>>

-----------------------------------------------------------------------------
(* What engines report; a callback is heard while its engine is registered. *)

\* An engine reports its disconnect, and its old client goes when asked to.
Drop(m, e) ==
    LET lost == [m EXCEPT !.eng[e] = "lost"]
    IN IF m.registry = e THEN Report(lost, "DISCONNECTED") ELSE lost

Loses(e) == losing' = losing \cup (IF mem.registry = e THEN {e} ELSE {})

EngineReady(e) ==
    /\ mem.eng[e] = "open"
    /\ mem' = LET up == [mem EXCEPT !.eng[e] = "ready"]
              IN IF mem.registry # e THEN up
                 ELSE Report([up EXCEPT !.recon.attempts = 0, !.misses = 0, !.recovered = FALSE], "READY")
    /\ UNCHANGED <<others, profile, removing, wiping, losing>>

EngineDrops(e) ==
    /\ mem.eng[e] \in Alive
    /\ mem' = Drop(mem, e)
    /\ Loses(e)
    /\ UNCHANGED <<others, profile, removing, wiping>>

\* WhatsApp unlinked the device: a tracked removal, then the disconnect.
EngineUnlinked(e) ==
    /\ mem.eng[e] \in Alive
    /\ removing' = removing \cup {e}
    /\ mem' = Drop(mem, e)
    /\ Loses(e)
    /\ UNCHANGED <<others, profile, wiping>>

\* The adapter cannot reach readiness: with the session's one recovery claimed
\* it deletes the credentials, untracked, and disconnects when that is done.
StuckAuth(e) ==
    /\ mem.eng[e] = "open" /\ e \notin wiping
    /\ IF mem.registry = e /\ ~mem.recovered
       THEN mem' = [mem EXCEPT !.recovered = TRUE] /\ wiping' = wiping \cup {e}
       ELSE mem' = Errored(mem, e) /\ UNCHANGED wiping
    /\ UNCHANGED <<others, profile, removing, losing>>

WipeLands(e) ==
    /\ e \in wiping
    /\ wiping' = wiping \ {e}
    /\ profile' = FALSE
    /\ mem' = IF mem.eng[e] \in Alive THEN Drop(mem, e) ELSE mem
    /\ IF mem.eng[e] \in Alive THEN Loses(e) ELSE UNCHANGED losing
    /\ UNCHANGED <<others, removing>>

EngineFails(e) ==
    /\ mem.eng[e] \in Alive
    /\ mem' = Errored(mem, e)
    /\ UNCHANGED <<others, profile, removing, wiping, losing>>

EngineWedges(e) ==
    /\ mem.eng[e] = "ready"
    /\ mem' = [mem EXCEPT !.eng[e] = "wedged"]
    /\ UNCHANGED <<others, profile, removing, wiping, losing>>

\* Mutant: a miss is forgotten before the next probe.
ProbeForgets(e) ==
    /\ mem.registry = e /\ mem.eng[e] = "wedged"
    /\ mem' = [mem EXCEPT !.misses = 0]
    /\ UNCHANGED <<others, profile, removing, wiping, losing>>

\* The watchdog's probe of a READY engine; the second miss is a disconnect.
ProbeFails(e) ==
    /\ mem.registry = e /\ mem.eng[e] = "wedged"
    /\ IF mem.misses = 0
       THEN mem' = [mem EXCEPT !.misses = 1] /\ UNCHANGED losing
       ELSE mem' = [mem EXCEPT !.misses = 0] /\ losing' = losing \cup {e}
    /\ UNCHANGED <<others, profile, removing, wiping>>

\* Another engine answers, or is not READY and has nothing to answer.
ProbePasses ==
    /\ mem.misses # 0 /\ mem.registry # NoEngine /\ mem.eng[mem.registry] # "wedged"
    /\ mem' = [mem EXCEPT !.misses = 0]
    /\ UNCHANGED <<others, profile, removing, wiping, losing>>

\* handleEngineDisconnected() with the row in hand.
DropHandled(e) ==
    /\ e \in losing
    /\ losing' = losing \ {e}
    /\ \E stable \in BOOLEAN :
         IF row /\ mem.registry = e
         THEN /\ mem' = Reschedule(Report(mem, "DISCONNECTED"), stable)
              /\ overlapped' = (overlapped \/ (mem'.recon = NoRecon /\ \E l \in Attempt : InFlight(l)))
         ELSE UNCHANGED <<mem, overlapped>>
    /\ UNCHANGED <<row, launch, request, crossed, refused, escaped, profile, removing, wiping>>

\* The read failed: the disconnect is dropped.
DropUnread(e) ==
    /\ e \in losing
    /\ losing' = losing \ {e}
    /\ mem' = [mem EXCEPT !.eng[e] = IF @ = "lost" THEN "unheard" ELSE @]
    /\ UNCHANGED <<others, profile, removing, wiping>>

-----------------------------------------------------------------------------

LaunchStep(l) ==
    \/ FenceOpens(l) \/ WriteSettles(l) \/ InitResolves(l) \/ LateKillEnds(l)
    \/ RowRead(l) \/ RetireEnds(l) \/ Repurged(l) \/ OldEngineGone(l)

LaunchFails(l) ==
    \/ FenceRefuses(l) \/ WriteFails(l) \/ InitRejects(l) \/ InitTimesOut(l)
    \/ RetireTimesOut(l) \/ DestroyTimesOut(l)

RequestStep(q) ==
    \/ NotFound(q) \/ StopCaptures(q) \/ WaitEnds(q)
    \/ StopCloses(q) \/ LogoutReturns(q) \/ KillEnds(q)
    \/ DeleteEnters(q) \/ DeleteFenceOpens(q) \/ RowDeleted(q) \/ Purged(q)

RequestFails(q) ==
    StopEscalates(q) \/ LogoutOverruns(q) \/ DeleteRefused(q) \/ DeleteFails(q)

EngineFault(e) ==
    \/ EngineDrops(e) \/ EngineUnlinked(e) \/ EngineFails(e)
    \/ EngineWedges(e) \/ StuckAuth(e) \/ DropUnread(e)

BackgroundStep(e) ==
    KillLands(e) \/ RemovalSettles(e) \/ WipeLands(e) \/ DropHandled(e)

\* A call takes a place of its own; which one makes no difference.
Idle == {q \in Request : request[q].at = "idle"}

Call ==
    /\ calls < MaxCalls
    /\ calls' = calls + 1
    /\ \/ StartCalled
       \/ /\ crossed' = (crossed \/ \E l \in Launcher : Unborn(l))
          /\ Idle # {}
          /\ LET q == CHOOSE r \in Idle : TRUE
             IN \/ Called(q, "stop") \/ Called(q, "delete")
                \/ EngineCalled(q, "logout") \/ EngineCalled(q, "kill")
          /\ UNCHANGED <<overlapped, refused, escaped>>
    /\ UNCHANGED faults

Fault ==
    /\ faults < MaxFaults
    /\ faults' = faults + 1
    /\ \/ \E l \in Launcher : LaunchFails(l)
       \/ \E q \in Request : RequestFails(q)
       \/ \E e \in Engine : EngineFault(e)
    /\ UNCHANGED calls

Step ==
    /\ \/ HookDone \/ ReapEnds
       \/ \E l \in Launcher : LaunchStep(l)
       \/ \E l \in Attempt : TimerFires(l)
       \/ \E q \in Request : RequestStep(q)
       \/ \E e \in Engine : BackgroundStep(e) \/ EngineReady(e) \/ LeakEnds(e) \/ ProbeFails(e)
       \/ ProbePasses
    /\ UNCHANGED <<calls, faults>>

Next == Call \/ Fault \/ Step

Spec == Init /\ [][Next]_vars

\* The process runs: promises settle, timers fire, the watchdog probes.  Calls
\* and faults need not come.
Quietly(A) == A /\ UNCHANGED <<calls, faults>>

\* Promises that settle, and the code behind them.
Settles ==
    \/ HookDone \/ ReapEnds
    \/ \E l \in Launcher : LaunchStep(l)
    \/ \E q \in Request : RequestStep(q)
    \/ \E e \in Engine : KillLands(e) \/ RemovalSettles(e)

Fairness ==
    /\ WF_vars(Quietly(Settles))
    /\ WF_vars(\E l \in Attempt : Quietly(TimerFires(l)))
    /\ WF_vars(\E e \in Engine : Quietly(DropHandled(e)))
    /\ WF_vars(\E e \in Engine : Quietly(ProbeFails(e)))

FairSpec == Spec /\ Fairness

-----------------------------------------------------------------------------
(* Properties.                                                             *)

LaunchRecord == [at: LaunchAt, eng: Engine \cup {NoEngine}, victim: Engine \cup {NoEngine},
                 waits: SUBSET Engine]
RequestRecord == [at: RequestAt, kind: Kinds, eng: Engine \cup {NoEngine}, waits: SUBSET Engine]

\* Every variable has its type; a reconnect never exceeds its budget.
TypeOK ==
    /\ {row, profile, overlapped, crossed, refused, escaped} \subseteq BOOLEAN
    /\ mem \in Memory
    /\ removing \cup wiping \cup losing \subseteq Engine
    /\ launch \in [Launcher -> LaunchRecord]
    /\ request \in [Request -> RequestRecord]
    /\ calls \in 0 .. MaxCalls /\ faults \in 0 .. MaxFaults

Answered ==
    /\ \A l \in Launcher : ~InFlight(l)
    /\ \A q \in Request : request[q].at = "idle"

\* Nothing is under way any more, in the background either.
Quiet == Answered /\ mem.dying \cup removing \cup wiping \cup losing = {}

Accounted(e) ==
    \/ mem.registry = e \/ e \in mem.dying \/ mem.eng[e] = "leaked"
    \/ \E l \in Launcher : launch[l].victim = e \/ (launch[l].at = "killing" /\ launch[l].eng = e)
    \/ \E q \in Request : request[q].eng = e

\* No engine runs that nobody can reach: it is the registered one or somebody
\* is closing it (start(): no "leaked Chromium/socket permanently holding a
\* concurrency slot").  Two launches at a time are the exception: either one
\* may overwrite what the other has registered.
NoOrphan == ~overlapped => \A e \in Engine : mem.eng[e] \in Running => Accounted(e)

\* When every call has been answered, a stopped session has no engine and no
\* timer that would bring one back, however the stop met a launch (stop():
\* "so an in-flight reconnect can't resurrect it").
StoppedStaysDown ==
    Answered /\ mem.mark /\ ~overlapped /\ ~refused => mem.registry = NoEngine /\ ~mem.recon.armed

\* And its row says so: the stop wrote after the launch's INITIALIZING, or the
\* launch failed (awaitInitialStatus(): "keeps the control action the final
\* persisted owner").  Not so when the launch had no engine yet.
StopIsTheLastWriter ==
    Quiet /\ mem.mark /\ ~overlapped /\ ~refused /\ ~crossed => mem.status \in {"DISCONNECTED", "FAILED"}

\* A deleted session leaves no credentials and no engine
\* (purgeAuthDirsIfDeleted(): "no credential residue"), unless a launch read
\* the row before it went or threw after that, or two launches overlapped.
DeletedLeavesNothing ==
    Quiet /\ ~row /\ ~escaped /\ ~overlapped => ~profile /\ \A e \in Engine : mem.eng[e] \notin Running \ {"leaked"}

\* A registered engine that reported its end is followed by a timer or by its
\* eviction: no session keeps a dead engine for good (scheduleReconnect():
\* "silently stuck DISCONNECTED").  The exception is a delete() that cancels the
\* state of a reconnect with no engine yet and then fails: the launch goes on.
NoSilentDeath ==
    Quiet /\ row /\ ~overlapped /\ ~crossed /\ ~mem.mark /\ mem.registry # NoEngine /\ ~mem.recon.armed
        => mem.eng[mem.registry] \in Alive \cup {"unheard"}

\* Reconnect state without an engine has a timer: otherwise isEngineActive()
\* pins the claim of a session that nothing runs (scheduleReconnect(): "the
\* ownership heartbeat would renew the claim on a session with no engine").
NoIdleReconnectState ==
    Quiet /\ mem.recon.kept /\ ~crossed /\ ~overlapped /\ ~refused
        => mem.registry # NoEngine \/ mem.recon.armed

\* No tracked removal of credentials runs beside an engine that is not the one
\* removed: the fence holds the successor back (awaitPendingTeardown()).
RemovalSparesSuccessor ==
    ~overlapped /\ ~crossed => \A e \in removing, f \in Engine : f # e => mem.eng[f] \notin Alive

\* A name is given up only when no tracked removal is left that could hit the
\* next session of that name (delete()'s second fence).
NameIsFreedClean ==
    [][~crossed' /\ ~overlapped' /\ row /\ ~row' => removing = {}]_vars

\* An engine that died without a word does not stay registered while its
\* session exists (SessionLivenessWatchdog: it "would otherwise sit READY forever").
WedgeRegistered == row /\ \E e \in Engine : mem.registry = e /\ mem.eng[e] = "wedged"
WedgeIsNoticed == WedgeRegistered ~> ~WedgeRegistered

\* start() kills only the engine it made ("initializingSessions serializes
\* start(), so the engine in the map here is the one this start just created").
StartReapsItsOwn ==
    [][launch'[Start].at = "reaping" => launch'[Start].victim = launch'[Start].eng]_vars

\* A deleted session's engine does not run on, whenever the start() came ("the
\* post-init guard tears the engine down").
DeletedIsTornDown ==
    Quiet /\ ~row => \A e \in Engine : mem.eng[e] \notin Alive
=============================================================================
