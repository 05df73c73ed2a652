-------------------------- MODULE SessionOwnership --------------------------
(***************************************************************************)
(* Which gateway process runs which WhatsApp session.  The claim is four   *)
(* columns of the session row, taken and cleared by conditional UPDATEs    *)
(* (session-ownership.service.ts).  Each process keeps in memory what it   *)
(* believes it holds (`owned`), what still runs here (`alive`, `start`)    *)
(* and a heartbeat that renews and notices losses.  session.service.ts     *)
(* wraps start / stop / logout in claim and release; the takeover sweep    *)
(* adopts sessions whose holder let its lease lapse.                       *)
(*                                                                         *)
(* A query is one atomic step on the rows, but the process continues from  *)
(* its reply only in a later step.  Time is abstract: a lease may lapse    *)
(* whenever it is not being renewed.                                       *)
(***************************************************************************)
EXTENDS Naturals, FiniteSets

CONSTANTS Node,        \* gateway processes, by their restart-stable nodeId
          Session,     \* rows of the sessions table
          NoNode,      \* nodeId IS NULL
          Timely,      \* see InTime and ReplyPending
          MaxOutages,  \* bound on crashes, shutdowns and restarts
          MaxRequests, \* bound on calls of start(), stop() and logout()
          MaxLapses    \* bound on leases that run out although still renewed

ASSUME OwnershipAssumption ==
    /\ NoNode \notin Node
    /\ Timely \in BOOLEAN
    /\ {MaxOutages, MaxRequests, MaxLapses} \subseteq Nat

VARIABLES
    \* the sessions table
    holder,     \* nodeId
    lapsed,     \* leaseExpiresAt < now
    status,     \* see Statuses
    \* each process
    node,       \* life of the process
    owned,      \* SessionOwnershipService.owned
    alive,      \* an engine is registered here, or a reconnect is pending
    mark,       \* stoppingSessions
    start,      \* the start() call in flight for a session
    stop,       \* the stop() or logout() call in flight for a session
    releasing,  \* release() calls whose UPDATE has not run, by their caller:
                \* "stop" for a stop() or logout() that ran, else "start"
    losing,     \* engines that stopOrphanEngines() is destroying
    renewal,    \* the renew() tick in flight
    todo,       \* sessions that auto-start or the sweep is still to start
    \* history, read by properties only
    expired,    \* claims that lapsed under the start() or the engine of a node
    stopped,    \* sessions an operator stopped and nobody claimed since
    spent       \* outages, requests and lapses so far

rowVars == <<holder, lapsed, status>>
procVars == <<node, owned, alive, mark, start, stop, releasing, losing, renewal, todo>>
histVars == <<expired, stopped, spent>>
vars == <<rowVars, procVars, histVars>>

Idle == [at |-> "idle", held |-> {}, live |-> {}]

\* ACTIVE stands for READY, INITIALIZING, AUTHENTICATING and ACTION_REQUIRED;
\* QR for QR_READY on a row with a phone (a linked session asked to link again);
\* PARKED for a row that is FAILED or has no phone, which neither the sweep nor
\* auto-start touches.
Statuses == {"ACTIVE", "QR", "DISCONNECTED", "PARKED"}

StartAt == {"idle", "claimed", "reserved", "opening", "retrying", "failing"}
StopAt == {"idle", "fencing", "tearing", "settling", "leaving", "left"}

-----------------------------------------------------------------------------
\* Mutant: the lease is compared the wrong way round.
ClaimableWhileLive(n, s) == holder[s] \in {NoNode, n} \/ ~lapsed[s]

\* claimableWhere(): free, mine, or lapsed.
Claimable(n, s) == holder[s] \in {NoNode, n} \/ lapsed[s]

\* isHeldByOtherNode(): a peer holds it on a lease that has not lapsed.
HeldElsewhere(n, s) == holder[s] \notin {NoNode, n} /\ ~lapsed[s]

\* isEngineActive(): engine registered, start() reserved, or reconnect pending.
Active(n, s) == s \in alive[n] \/ start[n][s] \in {"reserved", "opening"}

\* isEligible(): a linked phone and one of TAKEOVER_STATUSES, which leave
\* QR_READY and FAILED out.
Adoptable(s) == status[s] \in {"ACTIVE", "DISCONNECTED"}

\* updateStatus().  A row without a phone stays PARKED whatever is written.
WriteStatus(s, st) ==
    \E new \in {st} \cup ({status[s]} \cap {"PARKED"}) : status' = [status EXCEPT ![s] = new]

Running(n) == node[n] # "down"

\* With Timely, a query's reply reaches the process before the process does
\* anything else, as on the one shared SQLite connection.  Without it, queries
\* travel on the connections of a pool and overtake each other's replies.
ReplyPending(n) == \/ \E s \in Session : start[n][s] = "claimed" \/ releasing[n][s] # "no"
                   \/ renewal[n].at = "decide"

Ready(n) == Running(n) /\ (Timely => ~ReplyPending(n))

\* A process takes operator's calls until its shutdown begins; the calls it has
\* taken run on.
Serving(n) == Ready(n) /\ node[n] = "up"

\* With Timely, start() gets from its claim to its engine within the lease.
InTime(s) == Timely => start[holder[s]][s] \notin {"claimed", "reserved"}

\* deleteIfLive(): the engine leaves the registry, so a second teardown of the
\* same engine has nothing left to remove.
EngineGone(n, s) ==
    /\ alive' = [alive EXCEPT ![n] = @ \ {s}]
    /\ losing' = [losing EXCEPT ![n] = @ \ {s}]

\* A stop() or logout() whose captured engine is gone has only the row left.
AfterEngine(at) == CASE at = "tearing" -> "settling"
                     [] at = "leaving" -> "left"
                     [] OTHER -> at

StopAfterEngine(n, s) == [stop EXCEPT ![n][s] = AfterEngine(@)]

\* One more of a bounded kind of event.
Spend(kind, bound) ==
    /\ spent[kind] < bound
    /\ spent' = [spent EXCEPT ![kind] = @ + 1]

-----------------------------------------------------------------------------
Init ==
    /\ holder = [s \in Session |-> NoNode]
    /\ lapsed = [s \in Session |-> FALSE]
    /\ status = [s \in Session |-> "DISCONNECTED"]
    /\ node = [n \in Node |-> "up"]
    /\ owned = [n \in Node |-> {}]
    /\ alive = [n \in Node |-> {}]
    /\ mark = [n \in Node |-> {}]
    /\ start = [n \in Node |-> [s \in Session |-> "idle"]]
    /\ stop = [n \in Node |-> [s \in Session |-> "idle"]]
    /\ releasing = [n \in Node |-> [s \in Session |-> "no"]]
    /\ losing = [n \in Node |-> {}]
    /\ renewal = [n \in Node |-> Idle]
    /\ todo = [n \in Node |-> {}]
    /\ expired = [n \in Node |-> {}]
    /\ stopped = {}
    /\ spent = [kind \in {"outages", "requests", "lapses"} |-> 0]

-----------------------------------------------------------------------------
\* start(): claim first, then launch, then release again if nothing came up.

\* claim(): one conditional UPDATE.
TakeClaim(n, s) ==
    /\ holder' = [holder EXCEPT ![s] = n]
    /\ lapsed' = [lapsed EXCEPT ![s] = FALSE]
    /\ expired' = [expired EXCEPT ![n] = @ \ {s}]
    /\ stopped' = stopped \ {s}

\* A claim that matches no row leaves everything as it was (409).
Claim(n, s) ==
    \/ /\ Claimable(n, s)
       /\ TakeClaim(n, s)
       /\ start' = [start EXCEPT ![n][s] = "claimed"]
    \/ /\ ~Claimable(n, s)
       /\ start' = [start EXCEPT ![n][s] = IF @ = "retrying" THEN "failing" ELSE "idle"]
       /\ UNCHANGED <<holder, lapsed, expired, stopped>>

StartRequested(n, s) ==
    /\ Serving(n)
    /\ start[n][s] = "idle"
    /\ Spend("requests", MaxRequests)
    /\ Claim(n, s)
    /\ UNCHANGED <<status, node, owned, alive, mark, stop, releasing, losing,
                   renewal, todo>>

\* One session of the auto-start run or of the takeover sweep.
StartFromList(n, s) ==
    /\ Serving(n)
    /\ s \in todo[n]
    /\ todo' = [todo EXCEPT ![n] = @ \ {s}]
    /\ \/ start[n][s] = "idle" /\ Claim(n, s)
       \/ /\ start[n][s] # "idle"      \* "already starting"
          /\ UNCHANGED <<holder, lapsed, expired, stopped, start>>
    /\ UNCHANGED <<status, node, owned, alive, mark, stop, releasing, losing,
                   renewal, spent>>

\* The claim's reply: owned.add, and lifecycle.start() reserves the session.
ClaimReturned(n, s) ==
    /\ Running(n)
    /\ start[n][s] = "claimed"
    /\ owned' = [owned EXCEPT ![n] = @ \cup {s}]
    /\ start' = [start EXCEPT ![n][s] = "reserved"]
    /\ UNCHANGED <<rowVars, node, alive, mark, stop, releasing, losing, renewal, todo, histVars>>

\* Past the duplicate check and the teardown fence: the stop mark is cleared,
\* the engine is registered and INITIALIZING is written.
StartAccepted(n, s) ==
    /\ Ready(n)
    /\ start[n][s] = "reserved"
    /\ s \notin alive[n]
    /\ mark' = [mark EXCEPT ![n] = @ \ {s}]
    /\ alive' = [alive EXCEPT ![n] = @ \cup {s}]
    /\ WriteStatus(s, "ACTIVE")
    /\ start' = [start EXCEPT ![n][s] = "opening"]
    /\ UNCHANGED <<holder, lapsed, node, owned, stop, releasing, losing, renewal,
                   todo, histVars>>

\* Refused with "already started", by the cap or by the fence: nothing changed.
StartRefused(n, s) ==
    /\ Ready(n)
    /\ start[n][s] = "reserved"
    /\ start' = [start EXCEPT ![n][s] = "failing"]
    /\ UNCHANGED <<rowVars, node, owned, alive, mark, stop, releasing, losing, renewal,
                   todo, histVars>>

\* engine.initialize() settled: keep the engine unless a stop mark was set.
StartOpened(n, s) ==
    /\ Ready(n)
    /\ start[n][s] = "opening"
    /\ start' = [start EXCEPT ![n][s] = "idle"]
    /\ \/ s \notin mark[n] /\ UNCHANGED <<alive, losing, stop>>
       \/ s \in mark[n] /\ EngineGone(n, s) /\ stop' = StopAfterEngine(n, s)
    /\ UNCHANGED <<rowVars, node, owned, mark, releasing, renewal, todo, histVars>>

\* engine.initialize() failed: evict, FAILED if still owned, and for a transient
\* fault one more attempt, which claims again.  A timeout evicts on its own,
\* writes DISCONNECTED and is not transient.
StartFails(n, s) ==
    /\ Ready(n)
    /\ start[n][s] = "opening"
    /\ EngineGone(n, s)
    /\ stop' = StopAfterEngine(n, s)
    /\ \/ /\ status' = IF s \in alive[n] /\ s \in owned[n]
                       THEN [status EXCEPT ![s] = "PARKED"] ELSE status
          /\ \E next \in {"retrying", "failing"} : start' = [start EXCEPT ![n][s] = next]
       \/ /\ WriteStatus(s, "DISCONNECTED")
          /\ start' = [start EXCEPT ![n][s] = "failing"]
    /\ UNCHANGED <<holder, lapsed, node, owned, mark, releasing, renewal, todo,
                   histVars>>

StartRetried(n, s) ==
    /\ Ready(n)
    /\ start[n][s] = "retrying"
    /\ Claim(n, s)
    /\ UNCHANGED <<status, node, owned, alive, mark, stop, releasing, losing,
                   renewal, todo, spent>>

\* release(): drops the belief at once and issues the UPDATE.
BeginRelease(n, s, caller) ==
    /\ owned' = [owned EXCEPT ![n] = @ \ {s}]
    /\ releasing' = [releasing EXCEPT ![n][s] = caller]

\* Mutant: released whatever still runs here.
ReleaseRegardless(n, s, caller) ==
    releasing[n][s] = "no" /\ BeginRelease(n, s, caller)

\* releaseUnlessEngineActive()
ReleaseUnlessActive(n, s, caller) ==
    /\ releasing[n][s] = "no"
    /\ \/ Active(n, s) /\ UNCHANGED <<owned, releasing>>
       \/ ~Active(n, s) /\ BeginRelease(n, s, caller)

\* The end of a start that threw.
StartGivesUp(n, s) ==
    /\ Ready(n)
    /\ start[n][s] = "failing"
    /\ start' = [start EXCEPT ![n][s] = "idle"]
    /\ ReleaseUnlessActive(n, s, "start")
    /\ UNCHANGED <<rowVars, node, alive, mark, stop, losing, renewal, todo, histVars>>

\* Mutant: only this node's own claim is cleared.
ReleasedOwnOnly(n, s) ==
    /\ Running(n)
    /\ releasing[n][s] # "no"
    /\ releasing' = [releasing EXCEPT ![n][s] = "no"]
    /\ IF holder[s] = n
       THEN holder' = [holder EXCEPT ![s] = NoNode] /\ lapsed' = [lapsed EXCEPT ![s] = FALSE]
       ELSE UNCHANGED <<holder, lapsed>>
    /\ stopped' = IF releasing[n][s] = "stop" /\ ~HeldElsewhere(n, s)
                  THEN stopped \cup {s} ELSE stopped
    /\ UNCHANGED <<status, node, owned, alive, mark, start, stop, losing, renewal,
                   todo, expired, spent>>

\* The release UPDATE: where the row is mine or its lease has lapsed.
Released(n, s) ==
    /\ Running(n)
    /\ releasing[n][s] # "no"
    /\ releasing' = [releasing EXCEPT ![n][s] = "no"]
    /\ \/ /\ holder[s] = n \/ lapsed[s]
          /\ holder' = [holder EXCEPT ![s] = NoNode]
          /\ lapsed' = [lapsed EXCEPT ![s] = FALSE]
       \/ /\ ~(holder[s] = n \/ lapsed[s])
          /\ UNCHANGED <<holder, lapsed>>
    /\ stopped' = IF releasing[n][s] = "stop" /\ ~HeldElsewhere(n, s)
                  THEN stopped \cup {s} ELSE stopped
    /\ UNCHANGED <<status, node, owned, alive, mark, start, stop, losing, renewal,
                   todo, expired, spent>>

-----------------------------------------------------------------------------
\* stop() and logout().

\* stop() sets the mark before its first await.
StopRequested(n, s) ==
    /\ Serving(n)
    /\ stop[n][s] = "idle"
    /\ Spend("requests", MaxRequests)
    /\ mark' = [mark EXCEPT ![n] = @ \cup {s}]
    /\ stop' = [stop EXCEPT ![n][s] = "fencing"]
    /\ UNCHANGED <<rowVars, node, owned, alive, start, releasing, losing, renewal, todo,
                   expired, stopped>>

\* assertNotHeldElsewhere(), then lifecycle.stop() up to the engine teardown.
StopFenced(n, s) ==
    /\ Ready(n)
    /\ stop[n][s] = "fencing"
    /\ \/ /\ HeldElsewhere(n, s)           \* 409; the mark stays
          /\ stop' = [stop EXCEPT ![n][s] = "idle"]
          /\ UNCHANGED mark
       \/ /\ ~HeldElsewhere(n, s)
          /\ mark' = [mark EXCEPT ![n] = @ \cup {s}]
          /\ stop' = [stop EXCEPT ![n][s] = IF s \in alive[n] THEN "tearing" ELSE "settling"]
    /\ UNCHANGED <<rowVars, node, owned, alive, start, releasing, losing, renewal, todo, histVars>>

\* logout() and forceKill() need a local engine and have no ownership fence.
LogoutRequested(n, s) ==
    /\ Serving(n)
    /\ stop[n][s] = "idle"
    /\ s \in alive[n]
    /\ Spend("requests", MaxRequests)
    /\ mark' = [mark EXCEPT ![n] = @ \cup {s}]
    /\ stop' = [stop EXCEPT ![n][s] = "leaving"]
    /\ UNCHANGED <<rowVars, node, owned, alive, start, releasing, losing, renewal, todo,
                   expired, stopped>>

\* Without a local engine both are refused with 400, on a path that still hands
\* back a claim that covers nothing.  The session was not stopped by it, so the
\* release is a failed call's, as that of a start() that threw.
LogoutRefused(n, s) ==
    /\ Serving(n)
    /\ stop[n][s] = "idle"
    /\ s \notin alive[n]
    /\ Spend("requests", MaxRequests)
    /\ ReleaseUnlessActive(n, s, "start")
    /\ UNCHANGED <<rowVars, node, alive, mark, start, stop, losing, renewal, todo,
                   expired, stopped>>

\* The captured engine is down, gracefully or by the hard kill.
StopTornDown(n, s) ==
    /\ Ready(n)
    /\ stop[n][s] \in {"tearing", "leaving"}
    /\ EngineGone(n, s)
    /\ stop' = StopAfterEngine(n, s)
    /\ UNCHANGED <<rowVars, node, owned, mark, start, releasing, renewal, todo, histVars>>

\* DISCONNECTED is written; an incomplete teardown (502) keeps the claim.
StopReturns(n, s) ==
    /\ Ready(n)
    /\ stop[n][s] = "settling"
    /\ WriteStatus(s, "DISCONNECTED")
    /\ stop' = [stop EXCEPT ![n][s] = "idle"]
    /\ ReleaseUnlessActive(n, s, "stop") \/ UNCHANGED <<owned, releasing>>
    /\ UNCHANGED <<holder, lapsed, node, alive, mark, start, losing, renewal, todo, histVars>>

\* logout() also clears the phone; forceKill() does not.
LogoutReturns(n, s) ==
    /\ Ready(n)
    /\ stop[n][s] = "left"
    /\ \E st \in {"DISCONNECTED", "PARKED"} : status' = [status EXCEPT ![s] = st]
    /\ stop' = [stop EXCEPT ![n][s] = "idle"]
    /\ ReleaseUnlessActive(n, s, "stop")
    /\ UNCHANGED <<holder, lapsed, node, alive, mark, start, losing, renewal, todo, histVars>>

-----------------------------------------------------------------------------
\* What the engine itself reports.

\* handleEngineReady() writes the row without asking who owns it.
EngineReady(n, s) ==
    /\ Ready(n)
    /\ s \in alive[n]
    /\ status' = [status EXCEPT ![s] = "ACTIVE"]
    /\ UNCHANGED <<holder, lapsed, procVars, histVars>>

\* onQRCode() and onStateChanged(): persistStatus() writes QR_READY only for a
\* session this node owns (the other statuses it writes are ACTIVE, as READY is).
EngineAsksQr(n, s) ==
    /\ Ready(n)
    /\ s \in alive[n]
    /\ s \in owned[n]
    /\ WriteStatus(s, "QR")
    /\ UNCHANGED <<holder, lapsed, procVars, histVars>>

\* handleEngineDisconnected(): a reconnect is armed, so the session stays alive.
EngineDrops(n, s) ==
    /\ Ready(n)
    /\ s \in alive[n]
    /\ \/ WriteStatus(s, "DISCONNECTED")
       \/ s \in owned[n] /\ status' = [status EXCEPT ![s] = "PARKED"]   \* unlinked by WhatsApp
    /\ UNCHANGED <<holder, lapsed, procVars, histVars>>

\* onError() and an exhausted reconnect: evicted, FAILED only if still owned.
EngineFails(n, s) ==
    /\ Ready(n)
    /\ s \in alive[n]
    /\ EngineGone(n, s)
    /\ stop' = StopAfterEngine(n, s)
    /\ status' = IF s \in owned[n] THEN [status EXCEPT ![s] = "PARKED"] ELSE status
    /\ UNCHANGED <<holder, lapsed, node, owned, mark, start, releasing, renewal,
                   todo, histVars>>

-----------------------------------------------------------------------------
\* The heartbeat.

\* Mutant: every held lease is renewed, with or without an engine.
RenewBeginsForAll(n) ==
    /\ Serving(n)
    /\ renewal[n].at = "idle"
    /\ owned[n] # {}
    /\ renewal' = [renewal EXCEPT ![n] =
                     [at |-> "update", held |-> owned[n], live |-> owned[n]]]
    /\ UNCHANGED <<rowVars, node, owned, alive, mark, start, stop, releasing, losing, todo, histVars>>

\* renew() snapshots what it holds and which of that still runs here.
RenewBegins(n) ==
    /\ Serving(n)
    /\ renewal[n].at = "idle"
    /\ owned[n] # {}
    /\ LET live == {s \in owned[n] : Active(n, s)}
       IN  renewal' = [renewal EXCEPT ![n] =
               [at |-> IF live = {} THEN "select" ELSE "update",
                held |-> owned[n], live |-> live]]
    /\ UNCHANGED <<rowVars, node, owned, alive, mark, start, stop, releasing, losing, todo, histVars>>

\* The lease UPDATE: live ones, where the row still names this node.
RenewUpdates(n) ==
    /\ Ready(n)
    /\ renewal[n].at = "update"
    /\ lapsed' = [s \in Session |->
                    lapsed[s] /\ ~(s \in renewal[n].live /\ holder[s] = n)]
    /\ renewal' = [renewal EXCEPT ![n] = [at |-> "select", held |-> @.held, live |-> {}]]
    /\ UNCHANGED <<holder, status, node, owned, alive, mark, start, stop, releasing,
                   losing, todo, histVars>>

\* Mutant: the SELECT is not restricted to this node's rows.
RenewSelectsAnyHolder(n) ==
    /\ Ready(n)
    /\ renewal[n].at = "select"
    /\ renewal' = [renewal EXCEPT ![n] = Idle]
    /\ UNCHANGED <<rowVars, node, owned, alive, mark, start, stop, releasing, losing, todo, histVars>>

\* The SELECT that finds out which rows still name this node.
RenewSelects(n) ==
    /\ Ready(n)
    /\ renewal[n].at = "select"
    /\ LET lost == {s \in renewal[n].held : holder[s] # n}
       IN  renewal' = [renewal EXCEPT ![n] =
               IF lost = {} THEN Idle ELSE [at |-> "decide", held |-> lost, live |-> {}]]
    /\ UNCHANGED <<rowVars, node, owned, alive, mark, start, stop, releasing, losing, todo, histVars>>

\* A failed query ends the tick and concludes nothing.
RenewFails(n) ==
    /\ Ready(n)
    /\ renewal[n].at \in {"update", "select"}
    /\ renewal' = [renewal EXCEPT ![n] = Idle]
    /\ UNCHANGED <<rowVars, node, owned, alive, mark, start, stop, releasing, losing, todo, histVars>>

\* Mutant: the loss is noted but no engine is destroyed.
RenewDecidesOnly(n) ==
    /\ Running(n)
    /\ renewal[n].at = "decide"
    /\ owned' = [owned EXCEPT ![n] = @ \ renewal[n].held]
    /\ mark' = [mark EXCEPT ![n] = @ \cup renewal[n].held]
    /\ renewal' = [renewal EXCEPT ![n] = Idle]
    /\ UNCHANGED <<rowVars, node, alive, start, stop, releasing, losing, todo, histVars>>

\* What was held and is not kept is lost: forget it, mark it stopping, cancel
\* its reconnect and destroy its engine (stopOrphanEngines).
RenewDecides(n) ==
    /\ Running(n)
    /\ renewal[n].at = "decide"
    /\ LET lost == renewal[n].held
       IN  /\ owned' = [owned EXCEPT ![n] = @ \ lost]
           /\ mark' = [mark EXCEPT ![n] = @ \cup lost]
           /\ losing' = [losing EXCEPT ![n] = @ \cup (lost \cap alive[n])]
    /\ renewal' = [renewal EXCEPT ![n] = Idle]
    /\ UNCHANGED <<rowVars, node, alive, start, stop, releasing, todo, histVars>>

LossTornDown(n, s) ==
    /\ Ready(n)
    /\ s \in losing[n]
    /\ EngineGone(n, s)
    /\ stop' = StopAfterEngine(n, s)
    /\ UNCHANGED <<rowVars, node, owned, mark, start, releasing, renewal, todo, histVars>>

-----------------------------------------------------------------------------
\* The sweep, the process's life, and time.

\* Mutant: only a session left DISCONNECTED is eligible.
SweepScansIdle(n) ==
    /\ Serving(n)
    /\ todo[n] = {}
    /\ todo' = [todo EXCEPT ![n] = {s \in Session : /\ holder[s] \notin {NoNode, n}
                                                  /\ lapsed[s]
                                                  /\ status[s] = "DISCONNECTED"}]
    /\ UNCHANGED <<rowVars, node, owned, alive, mark, start, stop, releasing, losing,
                   renewal, histVars>>

\* lapsedHeldByOthers(), filtered by isEligible(); started one by one later.
SweepScans(n) ==
    /\ Serving(n)
    /\ todo[n] = {}
    /\ todo' = [todo EXCEPT ![n] =
                  {s \in Session : holder[s] \notin {NoNode, n} /\ lapsed[s] /\ Adoptable(s)}]
    /\ UNCHANGED <<rowVars, node, owned, alive, mark, start, stop, releasing, losing,
                   renewal, histVars>>

\* The memory of a process that is gone.
Forget(n) ==
    /\ owned' = [owned EXCEPT ![n] = {}]
    /\ alive' = [alive EXCEPT ![n] = {}]
    /\ mark' = [mark EXCEPT ![n] = {}]
    /\ start' = [start EXCEPT ![n] = [s \in Session |-> "idle"]]
    /\ stop' = [stop EXCEPT ![n] = [s \in Session |-> "idle"]]
    /\ releasing' = [releasing EXCEPT ![n] = [s \in Session |-> "no"]]
    /\ losing' = [losing EXCEPT ![n] = {}]
    /\ renewal' = [renewal EXCEPT ![n] = Idle]
    /\ todo' = [todo EXCEPT ![n] = {}]
    /\ expired' = [expired EXCEPT ![n] = {}]

Crash(n) ==
    /\ Running(n)
    /\ Spend("outages", MaxOutages)
    /\ node' = [node EXCEPT ![n] = "down"]
    /\ Forget(n)
    /\ UNCHANGED <<rowVars, stopped>>

\* onModuleDestroy(): no further heartbeat, sweep or auto-start begins.  Calls
\* of start() in flight are not waited for (auto-start's own is, which only
\* removes behaviours).
ShutdownBegins(n) ==
    /\ node[n] = "up"
    /\ Spend("outages", MaxOutages)
    /\ node' = [node EXCEPT ![n] = "draining"]
    /\ todo' = [todo EXCEPT ![n] = {}]
    /\ UNCHANGED <<rowVars, owned, alive, mark, start, stop, releasing, losing, renewal,
                   expired, stopped>>

\* lifecycle.shutdown(): reconnects are cancelled (the sessions in `waiting` had
\* nothing else here) and the teardown of every registered engine begins.
ShutdownEngines(n) ==
    /\ Ready(n)
    /\ node[n] = "draining"
    /\ node' = [node EXCEPT ![n] = "closing"]
    /\ \E waiting \in SUBSET alive[n] :
          /\ alive' = [alive EXCEPT ![n] = @ \ waiting]
          /\ losing' = [losing EXCEPT ![n] = @ \ waiting]
          /\ stop' = [stop EXCEPT ![n] = [s \in Session |->
                        IF s \in waiting THEN AfterEngine(stop[n][s]) ELSE stop[n][s]]]
    /\ UNCHANGED <<rowVars, owned, mark, start, releasing, renewal, todo, histVars>>

\* engines.clear(), when all those teardowns have settled: an engine that a
\* start() in flight registered meanwhile leaves the registry undestroyed.
ShutdownClears(n) ==
    /\ Ready(n)
    /\ node[n] = "closing"
    /\ node' = [node EXCEPT ![n] = "closed"]
    /\ alive' = [alive EXCEPT ![n] = {}]
    /\ losing' = [losing EXCEPT ![n] = {}]
    /\ stop' = [stop EXCEPT ![n] = [s \in Session |->
                  AfterEngine(stop[n][s])]]
    /\ UNCHANGED <<rowVars, owned, mark, start, releasing, renewal, todo, histVars>>

\* Mutant: the rows are released before the engines are closed.
ShutdownReleasesFirst(n) ==
    /\ Ready(n)
    /\ node[n] = "draining"
    /\ holder' = [s \in Session |->
                    IF s \in owned[n] /\ holder[s] = n THEN NoNode ELSE holder[s]]
    /\ lapsed' = [s \in Session |-> lapsed[s] /\ ~(s \in owned[n] /\ holder[s] = n)]
    /\ UNCHANGED <<status, procVars, histVars>>

\* releaseAll().
ShutdownReleases(n) ==
    /\ Ready(n)
    /\ node[n] = "closed"
    /\ holder' = [s \in Session |->
                    IF s \in owned[n] /\ holder[s] = n THEN NoNode ELSE holder[s]]
    /\ lapsed' = [s \in Session |-> lapsed[s] /\ ~(s \in owned[n] /\ holder[s] = n)]
    /\ node' = [node EXCEPT ![n] = "released"]
    /\ owned' = [owned EXCEPT ![n] = {}]
    /\ UNCHANGED <<status, alive, mark, start, stop, releasing, losing, renewal, todo, histVars>>

Exit(n) ==
    /\ node[n] = "released"
    /\ node' = [node EXCEPT ![n] = "down"]
    /\ Forget(n)
    /\ UNCHANGED <<rowVars, stopped, spent>>

\* onModuleInit() resets what this node may claim, then auto-start scans.
Boot(n) ==
    /\ node[n] = "down"
    /\ Spend("outages", MaxOutages)
    /\ node' = [node EXCEPT ![n] = "up"]
    /\ status' = [s \in Session |->
                    IF Claimable(n, s) /\ status[s] \in {"ACTIVE", "QR"}
                    THEN "DISCONNECTED" ELSE status[s]]
    /\ todo' = [todo EXCEPT ![n] =
                  {s \in Session : Claimable(n, s) /\ status'[s] = "DISCONNECTED"}]
    /\ UNCHANGED <<holder, lapsed, owned, alive, mark, start, stop, releasing,
                   losing, renewal, expired, stopped>>

\* leaseExpiresAt passes.
Lapse(s) ==
    /\ holder[s] # NoNode
    /\ ~lapsed[s]
    /\ InTime(s)
    /\ IF Active(holder[s], s) THEN Spend("lapses", MaxLapses) ELSE UNCHANGED spent
    /\ lapsed' = [lapsed EXCEPT ![s] = TRUE]
    /\ expired' = [expired EXCEPT ![holder[s]] =
                     IF start[holder[s]][s] = "idle" /\ s \notin alive[holder[s]]
                     THEN @ ELSE @ \cup {s}]
    /\ UNCHANGED <<holder, status, procVars, stopped>>

-----------------------------------------------------------------------------
StartStep(n, s) == \/ StartRequested(n, s) \/ StartFromList(n, s)
                   \/ ClaimReturned(n, s) \/ StartAccepted(n, s)
                   \/ StartRefused(n, s) \/ StartOpened(n, s)
                   \/ StartFails(n, s) \/ StartRetried(n, s) \/ StartGivesUp(n, s)

StopStep(n, s) == \/ StopRequested(n, s) \/ StopFenced(n, s) \/ LogoutRequested(n, s)
                  \/ LogoutRefused(n, s) \/ StopTornDown(n, s) \/ StopReturns(n, s)
                  \/ LogoutReturns(n, s) \/ Released(n, s)

EngineStep(n, s) == \/ EngineReady(n, s) \/ EngineAsksQr(n, s)
                    \/ EngineDrops(n, s) \/ EngineFails(n, s)

RenewStep(n) == \/ RenewBegins(n) \/ RenewUpdates(n) \/ RenewSelects(n)
                \/ RenewFails(n) \/ RenewDecides(n)

LifeStep(n) == \/ SweepScans(n) \/ Crash(n) \/ ShutdownBegins(n)
               \/ ShutdownEngines(n) \/ ShutdownClears(n) \/ ShutdownReleases(n)
               \/ Exit(n) \/ Boot(n)

Next == \/ \E n \in Node : RenewStep(n) \/ LifeStep(n)
        \/ \E n \in Node, s \in Session :
              StartStep(n, s) \/ StopStep(n, s) \/ EngineStep(n, s) \/ LossTornDown(n, s)
        \/ \E s \in Session : Lapse(s)

Spec == Init /\ [][Next]_vars

-----------------------------------------------------------------------------
(***************************************************************************)
(* Fairness.  Timers fire, promises settle (every teardown is bounded by   *)
(* teardownEngineSafely's deadline), and a lease nobody renews runs out.   *)
(* The heartbeat's queries are retried at every tick and succeed in the    *)
(* end.  Nothing forces an operator's call, an engine event, an outage or  *)
(* a restart.                                                              *)
(***************************************************************************)
\* The lease of a session that no engine and no tick in flight keeps alive.
RunsOut(s) == /\ Lapse(s)
              /\ ~Active(holder[s], s)
              /\ \A n \in Node : s \notin renewal[n].live

\* The stages of one start() call, one of which is always next.
StartProgress(n, s) == \/ ClaimReturned(n, s)
                       \/ StartAccepted(n, s) \/ StartRefused(n, s)
                       \/ StartOpened(n, s) \/ StartFails(n, s)
                       \/ StartRetried(n, s) \/ StartGivesUp(n, s)

\* A tick that has begun comes to an end, successful or not.
TickSettles(n) == RenewUpdates(n) \/ RenewSelects(n) \/ RenewFails(n) \/ RenewDecides(n)

\* What the loss of a claim relies on.
HeartbeatSpec ==
    /\ Spec
    /\ \A n \in Node : /\ WF_vars(RenewBegins(n) \/ RenewDecides(n))
                        /\ SF_vars(RenewUpdates(n)) /\ SF_vars(RenewSelects(n))
    /\ \A n \in Node, s \in Session : /\ WF_vars(ClaimReturned(n, s) \/ Released(n, s))
                                       /\ WF_vars(LossTornDown(n, s))
    /\ \A s \in Session : WF_vars(RunsOut(s))

\* What an adoption relies on.
SweepSpec ==
    /\ Spec
    /\ \A n \in Node : WF_vars(TickSettles(n)) /\ WF_vars(SweepScans(n))
    /\ \A n \in Node, s \in Session : /\ WF_vars(StartProgress(n, s))
                                       /\ WF_vars(StartFromList(n, s))
                                       /\ WF_vars(Released(n, s))
    /\ \A s \in Session : WF_vars(RunsOut(s))

-----------------------------------------------------------------------------
TypeOK ==
    /\ holder \in [Session -> Node \cup {NoNode}]
    /\ lapsed \in [Session -> BOOLEAN]
    /\ status \in [Session -> Statuses]
    /\ node \in [Node -> {"up", "draining", "closing", "closed", "released", "down"}]
    /\ {owned, alive, mark, losing, todo, expired} \subseteq [Node -> SUBSET Session]
    /\ start \in [Node -> [Session -> StartAt]]
    /\ stop \in [Node -> [Session -> StopAt]]
    /\ releasing \in [Node -> [Session -> {"no", "start", "stop"}]]
    /\ renewal \in [Node -> [at : {"idle", "update", "select", "decide"},
                            held : SUBSET Session, live : SUBSET Session]]
    /\ stopped \subseteq Session
    /\ spent \in [{"outages", "requests", "lapses"} -> Nat]
    /\ \A s \in Session : lapsed[s] => holder[s] # NoNode

\* claim() and release(): a lease that has not lapsed is never taken or cleared
\* by a peer; its holder gives it up, by a release() or in releaseAll().
LiveLeaseIsExclusive ==
    [][\A s \in Session, n \in Node :
          holder[s] = n /\ ~lapsed[s] /\ holder'[s] # n =>
             /\ holder'[s] = NoNode
             /\ releasing[n][s] # "no" \/ node[n] = "closed"]_vars

\* renew(): a running engine is one its node's heartbeat looks after, or is
\* already being torn down; or a peer taking the session would go unnoticed.
\* A process that has given everything up to exit is ReleasedIsClosed's subject.
AliveIsWatched ==
    \A n \in Node : node[n] # "released" =>
        \A s \in alive[n] : s \in owned[n] \cup losing[n] \/ stop[n][s] \in {"tearing", "leaving"}

\* releaseUnlessEngineActive(): no engine runs on a row that does not name its
\* node, unless the claim lapsed under it; or a peer may open the session too.
EngineHasClaim ==
    \A n \in Node : node[n] # "released" =>
        \A s \in alive[n] \ expired[n] : holder[s] = n

\* onModuleDestroy(): the claims are released only after the engines are down.
ReleasedIsClosed == \A n \in Node : node[n] = "released" => alive[n] = {}

\* start(): two nodes only ever hold one session open when a lease lapsed, even
\* with crashes, shutdowns and restarts, until a process is about to exit.
TwoEnginesOnlyAfterLapse ==
    \A m, n \in {k \in Node : node[k] # "released"} : m # n =>
        \A s \in alive[m] \cap alive[n] : s \in expired[m] \cup expired[n]

\* release(): a session an operator stopped is not an orphan to the sweep,
\* whoever held it, until somebody claims it again.
StoppedIsNoOrphan == \A s \in stopped : holder[s] = NoNode

\* A takeover sweep does not start a session that was stopped on purpose.
SweepRespectsStop ==
    [][\A n \in Node, s \in Session : StartFromList(n, s) => s \notin stopped]_vars

\* renew() and onLeaseLoss(): two open engines of one session are a passing
\* condition; the node that lost the row closes its own.
Overlap(s) == \E m, n \in Node : m # n /\ s \in alive[m] \cap alive[n]

OverlapEnds == \A s \in Session : Overlap(s) ~> ~Overlap(s)

\* renew(): a claim without an engine is not pinned to its node; the session can
\* be started elsewhere in the end.
ClaimIsNotPinned ==
    \A n \in Node, s \in Session :
        holder[s] = n ~> Active(n, s) \/ lapsed[s] \/ holder[s] # n

\* sweep(): a linked session that ran on a node that is gone is claimed by a
\* surviving node.  The promise is void when the node comes back (its own
\* auto-start sees to it), when no node stays up, when a survivor gives the
\* session up (an operator's call there, or a failed start), and when the row
\* is, or is made, one the sweep leaves alone.
Survives(n, m) == n # m /\ node[n] = "up"

OrphanIsAdopted ==
    \A m \in Node, s \in Session :
        node[m] = "down" /\ holder[s] = m /\ Adoptable(s)
            ~> \/ \E n \in Node : Survives(n, m) /\ holder[s] = n /\ start[n][s] # "idle"
               \/ node[m] # "down" \/ ~\E n \in Node : Survives(n, m)
               \/ \E n \in Node \ {m} : releasing[n][s] # "no"
               \/ ~Adoptable(s)
=============================================================================
