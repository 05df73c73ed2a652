------------------------- MODULE ConcurrencyLimiter -------------------------
(***************************************************************************)
(* common/utils/concurrency-limiter.ts: the promise-based gate in front of *)
(* webhook dispatch and inbound media downloads.  A finishing task hands   *)
(* its slot to the oldest parked one: `active` is not decremented, and the *)
(* woken task resumes in a later microtask without incrementing it.  The   *)
(* model keeps that gap ("woken"), because run() and close() can fall into *)
(* it.  A task is one call of run(); its body is opaque and may throw.     *)
(***************************************************************************)
EXTENDS Integers, Sequences, FiniteSets

CONSTANTS Task,        \* calls of run()
          Max,         \* constructor argument, before the clamp
          MaxQueued    \* constructor argument, before the clamp

ASSUME LimiterAssumption == Max \in Int /\ MaxQueued \in Int

VARIABLES active,      \* this.active
          waiters,     \* this.waiters, oldest first
          closed,      \* this.closed
          pc           \* how far each call of run() has got

vars == <<active, waiters, closed, pc>>

\* The constructor's clamps: never fewer than one slot, never a negative queue.
Slots == IF Max < 1 THEN 1 ELSE Max
QueueCap == IF MaxQueued < 0 THEN 0 ELSE MaxQueued

States == {"new", "parked", "woken", "running", "done", "rejected"}

Parked == {t \in Task : pc[t] = "parked"}
Holding == {t \in Task : pc[t] \in {"woken", "running"}}
Waiting == {waiters[i] : i \in 1 .. Len(waiters)}

Init == /\ active = 0
        /\ waiters = <<>>
        /\ closed = FALSE
        /\ pc = [t \in Task |-> "new"]

-----------------------------------------------------------------------------
\* run() up to its first await: refused, admitted, or parked.

RunClosed(t) == /\ pc[t] = "new"
                /\ closed
                /\ pc' = [pc EXCEPT ![t] = "rejected"]
                /\ UNCHANGED <<active, waiters, closed>>

\* Mutant: the slot test is off by one.
RunOverAdmitted(t) == /\ pc[t] = "new"
                      /\ ~closed
                      /\ active <= Slots
                      /\ active' = active + 1
                      /\ pc' = [pc EXCEPT ![t] = "running"]
                      /\ UNCHANGED <<waiters, closed>>

RunAdmitted(t) == /\ pc[t] = "new"
                  /\ ~closed
                  /\ active < Slots
                  /\ active' = active + 1
                  /\ pc' = [pc EXCEPT ![t] = "running"]
                  /\ UNCHANGED <<waiters, closed>>

RunParked(t) == /\ pc[t] = "new"
                /\ ~closed
                /\ active >= Slots
                /\ Len(waiters) < QueueCap
                /\ waiters' = Append(waiters, t)
                /\ pc' = [pc EXCEPT ![t] = "parked"]
                /\ UNCHANGED <<active, closed>>

RunQueueFull(t) == /\ pc[t] = "new"
                   /\ ~closed
                   /\ active >= Slots
                   /\ Len(waiters) >= QueueCap
                   /\ pc' = [pc EXCEPT ![t] = "rejected"]
                   /\ UNCHANGED <<active, waiters, closed>>

\* The woken task's continuation: it starts its body on the slot it was handed.
Resume(t) == /\ pc[t] = "woken"
             /\ pc' = [pc EXCEPT ![t] = "running"]
             /\ UNCHANGED <<active, waiters, closed>>

\* Mutant: pop() instead of shift().
FinishLastParkedFirst(t) ==
    /\ pc[t] = "running"
    /\ UNCHANGED closed
    /\ \/ /\ waiters = <<>>
          /\ active' = active - 1
          /\ pc' = [pc EXCEPT ![t] = "done"]
          /\ UNCHANGED waiters
       \/ /\ waiters # <<>>
          /\ waiters' = SubSeq(waiters, 1, Len(waiters) - 1)
          /\ pc' = [pc EXCEPT ![t] = "done", ![waiters[Len(waiters)]] = "woken"]
          /\ UNCHANGED active

\* The finally block, after the body returned or threw.
Finish(t) == /\ pc[t] = "running"
             /\ UNCHANGED closed
             /\ \/ /\ waiters = <<>>
                   /\ active' = active - 1
                   /\ pc' = [pc EXCEPT ![t] = "done"]
                   /\ UNCHANGED waiters
                \/ /\ waiters # <<>>
                   /\ waiters' = Tail(waiters)
                   /\ pc' = [pc EXCEPT ![t] = "done", ![Head(waiters)] = "woken"]
                   /\ UNCHANGED active

\* Mutant: close() empties the list without rejecting anyone.
CloseDroppingParked == /\ closed' = TRUE
                       /\ waiters' = <<>>
                       /\ UNCHANGED <<active, pc>>

\* close(): every parked call is rejected, whoever holds a slot keeps it.
Close == /\ closed' = TRUE
         /\ waiters' = <<>>
         /\ pc' = [t \in Task |-> IF t \in Waiting THEN "rejected" ELSE pc[t]]
         /\ UNCHANGED active

Run(t) == RunClosed(t) \/ RunAdmitted(t) \/ RunParked(t) \/ RunQueueFull(t)

Next == \/ \E t \in Task : Run(t) \/ Resume(t) \/ Finish(t)
        \/ Close

Spec == Init /\ [][Next]_vars

\* The event loop runs every queued microtask, and a task body always settles:
\* the bodies passed to run() are HTTP attempts and downloads with deadlines.
Fairness == \A t \in Task : WF_vars(Resume(t)) /\ WF_vars(Finish(t))

FairSpec == Spec /\ Fairness

-----------------------------------------------------------------------------
TypeOK == /\ active \in Nat
          /\ waiters \in Seq(Task)
          /\ closed \in BOOLEAN
          /\ pc \in [Task -> States]

\* `active` counts exactly the calls that hold a slot, the woken ones included,
\* and never exceeds the limit: the hand-over neither leaks nor doubles a slot.
SlotAccounting == /\ active = Cardinality(Holding)
                  /\ active <= Slots

\* The waiter list holds each parked call once: none is forgotten, none twice.
WaitersAreParked == /\ Waiting = Parked
                    /\ \A i, j \in 1 .. Len(waiters) :
                          waiters[i] = waiters[j] => i = j

\* No lost wake-up: a call is parked only while every slot is taken, so some
\* holder's finally block will reach it; and the queue stays within its cap.
NoIdleSlotWhileParked == /\ waiters # <<>> => active = Slots
                         /\ Len(waiters) <= QueueCap

\* What the shutdown drain of the webhook service relies on: after close(),
\* activeCount = 0 means no admitted call is still to run.
DrainedMeansIdle == closed /\ active = 0 => Holding \cup Parked = {}

Safety == SlotAccounting /\ WaitersAreParked /\ NoIdleSlotWhileParked

\* FIFO: a slot goes to a newcomer only when nobody waits, and a parked call
\* is woken only from the head of the list.
ServedInOrder ==
    [][\A t \in Task :
          /\ pc[t] = "new" /\ pc'[t] = "running" => waiters = <<>>
          /\ pc[t] = "parked" /\ pc'[t] = "woken" => t = Head(waiters)]_vars

\* A parked call is eventually served or rejected.
ParkedIsSettled == \A t \in Task : pc[t] = "parked" ~> pc[t] \in {"done", "rejected"}

\* The limiter implements the gate: a woken call is already inside.
Gate == INSTANCE AdmissionGate WITH
           inside <- Holding,
           waiting <- Parked,
           gone <- {t \in Task : pc[t] \in {"done", "rejected"}},
           shut <- closed

ImplementsGate == Gate!GateSpec
=============================================================================
