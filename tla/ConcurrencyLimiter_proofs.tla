---------------------- MODULE ConcurrencyLimiter_proofs ----------------------
(***************************************************************************)
(* The limiter's safety for every set of calls, every Max and MaxQueued.   *)
(*                                                                         *)
(* Inv is inductive.  The slot count cannot be proved alone: that a hand-  *)
(* over keeps `active` right needs the head of the waiter list to be a     *)
(* parked call (WaitersAreParked), and that nobody is stranded needs the   *)
(* list to be empty whenever a slot is free (NoIdleSlotWhileParked).       *)
(***************************************************************************)
EXTENDS ConcurrencyLimiter, FiniteSetTheorems, SequenceTheorems, TLAPS

Inv == /\ TypeOK
       /\ IsFiniteSet(Holding)
       /\ SlotAccounting
       /\ WaitersAreParked
       /\ NoIdleSlotWhileParked

\* The clamps of the constructor leave a usable gate whatever was configured.
LEMMA ClampedBounds == Slots \in Nat /\ Slots >= 1 /\ QueueCap \in Nat
  BY LimiterAssumption DEF Slots, QueueCap

\* The invariant holds of an idle gate.
LEMMA InitInv == Init => Inv
  <1> SUFFICES ASSUME Init PROVE Inv
    OBVIOUS
  <1>1. TypeOK
    BY EmptySeq DEF Init, TypeOK, States
  <1>2. Holding = {} /\ Parked = {} /\ Waiting = {}
    BY DEF Init, Holding, Parked, Waiting
  <1>3. IsFiniteSet(Holding) /\ SlotAccounting
    BY <1>2, FS_EmptySet, ClampedBounds DEF Init, SlotAccounting
  <1>4. WaitersAreParked /\ NoIdleSlotWhileParked
    BY <1>2, ClampedBounds DEF Init, WaitersAreParked, NoIdleSlotWhileParked
  <1> QED
    BY <1>1, <1>3, <1>4 DEF Inv

\* A refused call changes nothing that the gate counts.
LEMMA RefusedStep ==
    ASSUME Inv, NEW t \in Task, RunClosed(t) \/ RunQueueFull(t)
    PROVE  Inv'
  <1>1. /\ pc[t] = "new" /\ pc' = [pc EXCEPT ![t] = "rejected"]
        /\ UNCHANGED <<active, waiters, closed>>
    BY DEF RunClosed, RunQueueFull
  <1>2. TypeOK'
    BY <1>1 DEF Inv, TypeOK, States
  <1>3. Holding' = Holding /\ Parked' = Parked /\ Waiting' = Waiting
    BY <1>1 DEF Inv, TypeOK, Holding, Parked, Waiting
  <1> QED
    BY <1>1, <1>2, <1>3
    DEF Inv, SlotAccounting, WaitersAreParked, NoIdleSlotWhileParked, Slots, QueueCap

\* A call admitted at once takes a free slot.
LEMMA AdmittedStep ==
    ASSUME Inv, NEW t \in Task, RunAdmitted(t)
    PROVE  Inv'
  <1>1. TypeOK'
    BY DEF Inv, TypeOK, States, RunAdmitted
  <1>2. /\ Holding' = Holding \cup {t} /\ t \notin Holding
        /\ Parked' = Parked /\ Waiting' = Waiting
    BY DEF Inv, TypeOK, RunAdmitted, Holding, Parked, Waiting
  <1>3. IsFiniteSet(Holding') /\ Cardinality(Holding') = Cardinality(Holding) + 1
    BY <1>2, FS_AddElement DEF Inv
  <1>4. SlotAccounting'
    BY <1>3, ClampedBounds DEF Inv, TypeOK, SlotAccounting, RunAdmitted, Slots
  <1>5. waiters = <<>>
    BY ClampedBounds DEF Inv, TypeOK, NoIdleSlotWhileParked, RunAdmitted
  <1> QED
    BY <1>1, <1>2, <1>3, <1>4, <1>5
    DEF Inv, WaitersAreParked, NoIdleSlotWhileParked, RunAdmitted, QueueCap

\* A call that finds no slot joins the waiters.
LEMMA ParkedStep ==
    ASSUME Inv, NEW t \in Task, RunParked(t)
    PROVE  Inv'
  <1> USE DEF Inv
  <1>1. TypeOK'
    BY AppendProperties DEF TypeOK, States, RunParked
  <1>2. Holding' = Holding /\ Parked' = Parked \cup {t} /\ t \notin Parked
    BY DEF TypeOK, RunParked, Holding, Parked
  <1>3. /\ Len(waiters') = Len(waiters) + 1
        /\ waiters'[Len(waiters) + 1] = t
        /\ \A i \in 1 .. Len(waiters) : waiters'[i] = waiters[i]
    BY AppendProperties DEF TypeOK, RunParked
  <1>4. Waiting' = Waiting \cup {t}
    BY <1>3, LenProperties DEF TypeOK, Waiting
  <1>5. WaitersAreParked'
    <2>1. \A i, j \in 1 .. Len(waiters') : waiters'[i] = waiters'[j] => i = j
      BY <1>2, <1>3, LenProperties DEF TypeOK, WaitersAreParked, Waiting
    <2> QED
      BY <1>2, <1>4, <2>1 DEF WaitersAreParked
  <1>6. SlotAccounting' /\ IsFiniteSet(Holding')
    BY <1>2 DEF SlotAccounting, RunParked, Slots
  <1>7. NoIdleSlotWhileParked'
    BY <1>3, LenProperties, ClampedBounds
    DEF TypeOK, NoIdleSlotWhileParked, SlotAccounting, RunParked, Slots, QueueCap
  <1> QED
    BY <1>1, <1>5, <1>6, <1>7

\* A woken call runs in the slot it was handed.
LEMMA ResumeStep ==
    ASSUME Inv, NEW t \in Task, Resume(t)
    PROVE  Inv'
  <1>1. TypeOK'
    BY DEF Inv, TypeOK, States, Resume
  <1>2. Holding' = Holding /\ Parked' = Parked /\ Waiting' = Waiting
    BY DEF Inv, TypeOK, Resume, Holding, Parked, Waiting
  <1> QED
    BY <1>1, <1>2
    DEF Inv, SlotAccounting, WaitersAreParked, NoIdleSlotWhileParked, Resume, Slots, QueueCap

\* The two ways a slot is given back: released, or handed to the oldest waiter.
LEMMA FinishStep ==
    ASSUME Inv, NEW t \in Task, Finish(t)
    PROVE  Inv'
  <1> USE DEF Inv
  <1>1. t \in Holding /\ active > 0
    <2>1. t \in Holding
      BY DEF Finish, Holding
    <2>2. Holding # {} /\ Cardinality(Holding) \in Nat
      BY <2>1, FS_CardinalityType
    <2> QED
      BY <2>1, <2>2, FS_EmptySet DEF SlotAccounting
  <1>2. IsFiniteSet(Holding \ {t}) /\ Cardinality(Holding \ {t}) = active - 1
    BY <1>1, FS_RemoveElement DEF SlotAccounting
  <1>3. CASE waiters = <<>>
    <2>1. /\ active' = active - 1 /\ pc' = [pc EXCEPT ![t] = "done"]
          /\ UNCHANGED waiters
      BY <1>3 DEF Finish
    <2>2. TypeOK'
      BY <1>1, <2>1 DEF TypeOK, States, Finish
    <2>3. Holding' = Holding \ {t} /\ Parked' = Parked /\ Waiting' = Waiting
      BY <2>1 DEF TypeOK, Finish, Holding, Parked, Waiting
    <2> QED
      BY <1>2, <1>3, <2>1, <2>2, <2>3, ClampedBounds
      DEF TypeOK, SlotAccounting, WaitersAreParked, NoIdleSlotWhileParked, Slots, QueueCap
  <1>4. CASE waiters # <<>>
    <2> DEFINE h == Head(waiters)
    <2>1. /\ waiters' = Tail(waiters) /\ active' = active
          /\ pc' = [pc EXCEPT ![t] = "done", ![h] = "woken"]
      BY <1>4 DEF Finish
    <2>2. /\ Len(waiters) \in Nat /\ Len(waiters) >= 1
          /\ h = waiters[1] /\ h \in Waiting
      BY <1>4, HeadTailProperties, LenProperties, EmptySeq DEF TypeOK, Waiting
    <2>3. h \in Task /\ pc[h] = "parked" /\ h # t
      BY <2>2 DEF WaitersAreParked, Parked, Finish
    <2>4. TypeOK'
      BY <1>4, <2>1, <2>3, HeadTailProperties DEF TypeOK, States, Finish
    <2>5. Holding' = (Holding \ {t}) \cup {h} /\ Parked' = Parked \ {h} /\ h \notin Holding
      BY <2>1, <2>3 DEF TypeOK, Holding, Parked, Finish
    <2>6. SlotAccounting' /\ IsFiniteSet(Holding')
      <3>1. h \notin Holding \ {t}
        BY <2>5
      <3>2. /\ IsFiniteSet((Holding \ {t}) \cup {h})
            /\ Cardinality((Holding \ {t}) \cup {h}) = (active - 1) + 1
        BY <1>2, <3>1, FS_AddElement
      <3> QED
        BY <1>1, <2>1, <2>5, <3>2, ClampedBounds DEF TypeOK, SlotAccounting, Slots
    <2>7. /\ Len(waiters') = Len(waiters) - 1
          /\ \A i \in 1 .. Len(waiters') : waiters'[i] = waiters[i + 1]
      BY <1>4, <2>1, HeadTailProperties DEF TypeOK
    <2>8. Waiting' = Waiting \ {h}
      <3>1. ASSUME NEW x \in Waiting' PROVE x \in Waiting \ {h}
        BY <2>2, <2>7, <3>1 DEF Waiting, WaitersAreParked
      <3>2. ASSUME NEW x \in Waiting \ {h} PROVE x \in Waiting'
        <4>1. PICK i \in 1 .. Len(waiters) : waiters[i] = x
          BY <3>2 DEF Waiting
        <4>2. i # 1
          BY <2>2, <3>2, <4>1
        <4>3. i - 1 \in 1 .. Len(waiters') /\ waiters'[i - 1] = x
          BY <2>2, <2>7, <4>1, <4>2
        <4> QED
          BY <4>3 DEF Waiting
      <3> QED
        BY <3>1, <3>2
    <2>9. WaitersAreParked'
      <3>1. \A i, j \in 1 .. Len(waiters') : waiters'[i] = waiters'[j] => i = j
        BY <2>2, <2>7 DEF WaitersAreParked
      <3> QED
        BY <2>5, <2>8, <3>1 DEF WaitersAreParked
    <2>10. NoIdleSlotWhileParked'
      BY <1>4, <2>1, <2>2, <2>7, ClampedBounds DEF NoIdleSlotWhileParked, Slots, QueueCap
    <2> QED
      BY <2>4, <2>6, <2>9, <2>10
  <1> QED
    BY <1>3, <1>4

\* close() rejects the waiters and keeps the slots in use.
LEMMA CloseStep ==
    ASSUME Inv, Close
    PROVE  Inv'
  <1>1. TypeOK'
    BY EmptySeq DEF Inv, TypeOK, States, Close
  <1>2. Holding' = Holding
    BY DEF Inv, TypeOK, WaitersAreParked, Close, Holding, Parked
  <1>3. Waiting' = {} /\ Parked' = {}
    BY DEF Inv, TypeOK, WaitersAreParked, Close, Waiting, Parked
  <1> QED
    BY <1>1, <1>2, <1>3, ClampedBounds
    DEF Inv, SlotAccounting, WaitersAreParked, NoIdleSlotWhileParked, Close, Slots, QueueCap

\* Every step keeps the invariant.
LEMMA NextInv == Inv /\ [Next]_vars => Inv'
  <1> SUFFICES ASSUME Inv, [Next]_vars PROVE Inv'
    OBVIOUS
  <1>1. ASSUME NEW t \in Task, Run(t) PROVE Inv'
    BY <1>1, RefusedStep, AdmittedStep, ParkedStep DEF Run
  <1>2. ASSUME NEW t \in Task, Resume(t) PROVE Inv'
    BY <1>2, ResumeStep
  <1>3. ASSUME NEW t \in Task, Finish(t) PROVE Inv'
    BY <1>3, FinishStep
  <1>4. CASE Close
    BY <1>4, CloseStep
  <1>5. CASE UNCHANGED vars
    BY <1>5 DEF Inv, TypeOK, SlotAccounting, WaitersAreParked, NoIdleSlotWhileParked,
                Holding, Parked, Waiting, vars, Slots, QueueCap
  <1> QED
    BY <1>1, <1>2, <1>3, <1>4, <1>5 DEF Next

\* So it holds in every reachable state.
LEMMA SpecInv == Spec => []Inv
  BY InitInv, NextInv, PTL DEF Spec

\* Every variable keeps its type: `active` never goes below zero and the
\* waiter list only ever holds calls of run().
THEOREM LimiterTypeOK == Spec => []TypeOK
  BY SpecInv, PTL DEF Inv

\* The hand-over of slots in run()'s finally block neither leaks nor doubles
\* one: `active` is the number of calls that hold a slot, at most Slots.
THEOREM LimiterSlotAccounting == Spec => []SlotAccounting
  BY SpecInv, PTL DEF Inv

\* The waiter list is exactly the set of parked calls, each of them once.
THEOREM LimiterWaitersAreParked == Spec => []WaitersAreParked
  BY SpecInv, PTL DEF Inv

\* No call is parked while a slot is free, and the queue stays within its cap.
THEOREM LimiterNoIdleSlot == Spec => []NoIdleSlotWhileParked
  BY SpecInv, PTL DEF Inv

\* After close(), activeCount = 0 means no admitted call is still to run:
\* the shutdown drain of the webhook service may stop waiting.
THEOREM LimiterDrained == Spec => []DrainedMeansIdle
  <1>1. Inv => DrainedMeansIdle
    <2> SUFFICES ASSUME Inv, active = 0 PROVE Holding \cup Parked = {}
      BY DEF DrainedMeansIdle
    <2>1. Holding = {}
      BY FS_EmptySet DEF Inv, SlotAccounting
    <2>2. waiters = <<>>
      BY ClampedBounds DEF Inv, NoIdleSlotWhileParked
    <2>3. Parked = {}
      BY <2>2 DEF Inv, WaitersAreParked, Waiting
    <2> QED
      BY <2>1, <2>3
  <1> QED
    BY <1>1, SpecInv, PTL

\* A slot goes to a newcomer only when nobody waits, and to the head of the
\* list otherwise.
THEOREM LimiterServedInOrder == Spec => ServedInOrder
  <1> DEFINE Order(t) == /\ pc[t] = "new" /\ pc'[t] = "running" => waiters = <<>>
                         /\ pc[t] = "parked" /\ pc'[t] = "woken" => t = Head(waiters)
  <1>1. ASSUME Inv, [Next]_vars PROVE \A t \in Task : Order(t)
    <2> SUFFICES ASSUME NEW t \in Task PROVE Order(t)
      OBVIOUS
    <2>1. CASE UNCHANGED vars
      BY <2>1 DEF vars
    <2>2. ASSUME NEW u \in Task, RunAdmitted(u) PROVE Order(t)
      <3>1. waiters = <<>>
        BY <1>1, <2>2, ClampedBounds DEF Inv, TypeOK, NoIdleSlotWhileParked, RunAdmitted
      <3> QED
        BY <1>1, <2>2, <3>1 DEF Inv, TypeOK, RunAdmitted
    <2>3. ASSUME NEW u \in Task, RunClosed(u) \/ RunQueueFull(u) \/ RunParked(u) \/ Resume(u)
          PROVE  Order(t)
      BY <1>1, <2>3 DEF Inv, TypeOK, RunClosed, RunQueueFull, RunParked, Resume
    <2>4. ASSUME NEW u \in Task, Finish(u) PROVE Order(t)
      BY <1>1, <2>4 DEF Inv, TypeOK, Finish
    <2>5. CASE Close
      BY <1>1, <2>5 DEF Inv, TypeOK, Close
    <2> QED
      BY <1>1, <2>1, <2>2, <2>3, <2>4, <2>5 DEF Next, Run
  <1>2. Inv /\ [Next]_vars => [\A t \in Task : Order(t)]_vars
    BY <1>1
  <1> QED
    BY <1>2, SpecInv, PTL DEF Spec, ServedInOrder

-----------------------------------------------------------------------------
\* The limiter implements the gate.  A handed-over slot is a Leave that lets
\* the head of the list in; Resume is invisible, the woken call is inside.

\* The gate's Cardinality is the same operator under its instance name.
LEMMA GateCardinality == \A S : Gate!Cardinality(S) = Cardinality(S)
  BY DEF Gate!Cardinality, Cardinality

\* The initial states are initial states of the abstract gate.
LEMMA InitRefines == Init => Gate!GateInit
  BY DEF Init, Gate!GateInit, Holding, Parked

\* Every step is a step of the abstract gate, or a stutter.
LEMMA StepRefines == Inv /\ [Next]_vars => [Gate!GateNext]_(Gate!gateVars)
  <1> SUFFICES ASSUME Inv, [Next]_vars PROVE [Gate!GateNext]_(Gate!gateVars)
    OBVIOUS
  <1> DEFINE Gone == {t \in Task : pc[t] \in {"done", "rejected"}}
  <1>1. ASSUME NEW t \in Task, pc[t] = "new" PROVE t \in Gate!Fresh
    BY <1>1 DEF Gate!Fresh, Holding, Parked
  <1>2. waiters = <<>> => Parked = {}
    BY DEF Inv, WaitersAreParked, Waiting
  <1>3. active = Cardinality(Holding) /\ active \in Nat /\ active <= Slots /\ Slots \in Nat
    BY ClampedBounds DEF Inv, TypeOK, SlotAccounting
  <1>4. ASSUME NEW t \in Task, RunClosed(t) \/ RunQueueFull(t) PROVE Gate!Refuse(t)
    <2>1. Holding' = Holding /\ Parked' = Parked /\ Gone' = Gone \cup {t} /\ pc[t] = "new"
      BY <1>4 DEF Inv, TypeOK, RunClosed, RunQueueFull, Holding, Parked
    <2>2. closed \/ Cardinality(Holding) = Slots
      BY <1>3, <1>4 DEF RunClosed, RunQueueFull
    <2>4. t \in Gate!Fresh
      BY <1>1, <2>1
    <2> QED
      BY <1>3, <1>4, <2>1, <2>2, <2>4, GateCardinality DEF Gate!Refuse, RunClosed, RunQueueFull
  <1>5. ASSUME NEW t \in Task, RunAdmitted(t) PROVE Gate!Enter(t)
    <2>1. /\ Holding' = Holding \cup {t} /\ Parked' = Parked /\ Gone' = Gone
          /\ pc[t] = "new" /\ ~closed /\ closed' = closed
      BY <1>5 DEF Inv, TypeOK, RunAdmitted, Holding, Parked
    <2>2. Cardinality(Holding) < Slots
      BY <1>3, <1>5 DEF RunAdmitted
    <2>3. Parked = {}
      BY <1>2, <1>3, <1>5 DEF Inv, NoIdleSlotWhileParked, RunAdmitted
    <2>4. t \in Gate!Fresh
      BY <1>1, <2>1
    <2> QED
      BY <2>1, <2>2, <2>3, <2>4, GateCardinality DEF Gate!Enter
  <1>6. ASSUME NEW t \in Task, RunParked(t) PROVE Gate!Wait(t)
    <2>1. /\ Holding' = Holding /\ Parked' = Parked \cup {t} /\ Gone' = Gone
          /\ pc[t] = "new" /\ ~closed /\ closed' = closed
      BY <1>6 DEF Inv, TypeOK, RunParked, Holding, Parked
    <2>2. Cardinality(Holding) = Slots
      BY <1>3, <1>6 DEF RunParked
    <2>4. t \in Gate!Fresh
      BY <1>1, <2>1
    <2> QED
      BY <2>1, <2>2, <2>4, GateCardinality DEF Gate!Wait
  <1>7. ASSUME NEW t \in Task, Resume(t) PROVE UNCHANGED Gate!gateVars
    <2>1. /\ Holding' = Holding /\ Parked' = Parked /\ Gone' = Gone /\ closed' = closed
      BY <1>7 DEF Inv, TypeOK, Resume, Holding, Parked
    <2> QED
      BY <2>1 DEF Gate!gateVars
  <1>8. ASSUME NEW t \in Task, Finish(t) PROVE Gate!Leave(t)
    <2>1. t \in Holding /\ closed' = closed
      BY <1>8 DEF Finish, Holding
    <2>2. CASE waiters = <<>>
      <3>1. Holding' = Holding \ {t} /\ Parked' = Parked /\ Gone' = Gone \cup {t}
        BY <1>8, <2>2 DEF Inv, TypeOK, Finish, Holding, Parked
      <3> QED
        BY <1>2, <2>1, <2>2, <3>1 DEF Gate!Leave
    <2>3. CASE waiters # <<>>
      <3>1. Head(waiters) \in Waiting
        BY <2>3, HeadTailProperties, LenProperties, EmptySeq DEF Inv, TypeOK, Waiting
      <3>2. Head(waiters) \in Parked
        BY <3>1 DEF Inv, WaitersAreParked
      <3>3. /\ Holding' = (Holding \ {t}) \cup {Head(waiters)}
            /\ Parked' = Parked \ {Head(waiters)}
            /\ Gone' = Gone \cup {t}
        BY <1>8, <2>3, <3>2 DEF Inv, TypeOK, Finish, Holding, Parked
      <3> QED
        BY <2>1, <3>2, <3>3 DEF Gate!Leave
    <2> QED
      BY <2>2, <2>3
  <1>9. ASSUME Close PROVE Gate!Shut
    <2>1. Waiting = Parked
      BY DEF Inv, WaitersAreParked
    <2>2. /\ Holding' = Holding /\ Parked' = {} /\ Gone' = Gone \cup Parked /\ closed' = TRUE
      BY <1>9, <2>1 DEF Inv, TypeOK, Close, Holding, Parked
    <2> QED
      BY <2>2 DEF Gate!Shut
  <1>10. CASE UNCHANGED vars
    <2>1. Holding' = Holding /\ Parked' = Parked /\ Gone' = Gone /\ closed' = closed
      BY <1>10 DEF vars, Holding, Parked
    <2> QED
      BY <2>1 DEF Gate!gateVars
  <1> QED
    BY <1>4, <1>5, <1>6, <1>7, <1>8, <1>9, <1>10 DEF Next, Run, Gate!GateNext

\* Every behaviour of the limiter is one the gate allows.
THEOREM LimiterImplementsGate == Spec => ImplementsGate
  BY InitRefines, StepRefines, SpecInv, PTL DEF Spec, ImplementsGate, Gate!GateSpec

=============================================================================
