--------------------------- MODULE AdmissionGate ---------------------------
(***************************************************************************)
(* What the gateway's concurrency gate promises its callers, without the   *)
(* way it keeps the promise: at most Slots calls are inside at any time, a *)
(* call waits only while the gate is full, nobody enters past a waiting    *)
(* call, and once shut the gate admits nobody new and drops everyone who   *)
(* was waiting.  Which waiting call is served next is left open.           *)
(***************************************************************************)
EXTENDS Naturals, FiniteSets

CONSTANTS Task,     \* the calls of run()
          Slots     \* how many of them may be inside together

VARIABLES inside,   \* calls that hold a slot
          waiting,  \* calls parked for a slot
          gone,     \* calls that returned or were refused
          shut      \* close() has been called

gateVars == <<inside, waiting, gone, shut>>

Fresh == Task \ (inside \cup waiting \cup gone)

GateInit == /\ inside = {}
            /\ waiting = {}
            /\ gone = {}
            /\ shut = FALSE

Enter(t) == /\ t \in Fresh
            /\ ~shut
            /\ waiting = {}
            /\ Cardinality(inside) < Slots
            /\ inside' = inside \cup {t}
            /\ UNCHANGED <<waiting, gone, shut>>

Wait(t) == /\ t \in Fresh
           /\ ~shut
           /\ Cardinality(inside) = Slots
           /\ waiting' = waiting \cup {t}
           /\ UNCHANGED <<inside, gone, shut>>

Refuse(t) == /\ t \in Fresh
             /\ shut \/ Cardinality(inside) = Slots
             /\ gone' = gone \cup {t}
             /\ UNCHANGED <<inside, waiting, shut>>

\* The slot of a leaving call passes straight to a waiting one, if any.
Leave(t) == /\ t \in inside
            /\ gone' = gone \cup {t}
            /\ UNCHANGED shut
            /\ \/ /\ waiting = {}
                  /\ inside' = inside \ {t}
                  /\ UNCHANGED waiting
               \/ \E w \in waiting :
                     /\ inside' = (inside \ {t}) \cup {w}
                     /\ waiting' = waiting \ {w}

Shut == /\ shut' = TRUE
        /\ gone' = gone \cup waiting
        /\ waiting' = {}
        /\ UNCHANGED inside

GateNext == \/ \E t \in Task : Enter(t) \/ Wait(t) \/ Refuse(t) \/ Leave(t)
            \/ Shut

GateSpec == GateInit /\ [][GateNext]_gateVars
=============================================================================
