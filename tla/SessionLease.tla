---------------------------- MODULE SessionLease ----------------------------
(***************************************************************************)
(* What the claim of one session promises the processes that share it,     *)
(* without the way they keep it: who runs the session holds its lease, or  *)
(* held it until it lapsed.  A lease that has not lapsed is given up by    *)
(* its holder only, and only when the holder has closed the session; a     *)
(* lapsed one is anybody's, and whoever still runs the session then is     *)
(* known to have been overtaken.                                           *)
(***************************************************************************)
CONSTANTS Node,    \* the processes
          NoNode   \* no holder

VARIABLES holder,    \* the process the lease names
          lapsed,    \* the lease has run out
          using,     \* processes that run the session
          overtaken  \* processes whose lease ran out since they took it

leaseVars == <<holder, lapsed, using, overtaken>>

LeaseInit == /\ holder = NoNode
             /\ lapsed = FALSE
             /\ using = {}
             /\ overtaken = {}

\* A free lease, one's own, or one that has lapsed.
Take(n) == /\ holder \in {NoNode, n} \/ lapsed
           /\ holder' = n
           /\ lapsed' = FALSE
           /\ overtaken' = overtaken \ {n}
           /\ UNCHANGED using

Open(n) == /\ holder = n
           /\ ~lapsed
           /\ using' = using \cup {n}
           /\ UNCHANGED <<holder, lapsed, overtaken>>

Close(n) == /\ using' = using \ {n}
            /\ UNCHANGED <<holder, lapsed, overtaken>>

Renew(n) == /\ holder = n
            /\ lapsed' = FALSE
            /\ UNCHANGED <<holder, using, overtaken>>

\* The holder closes what it runs and leaves, at once or one after the other.
GiveUp(n) == /\ holder = n
             /\ holder' = NoNode
             /\ lapsed' = FALSE
             /\ using' = using \ {n}
             /\ UNCHANGED overtaken

\* A peer clears a lease that has lapsed.
Clear == /\ lapsed
         /\ holder' = NoNode
         /\ lapsed' = FALSE
         /\ UNCHANGED <<using, overtaken>>

Lapse == /\ holder # NoNode
         /\ ~lapsed
         /\ lapsed' = TRUE
         /\ overtaken' \in {overtaken, overtaken \cup {holder}}
         /\ holder \in using => holder \in overtaken'
         /\ UNCHANGED <<holder, using>>

\* A process dies with everything it ran and knew.
Die(n) == /\ using' = using \ {n}
          /\ overtaken' = overtaken \ {n}
          /\ UNCHANGED <<holder, lapsed>>

LeaseNext == \/ \E n \in Node : \/ Take(n) \/ Open(n) \/ Close(n) \/ Renew(n)
                                \/ GiveUp(n) \/ Die(n)
             \/ Clear \/ Lapse

LeaseSpec == LeaseInit /\ [][LeaseNext]_leaseVars

\* Of two processes that run the session, one has been overtaken.
LeaseIsExclusive == \A m, n \in using : m # n => m \in overtaken \/ n \in overtaken
=============================================================================
