-------------------------- MODULE MCSessionLifecycle --------------------------
(* Instances of SessionLifecycle for TLC. *)
EXTENDS SessionLifecycle, Integers

R == INSTANCE ReconnectPolicy WITH MaxNumber <- 2 ^ 30

\* The instance has an identity to spare whenever a launch needs one.
Roomy == ~overlapped => Spare(mem) # {}

\* Two launches at a time are not followed further, nor all calls with all
\* faults.
Followed == ~overlapped /\ calls + faults < MaxCalls + MaxFaults

\* A session that fails as soon as each attempt runs: the state of its streak
\* and the time, decision by decision.
Streak(max, base) ==
  LET fresh == [attempts |-> 0, limited |-> TRUE, maxAttempts |-> max, baseDelay |-> base,
                scheduled |-> FALSE, lastAttemptAt |-> 0]
      play[n \in 0 .. 24] ==
        IF n = 0 THEN [state |-> fresh, at |-> 0]
        ELSE LET p == play[n - 1]
             IN  IF R!Exhausts(p.state, p.at) THEN p
                 ELSE [state |-> R!Advanced(p.state, p.at),
                       at |-> p.at + R!DelayOf(p.state, p.at, 0)]
  IN  play

\* The delay that its nth decision gave it, with attempts to spare.
Delay(base, n) == LET s == Streak(30, base) IN s[n].at - s[n - 1].at

GivesUp(max, base) == LET s == Streak(max, base) IN R!Exhausts(s[24].state, s[24].at)

\* With the default base of 5 s the seventh delay is 320 s, past the window of
\* 300 s: a limit of seven or more is never reached.  With the longest base
\* (300 s) no limit but zero is.
ASSUME DefaultBase == \A max \in 0 .. 20 : GivesUp(max, 5000) <=> max < 7
ASSUME LongestBase == \A max \in 0 .. 20 : GivesUp(max, 300000) <=> max = 0

\* The delays never come near the cap: they start over from the base instead.
ASSUME NeverParks ==
  /\ [n \in 1 .. 8 |-> Delay(5000, n)] =
       <<5000, 10000, 20000, 40000, 80000, 160000, 320000, 5000>>
  /\ \A base \in {1000, 5000, 299999, 300000} : \A n \in 1 .. 24 :
       Delay(base, n) < 2 * R!RECONNECT_STABILITY_RESET_MS

\* An exponential that is Infinity falls back to the base, one that is only
\* large to the cap.
ASSUME FallsBack ==
  /\ R!clampReconnectDelay(2 ^ 30 + 1, 5000) = 5000
  /\ R!clampReconnectDelay(2 ^ 30, 5000) = R!RECONNECT_DELAY_CAP_MS
=============================================================================
