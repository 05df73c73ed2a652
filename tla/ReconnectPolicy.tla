--------------------------- MODULE ReconnectPolicy ---------------------------
(***************************************************************************)
(* modules/session/reconnect-policy.ts: when the next reconnect of a       *)
(* session happens, or that there is none.  A pure function of the state   *)
(* of the streak, the clock and a jitter; SessionLifecycle leaves the      *)
(* times out and lets the stability reset happen or not.                   *)
(*                                                                         *)
(* Times are whole milliseconds, and not rounded: an exponential that is   *)
(* past MaxNumber stands for the Infinity the code computes.               *)
(***************************************************************************)
EXTENDS Integers

CONSTANT MaxNumber  \* Number.MAX_VALUE

RECONNECT_STABILITY_RESET_MS == 300000
RECONNECT_LOOP_ALERT_INTERVAL_ATTEMPTS == 5
RECONNECT_DELAY_CAP_MS == 3600000
RECONNECT_BASE_DELAY_MIN_MS == 1000
RECONNECT_BASE_DELAY_MAX_MS == 300000

\* What resolveReconnectConfig() makes of the base delay in a session's config.
BaseDelay ==
  {b \in Nat : RECONNECT_BASE_DELAY_MIN_MS <= b /\ b <= RECONNECT_BASE_DELAY_MAX_MS}

\* ReconnectAttemptState.  maxAttempts counts only when limited (the default
\* is Infinity), lastAttemptAt only once an attempt was scheduled.
AttemptState ==
  [attempts : Nat, limited : BOOLEAN, maxAttempts : Nat,
   baseDelay : BaseDelay, scheduled : BOOLEAN, lastAttemptAt : Nat]

clampNumber(value, min, max) ==
  LET raised == IF value < min THEN min ELSE value
  IN  IF raised > max THEN max ELSE raised

isFinite(value) == value <= MaxNumber

clampReconnectDelay(rawDelay, baseDelay) ==
  clampNumber(IF isFinite(rawDelay) THEN rawDelay ELSE baseDelay, 0, RECONNECT_DELAY_CAP_MS)

\* The stability reset, and the attempts it leaves.
IsStable(s, now) == s.scheduled /\ now - s.lastAttemptAt >= RECONNECT_STABILITY_RESET_MS
Attempts(s, now) == IF IsStable(s, now) THEN 0 ELSE s.attempts

\* decideReconnect(): what it decides, and the state it leaves.
Exhausts(s, now) == s.limited /\ Attempts(s, now) >= s.maxAttempts

Exponential(s, now) == s.baseDelay * 2 ^ Attempts(s, now)

DelayOf(s, now, jitter) == clampReconnectDelay(Exponential(s, now) + jitter, s.baseDelay)

Advanced(s, now) ==
  [attempts |-> IF Exhausts(s, now) THEN Attempts(s, now) ELSE Attempts(s, now) + 1,
   limited |-> s.limited, maxAttempts |-> s.maxAttempts, baseDelay |-> s.baseDelay,
   scheduled |-> s.scheduled \/ ~Exhausts(s, now),
   lastAttemptAt |-> IF Exhausts(s, now) THEN s.lastAttemptAt ELSE now]

LoopAlert(s, now) ==
  /\ ~Exhausts(s, now)
  /\ Advanced(s, now).attempts % RECONNECT_LOOP_ALERT_INTERVAL_ATTEMPTS = 0
==============================================================================
