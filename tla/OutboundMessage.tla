--------------------------- MODULE OutboundMessage ---------------------------
(***************************************************************************)
(* Messages sent through the API one at a time, from the daily cap to the  *)
(* stored delivery state, and everything else that writes their rows: the  *)
(* echo the engine raises for every message of the account, the history it *)
(* replays, WhatsApp's receipts and the reaper of stuck PENDING rows.      *)
(* Sources: modules/message and modules/session/message-*projector*.       *)
(*                                                                         *)
(* A message has at most two rows: its own, saved PENDING before the       *)
(* engine is asked, and the echo's.  UNIQUE(sessionId, waMessageId) lets   *)
(* only one of them carry the WhatsApp id; the own row gets it with the    *)
(* SENT write, the echo's row is born with it.                             *)
(*                                                                         *)
(* Every sender (text, media, extended, forward, reply) goes through the   *)
(* same four steps, so one kind of message stands for all.  Outside the    *)
(* model: the breaker and the cold-contact budget, edits, revokes and      *)
(* reactions, inbound messages, the hooks' rewriting of a message.         *)
(***************************************************************************)
EXTENDS Naturals, FiniteSets

CONSTANTS
  Message,    \* sends asked of the API for one session
  Heard,      \* those whose echo, replay and receipts reach the process
  Cap,        \* the session's allowance for the day
  MaxAcks,    \* bound: receipts of a message
  MaxFaults   \* bound: crashes, rejected reads and writes, answers lost

ASSUME BoundsAssumption ==
  /\ IsFiniteSet(Message) /\ Heard \subseteq Message
  /\ Cap \in Nat /\ MaxAcks \in Nat /\ MaxFaults \in Nat

VARIABLES
  up,         \* the process runs
  stage,      \* where the request of a message is
  own,        \* status of the row its sender saved; "reaped" is FAILED with reapedAt
  tagged,     \* messages whose own row carries waMessageId
  echo,       \* status of the row the echo or the replay inserted
  merged,     \* messages whose echo row was given the sender's metadata
  accepted,   \* messages WhatsApp accepted
  hook,       \* messages whose echo is in its message:sent hook
  ack,        \* receipts of a message by kind: none, waiting for the retry, over
  sweeping,   \* PendingMessageReaperService.sweeping
  todo,       \* rows of the sweep still to reap
  disturbed,  \* messages one of whose last writes was rejected
  width,      \* most sends ever between the day's count and their row at once
  faults

requestVars == <<stage, own, tagged, merged, disturbed, width>>
wireVars    == <<accepted, hook, echo, ack>>
reaperVars  == <<sweeping, todo>>
vars == <<up, requestVars, wireVars, reaperVars, faults>>

Kind == {"delivered", "read", "failed"}

Fault == faults < MaxFaults /\ faults' = faults + 1

\* The message is on the API's side of its life: not yet answered, not lost.
InRequest == {"counted", "sending", "saving", "savingNoId", "failing", "merging", "dropping"}

HasOwn(m)  == own[m] \notin {"none", "gone"}
HasEcho(m) == echo[m] # "none"

\* Rows with the message's waMessageId: the unique index holds one at most.
IdIsTaken(m) == m \in tagged \/ HasEcho(m)
Status(m)    == IF HasEcho(m) THEN echo[m] ELSE IF m \in tagged THEN own[m] ELSE "none"

\* Mutant: only rows that were sent are counted.
SentToday == Cardinality({m \in Message : own[m] \in {"sent", "delivered", "read"}})
               + Cardinality({m \in Message : HasEcho(m)})

\* What assertUnderDailyCap() counts: the session's outgoing rows, whatever
\* their status.
RowsToday == Cardinality({m \in Message : HasOwn(m)}) + Cardinality({m \in Message : HasEcho(m)})

InWindow == {m \in Message : stage[m] = "counted"}

Init ==
  /\ up = TRUE
  /\ stage = [m \in Message |-> "new"]
  /\ own = [m \in Message |-> "none"] /\ tagged = {}
  /\ echo = [m \in Message |-> "none"] /\ merged = {}
  /\ accepted = {} /\ hook = {}
  /\ ack = [m \in Message |-> [k \in Kind |-> "none"]]
  /\ sweeping = FALSE /\ todo = {}
  /\ disturbed = {} /\ width = 0 /\ faults = 0

------------------------------------------------------------------------------
(* The request. *)

At(m, s)  == up /\ stage[m] = s
Go(m, s)  == stage' = [stage EXCEPT ![m] = s]
Own(m, s) == own' = [own EXCEPT ![m] = s]

\* assertSendAllowed(): the day's rows are counted before the message:sending
\* hook runs and before this send has a row of its own.
Counts(m) ==
  /\ At(m, "new")
  /\ \/ RowsToday < Cap /\ Go(m, "counted")
     \/ RowsToday >= Cap /\ Go(m, "refused")
  /\ width' = IF Cardinality(InWindow') > width THEN Cardinality(InWindow') ELSE width
  /\ UNCHANGED <<up, own, tagged, merged, disturbed, wireVars, reaperVars, faults>>

\* A plugin vetoes the send, the session has no engine or its row cannot be
\* saved.
Refuses(m) ==
  /\ At(m, "counted") /\ Go(m, "refused")
  /\ UNCHANGED <<up, own, tagged, merged, disturbed, width, wireVars, reaperVars, faults>>

\* saveOutgoingMessage() with status PENDING and no waMessageId.
SavesPending(m) ==
  /\ At(m, "counted") /\ Go(m, "sending") /\ Own(m, "pending")
  /\ UNCHANGED <<up, tagged, merged, disturbed, width, wireVars, reaperVars, faults>>

\* The engine's call resolves, with the message's id or with an empty one.
Resolves(m) ==
  /\ At(m, "sending") /\ m \in accepted
  /\ \/ Go(m, "saving")
     \/ Go(m, "savingNoId")
  /\ UNCHANGED <<up, own, tagged, merged, disturbed, width, wireVars, reaperVars, faults>>

\* The engine's call rejects: WhatsApp refused the message, or accepted it and
\* the answer was lost.
Rejects(m) ==
  /\ At(m, "sending") /\ Go(m, "failing")
  /\ IF m \in accepted THEN Fault ELSE UNCHANGED faults
  /\ UNCHANGED <<up, own, tagged, merged, disturbed, width, wireVars, reaperVars>>

\* failSend(): saveFailedMessage(), then the client's error.
SavesFailed(m) ==
  /\ At(m, "failing") /\ Go(m, "failed")
  /\ \/ Own(m, "failed") /\ UNCHANGED faults
     \/ Fault /\ UNCHANGED own
  /\ UNCHANGED <<up, tagged, merged, disturbed, width, wireVars, reaperVars>>

\* Mutant: any error of the write is taken for the echo having won.
SavesSentOrMerges(m) ==
  /\ At(m, "saving")
  /\ \/ ~IdIsTaken(m) /\ Own(m, "sent") /\ tagged' = tagged \cup {m} /\ Go(m, "done")
        /\ UNCHANGED <<disturbed, faults>>
     \/ IdIsTaken(m) /\ Go(m, "merging") /\ UNCHANGED <<own, tagged, disturbed, faults>>
     \/ Fault /\ Go(m, "merging") /\ disturbed' = disturbed \cup {m} /\ UNCHANGED <<own, tagged>>
  /\ UNCHANGED <<up, merged, width, wireVars, reaperVars>>

\* persistSentState(): one save() of status, timestamp and waMessageId over
\* whatever the row holds by now.
SavesSent(m) ==
  /\ At(m, "saving")
  /\ \/ ~IdIsTaken(m) /\ Own(m, "sent") /\ tagged' = tagged \cup {m} /\ Go(m, "done")
        /\ UNCHANGED <<disturbed, faults>>
     \/ IdIsTaken(m) /\ Go(m, "merging") /\ UNCHANGED <<own, tagged, disturbed, faults>>
     \/ Fault /\ Go(m, "done") /\ disturbed' = disturbed \cup {m} /\ UNCHANGED <<own, tagged>>
  /\ UNCHANGED <<up, merged, width, wireVars, reaperVars>>

\* The same write of a message whose id could not be read: waMessageId stays
\* NULL and no index is in the way.
SavesSentNoId(m) ==
  /\ At(m, "savingNoId") /\ Go(m, "done")
  /\ \/ Own(m, "sent") /\ UNCHANGED <<disturbed, faults>>
     \/ Fault /\ disturbed' = disturbed \cup {m} /\ UNCHANGED own
  /\ UNCHANGED <<up, tagged, merged, width, wireVars, reaperVars>>

\* The echo's row has the id: SENT and the sender's metadata are written onto
\* it by id, with no guard on its status.
Merges(m) ==
  /\ At(m, "merging") /\ Go(m, "dropping")
  /\ \/ echo' = [echo EXCEPT ![m] = IF HasEcho(m) THEN "sent" ELSE "none"]
        /\ merged' = merged \cup {m} /\ UNCHANGED <<disturbed, faults>>
     \/ Fault /\ disturbed' = disturbed \cup {m} /\ UNCHANGED <<echo, merged>>
  /\ UNCHANGED <<up, own, tagged, width, accepted, hook, ack, reaperVars>>

\* Mutant: the redundant row is kept.
Keeps(m) ==
  /\ At(m, "dropping") /\ Go(m, "done")
  /\ UNCHANGED <<up, own, tagged, merged, disturbed, width, wireVars, reaperVars, faults>>

\* The redundant own row is deleted by its primary key; a rejected delete is
\* swallowed.
Drops(m) ==
  /\ At(m, "dropping") /\ Go(m, "done")
  /\ \/ Own(m, "gone") /\ UNCHANGED <<disturbed, faults>>
     \/ Fault /\ disturbed' = disturbed \cup {m} /\ UNCHANGED own
  /\ UNCHANGED <<up, tagged, merged, width, wireVars, reaperVars>>

------------------------------------------------------------------------------
(* WhatsApp and the engine's events. *)

\* The message leaves: its promise resolves later, its echo may come first.
Accepts(m) ==
  /\ At(m, "sending") /\ m \notin accepted /\ accepted' = accepted \cup {m}
  /\ UNCHANGED <<up, requestVars, hook, echo, ack, reaperVars, faults>>

\* handleOwnSendEcho(): the message:sent hook runs first.
EchoArrives(m) ==
  /\ up /\ m \in accepted \cap Heard /\ m \notin hook /\ ~HasEcho(m)
  /\ hook' = hook \cup {m}
  /\ UNCHANGED <<up, requestVars, accepted, echo, ack, reaperVars, faults>>

\* After the hook: the engine was retired meanwhile, the insert finds the id
\* taken or is rejected, or there is a new row.
EchoInserts(m) ==
  /\ up /\ m \in hook /\ hook' = hook \ {m}
  /\ \/ UNCHANGED echo
     \/ ~IdIsTaken(m) /\ echo' = [echo EXCEPT ![m] = "sent"]
  /\ UNCHANGED <<up, requestVars, accepted, ack, reaperVars, faults>>

\* persistHistoryMessages(): an insert-or-ignore of what the engine replays
\* when it connects.
Replays(m) ==
  /\ up /\ m \in accepted \cap Heard /\ ~IdIsTaken(m)
  /\ echo' = [echo EXCEPT ![m] = "sent"]
  /\ UNCHANGED <<up, requestVars, accepted, hook, ack, reaperVars, faults>>

\* Mutant: a delivered receipt may overwrite a read one.
AckFromAny(k) ==
  CASE k = "delivered" -> {"pending", "sent", "read"}
    [] k = "read" -> {"pending", "sent", "delivered"}
    [] k = "failed" -> {"pending", "sent"}

\* ackStatusTransitionFrom()
AckFrom(k) ==
  CASE k = "delivered" -> {"pending", "sent"}
    [] k = "read" -> {"pending", "sent", "delivered"}
    [] k = "failed" -> {"pending", "sent"}

Acks(m) == {k \in Kind : ack[m][k] # "none"}

\* advanceAck(): the guarded UPDATE of the row with the id.
Matches(m, k) == IdIsTaken(m) /\ Status(m) \in AckFrom(k)
Advance(m, k) ==
  IF HasEcho(m)
  THEN echo' = [echo EXCEPT ![m] = k] /\ UNCHANGED own
  ELSE Own(m, k) /\ UNCHANGED echo

SetAck(m, k, s) == ack' = [ack EXCEPT ![m][k] = s]

\* handleMessageAck(): no row advanced means one more try, later.
AckArrives(m, k) ==
  /\ up /\ m \in accepted \cap Heard /\ ack[m][k] = "none" /\ Cardinality(Acks(m)) < MaxAcks
  /\ \/ Matches(m, k) /\ Advance(m, k) /\ SetAck(m, k, "over") /\ UNCHANGED faults
     \/ ~Matches(m, k) /\ SetAck(m, k, "waiting") /\ UNCHANGED <<own, echo, faults>>
     \/ Fault /\ SetAck(m, k, "over") /\ UNCHANGED <<own, echo>>
  /\ UNCHANGED <<up, stage, tagged, merged, disturbed, width, accepted, hook, reaperVars>>

\* The ACK_RECONCILE_DELAY_MS timer: the last try.
AckRetries(m, k) ==
  /\ up /\ ack[m][k] = "waiting" /\ SetAck(m, k, "over")
  /\ \/ Matches(m, k) /\ Advance(m, k) /\ UNCHANGED faults
     \/ ~Matches(m, k) /\ UNCHANGED <<own, echo, faults>>
     \/ Fault /\ UNCHANGED <<own, echo>>
  /\ UNCHANGED <<up, stage, tagged, merged, disturbed, width, accepted, hook, reaperVars>>

------------------------------------------------------------------------------
(* The reaper, and the process. *)

Pending == {m \in Message : own[m] = "pending"}

\* sweep(), finding the PENDING rows s past the grace: which they are is left
\* open.  Skipped while a sweep runs; an empty one changes nothing.
SweepFinds(s) ==
  /\ up /\ ~sweeping /\ s # {} /\ todo' = s /\ sweeping' = TRUE
  /\ UNCHANGED <<up, requestVars, wireVars, faults>>

\* Mutant: no finally block.
SweepSticks ==
  /\ up /\ ~sweeping /\ Fault /\ sweeping' = TRUE
  /\ UNCHANGED <<up, requestVars, wireVars, todo>>

\* The find() rejects; the finally block ends the sweep all the same.
SweepThrows ==
  /\ up /\ ~sweeping /\ Fault /\ sweeping' = FALSE
  /\ UNCHANGED <<up, requestVars, wireVars, todo>>

\* Mutant: the row the sweep read is saved over the one there is.
ReapsUnguarded(m) ==
  /\ up /\ m \in todo /\ todo' = todo \ {m} /\ sweeping' = (todo' # {})
  /\ \/ own[m] # "gone" /\ Own(m, "reaped") /\ UNCHANGED faults
     \/ own[m] = "gone" /\ UNCHANGED <<own, faults>>
     \/ Fault /\ UNCHANGED own
  /\ tagged' = {n \in tagged : own'[n] # "reaped"}
  /\ UNCHANGED <<up, stage, merged, disturbed, width, wireVars>>

\* reapRow(): the guard is in the UPDATE; a rejected one leaves the row to the
\* next sweep.  The last row ends the sweep.
Reaps(m) ==
  /\ up /\ m \in todo /\ todo' = todo \ {m} /\ sweeping' = (todo' # {})
  /\ \/ own[m] = "pending" /\ Own(m, "reaped") /\ UNCHANGED faults
     \/ own[m] # "pending" /\ UNCHANGED <<own, faults>>
     \/ Fault /\ UNCHANGED own
  /\ UNCHANGED <<up, stage, tagged, merged, disturbed, width, wireVars>>

\* What was in memory is gone: requests, hooks, retry timers, the sweep.
Crash ==
  /\ up /\ up' = FALSE /\ Fault
  /\ stage' = [m \in Message |-> IF stage[m] \in InRequest THEN "dead" ELSE stage[m]]
  /\ hook' = {}
  /\ ack' = [m \in Message |-> [k \in Kind |-> IF ack[m][k] = "waiting" THEN "over" ELSE ack[m][k]]]
  /\ sweeping' = FALSE /\ todo' = {}
  /\ UNCHANGED <<own, tagged, echo, merged, accepted, disturbed, width>>

Boot ==
  /\ ~up /\ up' = TRUE
  /\ UNCHANGED <<requestVars, wireVars, reaperVars, faults>>

Request(m) ==
  \/ Counts(m) \/ Refuses(m) \/ SavesPending(m) \/ Resolves(m) \/ Rejects(m)
  \/ SavesFailed(m) \/ SavesSent(m) \/ SavesSentNoId(m) \/ Merges(m) \/ Drops(m)

Wire(m) ==
  \/ Accepts(m) \/ EchoArrives(m) \/ EchoInserts(m) \/ Replays(m)
  \/ \E k \in Kind : AckArrives(m, k) \/ AckRetries(m, k)

Reaper ==
  \/ \E s \in SUBSET Pending : SweepFinds(s)
  \/ SweepThrows
  \/ \E m \in Message : Reaps(m)

Next ==
  \/ \E m \in Message : Request(m) \/ Wire(m)
  \/ Reaper \/ Crash \/ Boot

Spec == Init /\ [][Next]_vars

\* The sweep runs on an interval, in the end over every row that is still
\* PENDING, and its queries return; a crashed process is restarted.  Nothing is
\* assumed of the engine: a send may hang.
Fairness ==
  /\ WF_vars(SweepFinds(Pending)) /\ WF_vars(Boot)
  /\ \A m \in Message : WF_vars(Reaps(m))

FairSpec == Spec /\ Fairness

------------------------------------------------------------------------------
(* Properties. *)

RowStatus == {"sent", "delivered", "read", "failed"}

\* Types, and the unique index: the WhatsApp id is on one row at most, and a
\* row without it has no delivery state.
TypeOK ==
  /\ up \in BOOLEAN /\ sweeping \in BOOLEAN
  /\ stage \in [Message -> InRequest \cup {"new", "refused", "done", "failed", "dead"}]
  /\ own \in [Message -> {"none", "pending", "reaped", "gone"} \cup RowStatus]
  /\ echo \in [Message -> {"none"} \cup RowStatus]
  /\ ack \in [Message -> [Kind -> {"none", "waiting", "over"}]]
  /\ tagged \in SUBSET Message /\ merged \in SUBSET Message /\ accepted \in SUBSET Message
  /\ hook \in SUBSET Message /\ todo \in SUBSET Message
  /\ disturbed \in SUBSET Message
  /\ width \in 0 .. Cardinality(Message) /\ faults \in 0 .. MaxFaults
  /\ \A m \in tagged : own[m] \in RowStatus /\ ~HasEcho(m)
  /\ \A m \in Message \ tagged : own[m] \notin {"delivered", "read"}

\* A message WhatsApp accepted always has a row, whatever was rejected, lost
\* or crashed: persist-before-send, and a row is deleted only once the other
\* one is there.
AcceptedIsRecorded == \A m \in accepted : HasOwn(m) \/ HasEcho(m)

\* A send answered with success, none of whose writes was rejected, is shown
\* once: the sender's row, or the echo's with the sender's payload, which exists
\* nowhere else; never both.  (When the engine could not read the id the two
\* cannot be told to be the same message.)
ShownOnce ==
  \A m \in Message \ disturbed : stage[m] = "done" =>
    \/ m \in tagged
    \/ own[m] = "gone" /\ HasEcho(m) /\ m \in merged
    \/ own[m] = "sent"

\* The reaper of stuck rows never has the last word on such a send: it is
\* FAILED only when WhatsApp said so.
AnsweredIsNotReaped ==
  \A m \in Message \ disturbed : stage[m] = "done" =>
    /\ own[m] # "reaped"
    /\ "failed" \in {own[m], echo[m]} => "failed" \in Acks(m)

\* The daily cap counts rows of sends that are still without one when it is
\* asked: it is exceeded at most by the sends that were past the count
\* together, less one.
CapHolds ==
  Cardinality({m \in Message : HasOwn(m) \/ HasEcho(m)}) <= Cap + (IF width > 0 THEN width - 1 ELSE 0)

\* The stored delivery state only advances (SENT to DELIVERED to READ, SENT to
\* FAILED) however receipts are reordered or retried; the one write that takes
\* it back is the merge of a send that lost the race against its echo.
DeliveryAdvances ==
  [][\A m \in Message :
       Status(m) # "none" =>
         \/ Status(m)' = Status(m)
         \/ <<Status(m), Status(m)'>> \in
              {<<"sent", "delivered">>, <<"sent", "read">>, <<"delivered", "read">>, <<"sent", "failed">>}
         \/ stage[m] = "merging" /\ stage[m]' = "dropping" /\ Status(m)' = "sent"]_vars

\* No row stays PENDING for ever: not after a crash, a lost answer, a rejected
\* write or a send that never returns.
PendingSettles == \A m \in Message : (own[m] = "pending") ~> (own[m] # "pending")

\* persistSentState: "a transient DB fault would otherwise mark a delivered
\* message permanently FAILED".  The SENT write it swallows leaves the row to
\* the reaper, which does.  Not kept by the code.
AnsweredIsNeverFailed ==
  \A m \in Message : stage[m] = "done" => own[m] # "reaped"

\* handleMessageAck: "delivery state only ADVANCES".  The merge writes SENT
\* over a DELIVERED or READ the echo's row already had.  Not kept by the code.
NeverTakenBack ==
  [][\A m \in Message : Status(m) \in {"delivered", "read", "failed"} => Status(m)' # "sent"]_vars
==============================================================================
