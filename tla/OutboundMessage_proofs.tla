----------------------- MODULE OutboundMessage_proofs -----------------------
(***************************************************************************)
(* Proofs about OutboundMessage, for every number of messages, receipts    *)
(* and faults and for every allowance.                                     *)
(***************************************************************************)
EXTENDS OutboundMessage, FiniteSetTheorems, TLAPS

-----------------------------------------------------------------------------
(* The inductive invariant: what the place of a request says of its rows.  *)

Unsaved == {"new", "counted", "refused"}
InEngine == {"sending", "saving", "savingNoId", "failing", "merging", "dropping"}

\* The sender's row and the step its request is at.
RowFollowsRequest(m) ==
  /\ m \in tagged => stage[m] = "done"
  /\ stage[m] \in Unsaved => own[m] = "none"
  /\ stage[m] \in InEngine => own[m] \in {"pending", "reaped"}
  /\ stage[m] = "failed" => own[m] \in {"pending", "reaped", "failed"}
  /\ stage[m] = "dead" => own[m] \in {"none", "pending", "reaped"}

\* A message is heard of only once it was accepted, and accepted only once it
\* has a row; its own row goes only when the echo's is there.
NothingBeforeItsCause(m) ==
  /\ HasEcho(m) \/ m \in hook => m \in accepted
  /\ m \in accepted => own[m] # "none"
  /\ stage[m] \in {"merging", "dropping"} \/ own[m] = "gone" => HasEcho(m)

\* What an answered send has left behind, when none of its writes was rejected.
AnsweredCleanly(m) ==
  /\ stage[m] = "dropping" /\ m \notin disturbed => m \in merged
  /\ stage[m] = "done" /\ m \notin disturbed =>
       \/ m \in tagged
       \/ own[m] = "gone" /\ m \in merged
       \/ own[m] = "sent"

\* Only a receipt fails a row that carries the WhatsApp id.
FailedByReceipt(m) ==
  /\ echo[m] = "failed" => "failed" \in Acks(m)
  /\ m \in tagged /\ own[m] = "failed" => "failed" \in Acks(m)

IInv ==
  /\ TypeOK
  /\ \A m \in Message :
       /\ RowFollowsRequest(m) /\ NothingBeforeItsCause(m)
       /\ AnsweredCleanly(m) /\ FailedByReceipt(m)

-----------------------------------------------------------------------------
(* The initial states, and one lemma for each action.                      *)

\* The sends between the day's count and their row are never more than there
\* are messages.
LEMMA WindowIsBounded ==
  /\ IsFiniteSet(InWindow) /\ Cardinality(InWindow) \in 0 .. Cardinality(Message)
  /\ IsFiniteSet(InWindow') /\ Cardinality(InWindow') \in 0 .. Cardinality(Message)
  <1>1. ASSUME NEW W \in SUBSET Message
        PROVE  IsFiniteSet(W) /\ Cardinality(W) \in 0 .. Cardinality(Message)
    <2>1. IsFiniteSet(W) /\ Cardinality(W) <= Cardinality(Message)
      BY FS_Subset, BoundsAssumption
    <2>2. Cardinality(W) \in Nat /\ Cardinality(Message) \in Nat
      BY <2>1, FS_CardinalityType, BoundsAssumption
    <2>3. QED
      BY <2>1, <2>2
  <1>2. InWindow \in SUBSET Message /\ InWindow' \in SUBSET Message
    BY DEF InWindow
  <1>3. QED
    BY <1>1, <1>2

\* The initial states satisfy the invariant.
LEMMA InitIInv == Init => IInv
  <1> SUFFICES ASSUME Init PROVE IInv
    OBVIOUS
  <1>1. Cardinality(Message) \in Nat
    BY FS_CardinalityType, BoundsAssumption
  <1>2. width \in 0 .. Cardinality(Message) /\ faults \in 0 .. MaxFaults
    BY <1>1, BoundsAssumption DEF Init
  <1>3. TypeOK
    BY <1>2 DEF Init, TypeOK, InRequest, RowStatus, Kind, HasEcho
  <1>4. QED
    BY <1>3 DEF Init, IInv, RowFollowsRequest, NothingBeforeItsCause, AnsweredCleanly,
                FailedByReceipt, HasEcho, Unsaved, InEngine, Acks, Kind

\* assertSendAllowed() keeps the invariant.
LEMMA CountsKeeps ==
  ASSUME IInv, NEW m \in Message, Counts(m)
  PROVE  IInv'
  <1>1. up' \in BOOLEAN /\ sweeping' \in BOOLEAN
    BY DEF Counts, wireVars, reaperVars, IInv, TypeOK
  <1>2. width' \in 0 .. Cardinality(Message) /\ faults' \in 0 .. MaxFaults
    BY WindowIsBounded, BoundsAssumption DEF Counts, IInv, TypeOK
  <1>3. stage' \in [Message -> InRequest \cup {"new", "refused", "done", "failed", "dead"}]
    BY DEF Counts, At, Go, wireVars, reaperVars, IInv, TypeOK, InRequest
  <1>4. own' \in [Message -> {"none", "pending", "reaped", "gone"} \cup RowStatus]
    BY DEF Counts, At, RowsToday, Go, InWindow, wireVars, reaperVars, HasOwn, HasEcho,
      IInv, TypeOK, RowStatus
  <1>5. echo' \in [Message -> {"none"} \cup RowStatus]
    BY DEF Counts, At, RowsToday, Go, InWindow, wireVars, reaperVars, HasOwn, HasEcho,
      IInv, TypeOK, RowStatus
  <1>6. ack' \in [Message -> [Kind -> {"none", "waiting", "over"}]]
    BY DEF Counts, wireVars, IInv, TypeOK
  <1>7. /\ tagged' \in SUBSET Message /\ merged' \in SUBSET Message
        /\ accepted' \in SUBSET Message /\ hook' \in SUBSET Message
        /\ todo' \in SUBSET Message /\ disturbed' \in SUBSET Message
    BY DEF Counts, wireVars, reaperVars, IInv, TypeOK
  <1>8. \A n \in tagged' : own'[n] \in RowStatus /\ ~HasEcho(n)'
    BY DEF Counts, At, RowsToday, Go, InWindow, wireVars, reaperVars, HasOwn, HasEcho,
      IInv, TypeOK, RowStatus, RowFollowsRequest, NothingBeforeItsCause, Unsaved, InEngine
  <1>9. \A n \in Message \ tagged' : own'[n] \notin {"delivered", "read"}
    BY DEF Counts, At, RowsToday, Go, InWindow, wireVars, reaperVars, HasOwn, HasEcho,
      IInv, TypeOK, RowStatus, RowFollowsRequest, NothingBeforeItsCause, Unsaved, InEngine
  <1>10. ASSUME NEW n \in Message
        PROVE  /\ RowFollowsRequest(n)' /\ NothingBeforeItsCause(n)'
               /\ AnsweredCleanly(n)' /\ FailedByReceipt(n)'
    BY DEF Counts, IInv, At, RowsToday, Go, InWindow, wireVars, reaperVars, TypeOK,
      RowFollowsRequest, NothingBeforeItsCause, AnsweredCleanly, FailedByReceipt, HasOwn,
      HasEcho, InRequest, RowStatus, Kind, Unsaved, InEngine, Acks
  <1> QED
    BY <1>1, <1>2, <1>3, <1>4, <1>5, <1>6, <1>7, <1>8, <1>9, <1>10 DEF IInv, TypeOK

\* A refused send keeps the invariant.
LEMMA RefusesKeeps ==
  ASSUME IInv, NEW m \in Message, Refuses(m)
  PROVE  IInv'
  BY BoundsAssumption
   DEF Refuses, IInv, At, Go, wireVars, reaperVars, TypeOK, RowFollowsRequest,
      NothingBeforeItsCause, AnsweredCleanly, FailedByReceipt, InRequest, RowStatus, Kind,
      HasEcho, Unsaved, InEngine, Acks

\* The PENDING row keeps the invariant.
LEMMA SavesPendingKeeps ==
  ASSUME IInv, NEW m \in Message, SavesPending(m)
  PROVE  IInv'
  BY BoundsAssumption
   DEF SavesPending, IInv, At, Go, Own, wireVars, reaperVars, TypeOK, RowFollowsRequest,
      NothingBeforeItsCause, AnsweredCleanly, FailedByReceipt, InRequest, RowStatus, Kind,
      HasEcho, Unsaved, InEngine, Acks

\* The engine's answer keeps the invariant.
LEMMA ResolvesKeeps ==
  ASSUME IInv, NEW m \in Message, Resolves(m)
  PROVE  IInv'
  BY BoundsAssumption
   DEF Resolves, IInv, At, Go, wireVars, reaperVars, TypeOK, RowFollowsRequest,
      NothingBeforeItsCause, AnsweredCleanly, FailedByReceipt, InRequest, RowStatus, Kind,
      HasEcho, Unsaved, InEngine, Acks

\* The engine's refusal keeps the invariant.
LEMMA RejectsKeeps ==
  ASSUME IInv, NEW m \in Message, Rejects(m)
  PROVE  IInv'
  BY BoundsAssumption
   DEF Rejects, IInv, At, Go, Fault, wireVars, reaperVars, TypeOK, RowFollowsRequest,
      NothingBeforeItsCause, AnsweredCleanly, FailedByReceipt, InRequest, RowStatus, Kind,
      HasEcho, Unsaved, InEngine, Acks

\* failSend() keeps the invariant.
LEMMA SavesFailedKeeps ==
  ASSUME IInv, NEW m \in Message, SavesFailed(m)
  PROVE  IInv'
  BY BoundsAssumption, SMTT(30)
   DEF SavesFailed, IInv, At, Go, Own, Fault, wireVars, reaperVars, TypeOK,
      RowFollowsRequest, NothingBeforeItsCause, AnsweredCleanly, FailedByReceipt,
      InRequest, RowStatus, Kind, HasEcho, Unsaved, InEngine, Acks

\* persistSentState() keeps the invariant.
LEMMA SavesSentKeeps ==
  ASSUME IInv, NEW m \in Message, SavesSent(m)
  PROVE  IInv'
  <1>1. up' \in BOOLEAN /\ sweeping' \in BOOLEAN
    BY DEF SavesSent, Fault, wireVars, reaperVars, IInv, TypeOK
  <1>2. width' \in 0 .. Cardinality(Message) /\ faults' \in 0 .. MaxFaults
    BY BoundsAssumption DEF SavesSent, Fault, wireVars, reaperVars, IInv, TypeOK
  <1>3. stage' \in [Message -> InRequest \cup {"new", "refused", "done", "failed", "dead"}]
    BY DEF SavesSent, At, Go, wireVars, reaperVars, IInv, TypeOK, InRequest
  <1>4. own' \in [Message -> {"none", "pending", "reaped", "gone"} \cup RowStatus]
    BY DEF SavesSent, At, IdIsTaken, Own, Go, Fault, wireVars, reaperVars, HasEcho, IInv,
      TypeOK, RowStatus
  <1>5. echo' \in [Message -> {"none"} \cup RowStatus]
    BY DEF SavesSent, At, IdIsTaken, Own, Go, Fault, wireVars, reaperVars, HasEcho, IInv,
      TypeOK, RowStatus
  <1>6. ack' \in [Message -> [Kind -> {"none", "waiting", "over"}]]
    BY DEF SavesSent, wireVars, IInv, TypeOK
  <1>7. /\ tagged' \in SUBSET Message /\ merged' \in SUBSET Message
        /\ accepted' \in SUBSET Message /\ hook' \in SUBSET Message
        /\ todo' \in SUBSET Message /\ disturbed' \in SUBSET Message
    BY DEF SavesSent, Fault, wireVars, reaperVars, IInv, TypeOK
  <1>8. \A n \in tagged' : own'[n] \in RowStatus /\ ~HasEcho(n)'
    BY DEF SavesSent, At, IdIsTaken, Own, Go, Fault, wireVars, reaperVars, HasEcho, IInv,
      TypeOK, RowStatus, RowFollowsRequest, NothingBeforeItsCause, Unsaved, InEngine
  <1>9. \A n \in Message \ tagged' : own'[n] \notin {"delivered", "read"}
    BY DEF SavesSent, At, IdIsTaken, Own, Go, Fault, wireVars, reaperVars, HasEcho, IInv,
      TypeOK, RowStatus, RowFollowsRequest, NothingBeforeItsCause, Unsaved, InEngine
  <1>10. ASSUME NEW n \in Message
        PROVE  /\ RowFollowsRequest(n)' /\ NothingBeforeItsCause(n)'
               /\ AnsweredCleanly(n)' /\ FailedByReceipt(n)'
    BY DEF SavesSent, IInv, At, IdIsTaken, Own, Go, Fault, wireVars, reaperVars, TypeOK,
      RowFollowsRequest, NothingBeforeItsCause, AnsweredCleanly, FailedByReceipt, HasEcho,
      InRequest, RowStatus, Kind, Unsaved, InEngine, Acks
  <1> QED
    BY <1>1, <1>2, <1>3, <1>4, <1>5, <1>6, <1>7, <1>8, <1>9, <1>10 DEF IInv, TypeOK

\* persistSentState() without an id keeps the invariant.
LEMMA SavesSentNoIdKeeps ==
  ASSUME IInv, NEW m \in Message, SavesSentNoId(m)
  PROVE  IInv'
  <1>1. up' \in BOOLEAN /\ sweeping' \in BOOLEAN
    BY DEF SavesSentNoId, Fault, wireVars, reaperVars, IInv, TypeOK
  <1>2. width' \in 0 .. Cardinality(Message) /\ faults' \in 0 .. MaxFaults
    BY BoundsAssumption DEF SavesSentNoId, Fault, wireVars, reaperVars, IInv, TypeOK
  <1>3. stage' \in [Message -> InRequest \cup {"new", "refused", "done", "failed", "dead"}]
    BY DEF SavesSentNoId, At, Go, wireVars, reaperVars, IInv, TypeOK, InRequest
  <1>4. own' \in [Message -> {"none", "pending", "reaped", "gone"} \cup RowStatus]
    BY DEF SavesSentNoId, At, Go, Own, Fault, wireVars, reaperVars, IInv, TypeOK,
      RowStatus
  <1>5. echo' \in [Message -> {"none"} \cup RowStatus]
    BY DEF SavesSentNoId, At, Go, Own, Fault, wireVars, reaperVars, IInv, TypeOK,
      RowStatus
  <1>6. ack' \in [Message -> [Kind -> {"none", "waiting", "over"}]]
    BY DEF SavesSentNoId, wireVars, IInv, TypeOK
  <1>7. /\ tagged' \in SUBSET Message /\ merged' \in SUBSET Message
        /\ accepted' \in SUBSET Message /\ hook' \in SUBSET Message
        /\ todo' \in SUBSET Message /\ disturbed' \in SUBSET Message
    BY DEF SavesSentNoId, Fault, wireVars, reaperVars, IInv, TypeOK
  <1>8. \A n \in tagged' : own'[n] \in RowStatus /\ ~HasEcho(n)'
    BY DEF SavesSentNoId, At, Go, Own, Fault, wireVars, reaperVars, IInv, TypeOK,
      RowStatus, RowFollowsRequest, NothingBeforeItsCause, HasEcho, Unsaved, InEngine
  <1>9. \A n \in Message \ tagged' : own'[n] \notin {"delivered", "read"}
    BY DEF SavesSentNoId, At, Go, Own, Fault, wireVars, reaperVars, IInv, TypeOK,
      RowStatus, RowFollowsRequest, NothingBeforeItsCause, HasEcho, Unsaved, InEngine
  <1>10. ASSUME NEW n \in Message
        PROVE  /\ RowFollowsRequest(n)' /\ NothingBeforeItsCause(n)'
               /\ AnsweredCleanly(n)' /\ FailedByReceipt(n)'
    BY DEF SavesSentNoId, IInv, At, Go, Own, Fault, wireVars, reaperVars, TypeOK,
      RowFollowsRequest, NothingBeforeItsCause, AnsweredCleanly, FailedByReceipt,
      InRequest, RowStatus, Kind, HasEcho, Unsaved, InEngine, Acks
  <1> QED
    BY <1>1, <1>2, <1>3, <1>4, <1>5, <1>6, <1>7, <1>8, <1>9, <1>10 DEF IInv, TypeOK

\* The merge keeps the invariant.
LEMMA MergesKeeps ==
  ASSUME IInv, NEW m \in Message, Merges(m)
  PROVE  IInv'
  BY BoundsAssumption, SMTT(30)
   DEF Merges, IInv, At, Go, HasEcho, Fault, reaperVars, TypeOK, RowFollowsRequest,
      NothingBeforeItsCause, AnsweredCleanly, FailedByReceipt, InRequest, RowStatus, Kind,
      Unsaved, InEngine, Acks

\* The delete after the merge keeps the invariant.
LEMMA DropsKeeps ==
  ASSUME IInv, NEW m \in Message, Drops(m)
  PROVE  IInv'
  BY BoundsAssumption
   DEF Drops, IInv, At, Go, Own, Fault, wireVars, reaperVars, TypeOK, RowFollowsRequest,
      NothingBeforeItsCause, AnsweredCleanly, FailedByReceipt, InRequest, RowStatus, Kind,
      HasEcho, Unsaved, InEngine, Acks

\* WhatsApp accepting a message keeps the invariant.
LEMMA AcceptsKeeps ==
  ASSUME IInv, NEW m \in Message, Accepts(m)
  PROVE  IInv'
  BY BoundsAssumption
   DEF Accepts, IInv, At, requestVars, reaperVars, TypeOK, RowFollowsRequest,
      NothingBeforeItsCause, AnsweredCleanly, FailedByReceipt, InRequest, RowStatus, Kind,
      HasEcho, Unsaved, InEngine, Acks

\* The echo reaching its hook keeps the invariant.
LEMMA EchoArrivesKeeps ==
  ASSUME IInv, NEW m \in Message, EchoArrives(m)
  PROVE  IInv'
  BY BoundsAssumption
   DEF EchoArrives, IInv, HasEcho, requestVars, reaperVars, TypeOK, RowFollowsRequest,
      NothingBeforeItsCause, AnsweredCleanly, FailedByReceipt, InRequest, RowStatus, Kind,
      Unsaved, InEngine, Acks

\* The echo's insert keeps the invariant.
LEMMA EchoInsertsKeeps ==
  ASSUME IInv, NEW m \in Message, EchoInserts(m)
  PROVE  IInv'
  BY BoundsAssumption
   DEF EchoInserts, IInv, IdIsTaken, requestVars, reaperVars, TypeOK, RowFollowsRequest,
      NothingBeforeItsCause, AnsweredCleanly, FailedByReceipt, HasEcho, InRequest,
      RowStatus, Kind, Unsaved, InEngine, Acks

\* A history replay keeps the invariant.
LEMMA ReplaysKeeps ==
  ASSUME IInv, NEW m \in Message, Replays(m)
  PROVE  IInv'
  BY BoundsAssumption
   DEF Replays, IInv, IdIsTaken, requestVars, reaperVars, TypeOK, RowFollowsRequest,
      NothingBeforeItsCause, AnsweredCleanly, FailedByReceipt, HasEcho, InRequest,
      RowStatus, Kind, Unsaved, InEngine, Acks

\* A receipt keeps the invariant.
LEMMA AckArrivesKeeps ==
  ASSUME IInv, NEW m \in Message, NEW k \in Kind, AckArrives(m, k)
  PROVE  IInv'
  <1>1. up' \in BOOLEAN /\ sweeping' \in BOOLEAN
    BY DEF AckArrives, Fault, reaperVars, IInv, TypeOK
  <1>2. width' \in 0 .. Cardinality(Message) /\ faults' \in 0 .. MaxFaults
    BY BoundsAssumption DEF AckArrives, Fault, reaperVars, IInv, TypeOK
  <1>3. stage' \in [Message -> InRequest \cup {"new", "refused", "done", "failed", "dead"}]
    BY DEF AckArrives, reaperVars, IInv, TypeOK, InRequest
  <1>4. own' \in [Message -> {"none", "pending", "reaped", "gone"} \cup RowStatus]
    BY DEF AckArrives, Acks, Matches, Advance, SetAck, Fault, reaperVars, Kind, IdIsTaken,
      Status, AckFrom, HasEcho, Own, IInv, TypeOK, RowStatus
  <1>5. echo' \in [Message -> {"none"} \cup RowStatus]
    BY DEF AckArrives, Acks, Matches, Advance, SetAck, Fault, reaperVars, Kind, IdIsTaken,
      Status, AckFrom, HasEcho, Own, IInv, TypeOK, RowStatus
  <1>6. ack' \in [Message -> [Kind -> {"none", "waiting", "over"}]]
    BY DEF AckArrives, SetAck, IInv, TypeOK
  <1>7. /\ tagged' \in SUBSET Message /\ merged' \in SUBSET Message
        /\ accepted' \in SUBSET Message /\ hook' \in SUBSET Message
        /\ todo' \in SUBSET Message /\ disturbed' \in SUBSET Message
    BY DEF AckArrives, Fault, reaperVars, IInv, TypeOK
  <1>8. \A n \in tagged' : own'[n] \in RowStatus /\ ~HasEcho(n)'
    BY DEF AckArrives, Acks, Matches, Advance, SetAck, Fault, reaperVars, Kind, IdIsTaken,
      Status, AckFrom, HasEcho, Own, IInv, TypeOK, RowStatus, RowFollowsRequest,
      NothingBeforeItsCause, Unsaved, InEngine
  <1>9. \A n \in Message \ tagged' : own'[n] \notin {"delivered", "read"}
    BY DEF AckArrives, Acks, Matches, Advance, SetAck, Fault, reaperVars, Kind, IdIsTaken,
      Status, AckFrom, HasEcho, Own, IInv, TypeOK, RowStatus, RowFollowsRequest,
      NothingBeforeItsCause, Unsaved, InEngine
  <1>10. ASSUME NEW n \in Message
        PROVE  /\ RowFollowsRequest(n)' /\ NothingBeforeItsCause(n)'
               /\ AnsweredCleanly(n)' /\ FailedByReceipt(n)'
    BY DEF AckArrives, IInv, Acks, Matches, Advance, SetAck, Fault, reaperVars, TypeOK,
      RowFollowsRequest, NothingBeforeItsCause, AnsweredCleanly, FailedByReceipt, Kind,
      IdIsTaken, Status, AckFrom, HasEcho, Own, InRequest, RowStatus, Unsaved, InEngine
  <1> QED
    BY <1>1, <1>2, <1>3, <1>4, <1>5, <1>6, <1>7, <1>8, <1>9, <1>10 DEF IInv, TypeOK

\* A receipt's second try keeps the invariant.
LEMMA AckRetriesKeeps ==
  ASSUME IInv, NEW m \in Message, NEW k \in Kind, AckRetries(m, k)
  PROVE  IInv'
  <1>1. up' \in BOOLEAN /\ sweeping' \in BOOLEAN
    BY DEF AckRetries, Fault, reaperVars, IInv, TypeOK
  <1>2. width' \in 0 .. Cardinality(Message) /\ faults' \in 0 .. MaxFaults
    BY BoundsAssumption DEF AckRetries, Fault, reaperVars, IInv, TypeOK
  <1>3. stage' \in [Message -> InRequest \cup {"new", "refused", "done", "failed", "dead"}]
    BY DEF AckRetries, reaperVars, IInv, TypeOK, InRequest
  <1>4. own' \in [Message -> {"none", "pending", "reaped", "gone"} \cup RowStatus]
    BY DEF AckRetries, SetAck, Matches, Advance, Fault, reaperVars, IdIsTaken, Status,
      AckFrom, HasEcho, Own, IInv, TypeOK, RowStatus, Kind
  <1>5. echo' \in [Message -> {"none"} \cup RowStatus]
    BY DEF AckRetries, SetAck, Matches, Advance, Fault, reaperVars, IdIsTaken, Status,
      AckFrom, HasEcho, Own, IInv, TypeOK, RowStatus, Kind
  <1>6. ack' \in [Message -> [Kind -> {"none", "waiting", "over"}]]
    BY DEF AckRetries, SetAck, IInv, TypeOK
  <1>7. /\ tagged' \in SUBSET Message /\ merged' \in SUBSET Message
        /\ accepted' \in SUBSET Message /\ hook' \in SUBSET Message
        /\ todo' \in SUBSET Message /\ disturbed' \in SUBSET Message
    BY DEF AckRetries, Fault, reaperVars, IInv, TypeOK
  <1>8. \A n \in tagged' : own'[n] \in RowStatus /\ ~HasEcho(n)'
    BY DEF AckRetries, SetAck, Matches, Advance, Fault, reaperVars, IdIsTaken, Status,
      AckFrom, HasEcho, Own, IInv, TypeOK, RowStatus, Kind, RowFollowsRequest,
      NothingBeforeItsCause, Unsaved, InEngine
  <1>9. \A n \in Message \ tagged' : own'[n] \notin {"delivered", "read"}
    BY DEF AckRetries, SetAck, Matches, Advance, Fault, reaperVars, IdIsTaken, Status,
      AckFrom, HasEcho, Own, IInv, TypeOK, RowStatus, Kind, RowFollowsRequest,
      NothingBeforeItsCause, Unsaved, InEngine
  <1>10. ASSUME NEW n \in Message
        PROVE  /\ RowFollowsRequest(n)' /\ NothingBeforeItsCause(n)'
               /\ AnsweredCleanly(n)' /\ FailedByReceipt(n)'
    BY DEF AckRetries, IInv, SetAck, Matches, Advance, Fault, reaperVars, TypeOK,
      RowFollowsRequest, NothingBeforeItsCause, AnsweredCleanly, FailedByReceipt,
      IdIsTaken, Status, AckFrom, HasEcho, Own, InRequest, RowStatus, Kind, Unsaved,
      InEngine, Acks
  <1> QED
    BY <1>1, <1>2, <1>3, <1>4, <1>5, <1>6, <1>7, <1>8, <1>9, <1>10 DEF IInv, TypeOK

\* The scan of the reaper keeps the invariant.
LEMMA SweepFindsKeeps ==
  ASSUME IInv, NEW s \in SUBSET Pending, SweepFinds(s)
  PROVE  IInv'
  BY BoundsAssumption
   DEF SweepFinds, IInv, Pending, requestVars, wireVars, TypeOK, RowFollowsRequest,
      NothingBeforeItsCause, AnsweredCleanly, FailedByReceipt, InRequest, RowStatus, Kind,
      HasEcho, Unsaved, InEngine, Acks

\* A rejected scan keeps the invariant.
LEMMA SweepThrowsKeeps ==
  ASSUME IInv, SweepThrows
  PROVE  IInv'
  <1>1. up' \in BOOLEAN /\ sweeping' \in BOOLEAN
    BY DEF SweepThrows, Fault, requestVars, wireVars, IInv, TypeOK
  <1>2. width' \in 0 .. Cardinality(Message) /\ faults' \in 0 .. MaxFaults
    BY BoundsAssumption DEF SweepThrows, Fault, requestVars, wireVars, IInv, TypeOK
  <1>3. stage' \in [Message -> InRequest \cup {"new", "refused", "done", "failed", "dead"}]
    BY DEF SweepThrows, requestVars, wireVars, IInv, TypeOK, InRequest
  <1>4. own' \in [Message -> {"none", "pending", "reaped", "gone"} \cup RowStatus]
    BY DEF SweepThrows, Fault, requestVars, wireVars, IInv, TypeOK, RowStatus
  <1>5. echo' \in [Message -> {"none"} \cup RowStatus]
    BY DEF SweepThrows, Fault, requestVars, wireVars, IInv, TypeOK, RowStatus
  <1>6. ack' \in [Message -> [Kind -> {"none", "waiting", "over"}]]
    BY DEF SweepThrows, wireVars, IInv, TypeOK
  <1>7. /\ tagged' \in SUBSET Message /\ merged' \in SUBSET Message
        /\ accepted' \in SUBSET Message /\ hook' \in SUBSET Message
        /\ todo' \in SUBSET Message /\ disturbed' \in SUBSET Message
    BY DEF SweepThrows, Fault, requestVars, wireVars, IInv, TypeOK
  <1>8. \A n \in tagged' : own'[n] \in RowStatus /\ ~HasEcho(n)'
    BY DEF SweepThrows, Fault, requestVars, wireVars, IInv, TypeOK, RowStatus,
      RowFollowsRequest, NothingBeforeItsCause, HasEcho, Unsaved, InEngine
  <1>9. \A n \in Message \ tagged' : own'[n] \notin {"delivered", "read"}
    BY DEF SweepThrows, Fault, requestVars, wireVars, IInv, TypeOK, RowStatus,
      RowFollowsRequest, NothingBeforeItsCause, HasEcho, Unsaved, InEngine
  <1>10. ASSUME NEW n \in Message
        PROVE  /\ RowFollowsRequest(n)' /\ NothingBeforeItsCause(n)'
               /\ AnsweredCleanly(n)' /\ FailedByReceipt(n)'
    BY DEF SweepThrows, IInv, Fault, requestVars, wireVars, TypeOK, RowFollowsRequest,
      NothingBeforeItsCause, AnsweredCleanly, FailedByReceipt, InRequest, RowStatus, Kind,
      HasEcho, Unsaved, InEngine, Acks
  <1> QED
    BY <1>1, <1>2, <1>3, <1>4, <1>5, <1>6, <1>7, <1>8, <1>9, <1>10 DEF IInv, TypeOK

\* reapRow() keeps the invariant.
LEMMA ReapsKeeps ==
  ASSUME IInv, NEW m \in Message, Reaps(m)
  PROVE  IInv'
  <1>1. up' \in BOOLEAN /\ sweeping' \in BOOLEAN
    BY DEF Reaps, Fault, wireVars, IInv, TypeOK
  <1>2. width' \in 0 .. Cardinality(Message) /\ faults' \in 0 .. MaxFaults
    BY BoundsAssumption DEF Reaps, Fault, wireVars, IInv, TypeOK
  <1>3. stage' \in [Message -> InRequest \cup {"new", "refused", "done", "failed", "dead"}]
    BY DEF Reaps, wireVars, IInv, TypeOK, InRequest
  <1>4. own' \in [Message -> {"none", "pending", "reaped", "gone"} \cup RowStatus]
    BY DEF Reaps, Own, Fault, wireVars, IInv, TypeOK, RowStatus
  <1>5. echo' \in [Message -> {"none"} \cup RowStatus]
    BY DEF Reaps, Own, Fault, wireVars, IInv, TypeOK, RowStatus
  <1>6. ack' \in [Message -> [Kind -> {"none", "waiting", "over"}]]
    BY DEF Reaps, wireVars, IInv, TypeOK
  <1>7. /\ tagged' \in SUBSET Message /\ merged' \in SUBSET Message
        /\ accepted' \in SUBSET Message /\ hook' \in SUBSET Message
        /\ todo' \in SUBSET Message /\ disturbed' \in SUBSET Message
    BY DEF Reaps, Fault, wireVars, IInv, TypeOK
  <1>8. \A n \in tagged' : own'[n] \in RowStatus /\ ~HasEcho(n)'
    BY DEF Reaps, Own, Fault, wireVars, IInv, TypeOK, RowStatus, RowFollowsRequest,
      NothingBeforeItsCause, HasEcho, Unsaved, InEngine
  <1>9. \A n \in Message \ tagged' : own'[n] \notin {"delivered", "read"}
    BY DEF Reaps, Own, Fault, wireVars, IInv, TypeOK, RowStatus, RowFollowsRequest,
      NothingBeforeItsCause, HasEcho, Unsaved, InEngine
  <1>10. ASSUME NEW n \in Message
        PROVE  /\ RowFollowsRequest(n)' /\ NothingBeforeItsCause(n)'
               /\ AnsweredCleanly(n)' /\ FailedByReceipt(n)'
    BY DEF Reaps, IInv, Own, Fault, wireVars, TypeOK, RowFollowsRequest,
      NothingBeforeItsCause, AnsweredCleanly, FailedByReceipt, InRequest, RowStatus, Kind,
      HasEcho, Unsaved, InEngine, Acks
  <1> QED
    BY <1>1, <1>2, <1>3, <1>4, <1>5, <1>6, <1>7, <1>8, <1>9, <1>10 DEF IInv, TypeOK

\* A crash keeps the invariant.
LEMMA CrashKeeps ==
  ASSUME IInv, Crash
  PROVE  IInv'
  <1>1. up' \in BOOLEAN /\ sweeping' \in BOOLEAN
    BY DEF Crash, Fault, IInv, TypeOK
  <1>2. width' \in 0 .. Cardinality(Message) /\ faults' \in 0 .. MaxFaults
    BY BoundsAssumption DEF Crash, Fault, IInv, TypeOK
  <1>3. stage' \in [Message -> InRequest \cup {"new", "refused", "done", "failed", "dead"}]
    BY DEF Crash, IInv, TypeOK, InRequest
  <1>4. own' \in [Message -> {"none", "pending", "reaped", "gone"} \cup RowStatus]
    BY DEF Crash, Fault, InRequest, Kind, IInv, TypeOK, RowStatus
  <1>5. echo' \in [Message -> {"none"} \cup RowStatus]
    BY DEF Crash, Fault, InRequest, Kind, IInv, TypeOK, RowStatus
  <1>6. ack' \in [Message -> [Kind -> {"none", "waiting", "over"}]]
    BY DEF Crash, IInv, TypeOK
  <1>7. /\ tagged' \in SUBSET Message /\ merged' \in SUBSET Message
        /\ accepted' \in SUBSET Message /\ hook' \in SUBSET Message
        /\ todo' \in SUBSET Message /\ disturbed' \in SUBSET Message
    BY DEF Crash, Fault, IInv, TypeOK
  <1>8. \A n \in tagged' : own'[n] \in RowStatus /\ ~HasEcho(n)'
    BY DEF Crash, Fault, InRequest, Kind, IInv, TypeOK, RowStatus, RowFollowsRequest,
      NothingBeforeItsCause, HasEcho, Unsaved, InEngine
  <1>9. \A n \in Message \ tagged' : own'[n] \notin {"delivered", "read"}
    BY DEF Crash, Fault, InRequest, Kind, IInv, TypeOK, RowStatus, RowFollowsRequest,
      NothingBeforeItsCause, HasEcho, Unsaved, InEngine
  <1>10. ASSUME NEW n \in Message
        PROVE  /\ RowFollowsRequest(n)' /\ NothingBeforeItsCause(n)'
               /\ AnsweredCleanly(n)' /\ FailedByReceipt(n)'
    BY DEF Crash, IInv, Fault, InRequest, Kind, TypeOK, RowFollowsRequest,
      NothingBeforeItsCause, AnsweredCleanly, FailedByReceipt, RowStatus, HasEcho,
      Unsaved, InEngine, Acks
  <1> QED
    BY <1>1, <1>2, <1>3, <1>4, <1>5, <1>6, <1>7, <1>8, <1>9, <1>10 DEF IInv, TypeOK

\* The restart keeps the invariant.
LEMMA BootKeeps ==
  ASSUME IInv, Boot
  PROVE  IInv'
  BY BoundsAssumption
   DEF Boot, IInv, requestVars, wireVars, reaperVars, TypeOK, RowFollowsRequest,
      NothingBeforeItsCause, AnsweredCleanly, FailedByReceipt, InRequest, RowStatus, Kind,
      HasEcho, Unsaved, InEngine, Acks

\* A step that is no step changes nothing.
LEMMA StutterKeeps ==
  ASSUME IInv, UNCHANGED vars
  PROVE  IInv'
  BY DEF vars, IInv, requestVars, wireVars, reaperVars, TypeOK, RowFollowsRequest,
         NothingBeforeItsCause, AnsweredCleanly, FailedByReceipt, HasEcho, Acks

\* Every step keeps the invariant.
LEMMA NextKeeps == IInv /\ [Next]_vars => IInv'
  <1> SUFFICES ASSUME IInv, [Next]_vars PROVE IInv'
    OBVIOUS
  <1>1. ASSUME NEW m \in Message, Request(m) PROVE IInv'
    BY <1>1, CountsKeeps, RefusesKeeps, SavesPendingKeeps, ResolvesKeeps, RejectsKeeps,
       SavesFailedKeeps, SavesSentKeeps, SavesSentNoIdKeeps, MergesKeeps, DropsKeeps
    DEF Request
  <1>2. ASSUME NEW m \in Message, Wire(m) PROVE IInv'
    BY <1>2, AcceptsKeeps, EchoArrivesKeeps, EchoInsertsKeeps, ReplaysKeeps,
       AckArrivesKeeps, AckRetriesKeeps
    DEF Wire
  <1>3. ASSUME Reaper PROVE IInv'
    BY <1>3, SweepFindsKeeps, SweepThrowsKeeps, ReapsKeeps DEF Reaper
  <1>4. QED
    BY <1>1, <1>2, <1>3, CrashKeeps, BootKeeps, StutterKeeps DEF Next

\* The invariant holds in every state of every behaviour.
THEOREM OutboundInvariant == Spec => []IInv
  <1>1. QED
    BY InitIInv, NextKeeps, PTL DEF Spec

\* Types hold, and with them the unique index: one row at most carries the
\* WhatsApp id.
THEOREM OutboundTypeOK == Spec => []TypeOK
  <1>1. IInv => TypeOK
    BY DEF IInv
  <1>2. QED
    BY <1>1, OutboundInvariant, PTL

\* What WhatsApp accepted always has a row, however writes are rejected and
\* processes crash.
THEOREM OutboundRecorded == Spec => []AcceptedIsRecorded
  <1>1. IInv => AcceptedIsRecorded
    BY DEF IInv, AcceptedIsRecorded, TypeOK, NothingBeforeItsCause, HasOwn
  <1>2. QED
    BY <1>1, OutboundInvariant, PTL

\* An answered send none of whose writes was rejected is shown once, with its
\* payload.
THEOREM OutboundShownOnce == Spec => []ShownOnce
  <1>1. IInv => ShownOnce
    BY DEF IInv, ShownOnce, NothingBeforeItsCause, AnsweredCleanly
  <1>2. QED
    BY <1>1, OutboundInvariant, PTL

\* The reaper never has the last word on such a send.
THEOREM OutboundNotReaped == Spec => []AnsweredIsNotReaped
  <1>1. ASSUME IInv, NEW m \in Message \ disturbed, stage[m] = "done"
        PROVE  /\ own[m] # "reaped"
               /\ "failed" \in {own[m], echo[m]} => "failed" \in Acks(m)
    BY <1>1 DEF IInv, TypeOK, RowStatus, AnsweredCleanly, FailedByReceipt
  <1>2. IInv => AnsweredIsNotReaped
    BY <1>1 DEF AnsweredIsNotReaped
  <1>3. QED
    BY <1>2, OutboundInvariant, PTL

-----------------------------------------------------------------------------
(* The stored delivery state.                                              *)

\* The steps DeliveryAdvances allows the row with the WhatsApp id of m.
MayBecome(m) ==
  Status(m) # "none" =>
    \/ Status(m)' = Status(m)
    \/ <<Status(m), Status(m)'>> \in
         {<<"sent", "delivered">>, <<"sent", "read">>, <<"delivered", "read">>, <<"sent", "failed">>}
    \/ stage[m] = "merging" /\ stage[m]' = "dropping" /\ Status(m)' = "sent"

\* A receipt that is applied moves the state forward, and that of its own
\* message only.
LEMMA ReceiptAdvances ==
  ASSUME IInv, NEW m \in Message, NEW k \in Kind, Matches(m, k), Advance(m, k),
         UNCHANGED tagged, NEW n \in Message
  PROVE  MayBecome(n)
  <1>1. CASE n = m
    <2>1. HasEcho(m)' <=> HasEcho(m)
      BY DEF Advance, IInv, TypeOK, HasEcho, Own, Kind
    <2>2. Status(m)' = k
      BY <2>1 DEF Advance, Matches, IInv, TypeOK, HasEcho, Own, Status, IdIsTaken
    <2>3. Status(m) \in {"sent", "delivered", "read", "failed"}
      BY DEF Matches, IInv, TypeOK, HasEcho, Status, IdIsTaken, RowStatus
    <2>4. Status(m) \in AckFrom(k)
      BY DEF Matches
    <2>5. QED
      BY <1>1, <2>2, <2>3, <2>4 DEF MayBecome, AckFrom, Kind
  <1>2. CASE n # m
    <2>1. echo'[n] = echo[n] /\ own'[n] = own[n]
      BY <1>2 DEF Advance, IInv, TypeOK, Own
    <2>2. QED
      BY <2>1 DEF MayBecome, Status, HasEcho
  <1>3. QED
    BY <1>1, <1>2

\* Neither does any other step of a send, of the engine or of the reaper take
\* it back, but for the merge.
LEMMA StateAdvances ==
  ASSUME IInv, [Next]_vars, NEW n \in Message
  PROVE  MayBecome(n)
  <1>1. ASSUME NEW m \in Message, Counts(m) PROVE MayBecome(n)
    BY <1>1
     DEF Counts, At, RowsToday, Go, InWindow, wireVars, reaperVars, HasOwn, HasEcho, IInv,
        TypeOK, RowFollowsRequest, NothingBeforeItsCause, MayBecome, Status, IdIsTaken,
        Unsaved, InEngine
  <1>2. ASSUME NEW m \in Message, Refuses(m) PROVE MayBecome(n)
    BY <1>2
     DEF Refuses, At, Go, wireVars, reaperVars, IInv, TypeOK, RowFollowsRequest,
        NothingBeforeItsCause, MayBecome, Status, HasEcho, IdIsTaken, Unsaved, InEngine
  <1>3. ASSUME NEW m \in Message, SavesPending(m) PROVE MayBecome(n)
    BY <1>3
     DEF SavesPending, At, Go, Own, wireVars, reaperVars, IInv, TypeOK, RowFollowsRequest,
        NothingBeforeItsCause, MayBecome, Status, HasEcho, IdIsTaken, Unsaved, InEngine
  <1>4. ASSUME NEW m \in Message, Resolves(m) PROVE MayBecome(n)
    BY <1>4
     DEF Resolves, At, Go, wireVars, reaperVars, IInv, TypeOK, RowFollowsRequest,
        NothingBeforeItsCause, MayBecome, Status, HasEcho, IdIsTaken, Unsaved, InEngine
  <1>5. ASSUME NEW m \in Message, Rejects(m) PROVE MayBecome(n)
    BY <1>5
     DEF Rejects, At, Go, Fault, wireVars, reaperVars, IInv, TypeOK, RowFollowsRequest,
        NothingBeforeItsCause, MayBecome, Status, HasEcho, IdIsTaken, Unsaved, InEngine
  <1>6. ASSUME NEW m \in Message, SavesFailed(m) PROVE MayBecome(n)
    BY <1>6
     DEF SavesFailed, At, Go, Own, Fault, wireVars, reaperVars, IInv, TypeOK,
        RowFollowsRequest, NothingBeforeItsCause, MayBecome, Status, HasEcho, IdIsTaken,
        Unsaved, InEngine
  <1>7. ASSUME NEW m \in Message, SavesSent(m) PROVE MayBecome(n)
    BY <1>7
     DEF SavesSent, At, IdIsTaken, Own, Go, Fault, wireVars, reaperVars, HasEcho, IInv,
        TypeOK, RowFollowsRequest, NothingBeforeItsCause, MayBecome, Status, Unsaved,
        InEngine
  <1>8. ASSUME NEW m \in Message, SavesSentNoId(m) PROVE MayBecome(n)
    BY <1>8
     DEF SavesSentNoId, At, Go, Own, Fault, wireVars, reaperVars, IInv, TypeOK,
        RowFollowsRequest, NothingBeforeItsCause, MayBecome, Status, HasEcho, IdIsTaken,
        Unsaved, InEngine
  <1>9. ASSUME NEW m \in Message, Merges(m) PROVE MayBecome(n)
    BY <1>9
     DEF Merges, At, Go, HasEcho, Fault, reaperVars, IInv, TypeOK, RowFollowsRequest,
        NothingBeforeItsCause, MayBecome, Status, IdIsTaken, Unsaved, InEngine
  <1>10. ASSUME NEW m \in Message, Drops(m) PROVE MayBecome(n)
    BY <1>10
     DEF Drops, At, Go, Own, Fault, wireVars, reaperVars, IInv, TypeOK, RowFollowsRequest,
        NothingBeforeItsCause, MayBecome, Status, HasEcho, IdIsTaken, Unsaved, InEngine
  <1>11. ASSUME NEW m \in Message, Accepts(m) PROVE MayBecome(n)
    BY <1>11
     DEF Accepts, At, requestVars, reaperVars, IInv, TypeOK, RowFollowsRequest,
        NothingBeforeItsCause, MayBecome, Status, HasEcho, IdIsTaken, Unsaved, InEngine
  <1>12. ASSUME NEW m \in Message, EchoArrives(m) PROVE MayBecome(n)
    BY <1>12
     DEF EchoArrives, HasEcho, requestVars, reaperVars, IInv, TypeOK, RowFollowsRequest,
        NothingBeforeItsCause, MayBecome, Status, IdIsTaken, Unsaved, InEngine
  <1>13. ASSUME NEW m \in Message, EchoInserts(m) PROVE MayBecome(n)
    BY <1>13
     DEF EchoInserts, IdIsTaken, requestVars, reaperVars, HasEcho, IInv, TypeOK,
        RowFollowsRequest, NothingBeforeItsCause, MayBecome, Status, Unsaved, InEngine
  <1>14. ASSUME NEW m \in Message, Replays(m) PROVE MayBecome(n)
    BY <1>14
     DEF Replays, IdIsTaken, requestVars, reaperVars, HasEcho, IInv, TypeOK,
        RowFollowsRequest, NothingBeforeItsCause, MayBecome, Status, Unsaved, InEngine
  <1>15. ASSUME NEW m \in Message, NEW k \in Kind, AckArrives(m, k) PROVE MayBecome(n)
    <2>1. CASE Matches(m, k) /\ Advance(m, k)
      BY <1>15, <2>1, ReceiptAdvances DEF AckArrives
    <2>2. CASE UNCHANGED <<own, echo>>
      BY <1>15, <2>2 DEF AckArrives, MayBecome, Status, HasEcho
    <2>3. QED
      BY <1>15, <2>1, <2>2 DEF AckArrives
  <1>16. ASSUME NEW m \in Message, NEW k \in Kind, AckRetries(m, k) PROVE MayBecome(n)
    <2>1. CASE Matches(m, k) /\ Advance(m, k)
      BY <1>16, <2>1, ReceiptAdvances DEF AckRetries
    <2>2. CASE UNCHANGED <<own, echo>>
      BY <1>16, <2>2 DEF AckRetries, MayBecome, Status, HasEcho
    <2>3. QED
      BY <1>16, <2>1, <2>2 DEF AckRetries
  <1>17. ASSUME NEW s \in SUBSET Pending, SweepFinds(s) PROVE MayBecome(n)
    BY <1>17
     DEF SweepFinds, requestVars, wireVars, IInv, TypeOK, RowFollowsRequest,
        NothingBeforeItsCause, MayBecome, Status, HasEcho, IdIsTaken, Unsaved, InEngine
  <1>18. ASSUME SweepThrows PROVE MayBecome(n)
    BY <1>18
     DEF SweepThrows, Fault, requestVars, wireVars, IInv, TypeOK, RowFollowsRequest,
        NothingBeforeItsCause, MayBecome, Status, HasEcho, IdIsTaken, Unsaved, InEngine
  <1>19. ASSUME NEW m \in Message, Reaps(m) PROVE MayBecome(n)
    <2>1. own'[n] = own[n] \/ own[n] = "pending"
      BY <1>19 DEF Reaps, Own, IInv, TypeOK
    <2>2. n \in tagged => own'[n] = own[n]
      BY <2>1 DEF IInv, TypeOK, RowStatus
    <2>3. UNCHANGED <<tagged, echo>>
      BY <1>19 DEF Reaps, wireVars
    <2>4. QED
      BY <2>2, <2>3 DEF MayBecome, Status, HasEcho
  <1>20. ASSUME Crash PROVE MayBecome(n)
    BY <1>20
     DEF Crash, Fault, InRequest, Kind, IInv, TypeOK, RowFollowsRequest,
        NothingBeforeItsCause, MayBecome, Status, HasEcho, IdIsTaken, Unsaved, InEngine
  <1>21. ASSUME Boot PROVE MayBecome(n)
    BY <1>21
     DEF Boot, requestVars, wireVars, reaperVars, IInv, TypeOK, RowFollowsRequest,
        NothingBeforeItsCause, MayBecome, Status, HasEcho, IdIsTaken, Unsaved, InEngine
  <1>22. CASE UNCHANGED vars
    BY <1>22 DEF vars, requestVars, wireVars, MayBecome, Status, HasEcho
  <1> QED
    BY <1>1, <1>2, <1>3, <1>4, <1>5, <1>6, <1>7, <1>8, <1>9, <1>10, <1>11, <1>12, <1>13,
      <1>14, <1>15, <1>16, <1>17, <1>18, <1>19, <1>20, <1>21, <1>22
     DEF Next, Request, Wire, Reaper

\* The stored delivery state only advances, but for the merge of a send that
\* lost the race against its echo.
THEOREM OutboundAdvances == Spec => DeliveryAdvances
  <1>1. IInv /\ [Next]_vars => \A m \in Message : MayBecome(m)
    BY StateAdvances
  <1>2. IInv /\ [Next]_vars =>
          [\A m \in Message :
             Status(m) # "none" =>
               \/ Status(m)' = Status(m)
               \/ <<Status(m), Status(m)'>> \in
                    {<<"sent", "delivered">>, <<"sent", "read">>, <<"delivered", "read">>, <<"sent", "failed">>}
               \/ stage[m] = "merging" /\ stage[m]' = "dropping" /\ Status(m)' = "sent"]_vars
    BY <1>1 DEF MayBecome
  <1>3. QED
    BY <1>2, OutboundInvariant, PTL DEF Spec, DeliveryAdvances

-----------------------------------------------------------------------------
(* The daily cap.                                                          *)

\* The messages that have a row or are past the count that admits one.
Exposed == {m \in Message : HasOwn(m) \/ HasEcho(m) \/ stage[m] = "counted"}

LessOne(w) == IF w > 0 THEN w - 1 ELSE 0

Excess == LessOne(width)

CapInv == Cardinality(InWindow) <= width /\ Cardinality(Exposed) <= Cap + Excess

\* What a wider window adds to the allowance.
LEMMA LessOneGrows ==
  ASSUME NEW w \in Nat, NEW v \in Nat, w <= v
  PROVE  LessOne(w) \in Nat /\ LessOne(v) \in Nat /\ LessOne(w) <= LessOne(v)
  BY DEF LessOne

\* Sets of messages are finite and ordered by their size.
LEMMA MessageSets ==
  ASSUME NEW S \in SUBSET Message, NEW T \in SUBSET S
  PROVE  /\ IsFiniteSet(S) /\ IsFiniteSet(T)
         /\ Cardinality(S) \in Nat /\ Cardinality(T) \in Nat
         /\ Cardinality(T) <= Cardinality(S)
  <1>1. IsFiniteSet(S)
    BY FS_Subset, BoundsAssumption
  <1>2. IsFiniteSet(T) /\ Cardinality(T) <= Cardinality(S)
    BY <1>1, FS_Subset
  <1>3. QED
    BY <1>1, <1>2, FS_CardinalityType

\* Only the count itself exposes a message: an echo shows one that has a row
\* already, and a row is saved for one that was counted.
LEMMA OthersExposeNothing ==
  ASSUME IInv, [Next]_vars, ~\E m \in Message : Counts(m)
  PROVE  Exposed' \subseteq Exposed /\ InWindow' \subseteq InWindow /\ width' = width
  <1>1. ASSUME NEW m \in Message, Refuses(m)
        PROVE  Exposed' \subseteq Exposed /\ InWindow' \subseteq InWindow /\ width' = width
    BY <1>1
     DEF Refuses, At, Go, wireVars, reaperVars, IInv, TypeOK, RowStatus, RowFollowsRequest,
        NothingBeforeItsCause, Exposed, InWindow, HasOwn, HasEcho, IdIsTaken, Unsaved,
        InEngine, InRequest, Kind
  <1>2. ASSUME NEW m \in Message, SavesPending(m)
        PROVE  Exposed' \subseteq Exposed /\ InWindow' \subseteq InWindow /\ width' = width
    BY <1>2
     DEF SavesPending, At, Go, Own, wireVars, reaperVars, IInv, TypeOK, RowStatus,
        RowFollowsRequest, NothingBeforeItsCause, Exposed, InWindow, HasOwn, HasEcho,
        IdIsTaken, Unsaved, InEngine, InRequest, Kind
  <1>3. ASSUME NEW m \in Message, Resolves(m)
        PROVE  Exposed' \subseteq Exposed /\ InWindow' \subseteq InWindow /\ width' = width
    BY <1>3
     DEF Resolves, At, Go, wireVars, reaperVars, IInv, TypeOK, RowStatus,
        RowFollowsRequest, NothingBeforeItsCause, Exposed, InWindow, HasOwn, HasEcho,
        IdIsTaken, Unsaved, InEngine, InRequest, Kind
  <1>4. ASSUME NEW m \in Message, Rejects(m)
        PROVE  Exposed' \subseteq Exposed /\ InWindow' \subseteq InWindow /\ width' = width
    BY <1>4
     DEF Rejects, At, Go, Fault, wireVars, reaperVars, IInv, TypeOK, RowStatus,
        RowFollowsRequest, NothingBeforeItsCause, Exposed, InWindow, HasOwn, HasEcho,
        IdIsTaken, Unsaved, InEngine, InRequest, Kind
  <1>5. ASSUME NEW m \in Message, SavesFailed(m)
        PROVE  Exposed' \subseteq Exposed /\ InWindow' \subseteq InWindow /\ width' = width
    BY <1>5
     DEF SavesFailed, At, Go, Own, Fault, wireVars, reaperVars, IInv, TypeOK, RowStatus,
        RowFollowsRequest, NothingBeforeItsCause, Exposed, InWindow, HasOwn, HasEcho,
        IdIsTaken, Unsaved, InEngine, InRequest, Kind
  <1>6. ASSUME NEW m \in Message, SavesSent(m)
        PROVE  Exposed' \subseteq Exposed /\ InWindow' \subseteq InWindow /\ width' = width
    BY <1>6
     DEF SavesSent, At, IdIsTaken, Own, Go, Fault, wireVars, reaperVars, HasEcho, IInv,
        TypeOK, RowStatus, RowFollowsRequest, NothingBeforeItsCause, Exposed, InWindow,
        HasOwn, Unsaved, InEngine, InRequest, Kind
  <1>7. ASSUME NEW m \in Message, SavesSentNoId(m)
        PROVE  Exposed' \subseteq Exposed /\ InWindow' \subseteq InWindow /\ width' = width
    BY <1>7
     DEF SavesSentNoId, At, Go, Own, Fault, wireVars, reaperVars, IInv, TypeOK, RowStatus,
        RowFollowsRequest, NothingBeforeItsCause, Exposed, InWindow, HasOwn, HasEcho,
        IdIsTaken, Unsaved, InEngine, InRequest, Kind
  <1>8. ASSUME NEW m \in Message, Merges(m)
        PROVE  Exposed' \subseteq Exposed /\ InWindow' \subseteq InWindow /\ width' = width
    BY <1>8
     DEF Merges, At, Go, HasEcho, Fault, reaperVars, IInv, TypeOK, RowStatus,
        RowFollowsRequest, NothingBeforeItsCause, Exposed, InWindow, HasOwn, IdIsTaken,
        Unsaved, InEngine, InRequest, Kind
  <1>9. ASSUME NEW m \in Message, Drops(m)
        PROVE  Exposed' \subseteq Exposed /\ InWindow' \subseteq InWindow /\ width' = width
    BY <1>9
     DEF Drops, At, Go, Own, Fault, wireVars, reaperVars, IInv, TypeOK, RowStatus,
        RowFollowsRequest, NothingBeforeItsCause, Exposed, InWindow, HasOwn, HasEcho,
        IdIsTaken, Unsaved, InEngine, InRequest, Kind
  <1>10. ASSUME NEW m \in Message, Accepts(m)
        PROVE  Exposed' \subseteq Exposed /\ InWindow' \subseteq InWindow /\ width' = width
    BY <1>10
     DEF Accepts, At, requestVars, reaperVars, IInv, TypeOK, RowStatus, RowFollowsRequest,
        NothingBeforeItsCause, Exposed, InWindow, HasOwn, HasEcho, IdIsTaken, Unsaved,
        InEngine, InRequest, Kind
  <1>11. ASSUME NEW m \in Message, EchoArrives(m)
        PROVE  Exposed' \subseteq Exposed /\ InWindow' \subseteq InWindow /\ width' = width
    BY <1>11
     DEF EchoArrives, HasEcho, requestVars, reaperVars, IInv, TypeOK, RowStatus,
        RowFollowsRequest, NothingBeforeItsCause, Exposed, InWindow, HasOwn, IdIsTaken,
        Unsaved, InEngine, InRequest, Kind
  <1>12. ASSUME NEW m \in Message, EchoInserts(m)
        PROVE  Exposed' \subseteq Exposed /\ InWindow' \subseteq InWindow /\ width' = width
    BY <1>12
     DEF EchoInserts, IdIsTaken, requestVars, reaperVars, HasEcho, IInv, TypeOK, RowStatus,
        RowFollowsRequest, NothingBeforeItsCause, Exposed, InWindow, HasOwn, Unsaved,
        InEngine, InRequest, Kind
  <1>13. ASSUME NEW m \in Message, Replays(m)
        PROVE  Exposed' \subseteq Exposed /\ InWindow' \subseteq InWindow /\ width' = width
    BY <1>13
     DEF Replays, IdIsTaken, requestVars, reaperVars, HasEcho, IInv, TypeOK, RowStatus,
        RowFollowsRequest, NothingBeforeItsCause, Exposed, InWindow, HasOwn, Unsaved,
        InEngine, InRequest, Kind
  <1>14. ASSUME NEW m \in Message, NEW k \in Kind, AckArrives(m, k)
        PROVE  Exposed' \subseteq Exposed /\ InWindow' \subseteq InWindow /\ width' = width
    BY <1>14
     DEF AckArrives, Acks, Matches, Advance, SetAck, Fault, reaperVars, Kind, IdIsTaken,
        Status, AckFrom, HasEcho, Own, IInv, TypeOK, RowStatus, RowFollowsRequest,
        NothingBeforeItsCause, Exposed, InWindow, HasOwn, Unsaved, InEngine, InRequest
  <1>15. ASSUME NEW m \in Message, NEW k \in Kind, AckRetries(m, k)
        PROVE  Exposed' \subseteq Exposed /\ InWindow' \subseteq InWindow /\ width' = width
    BY <1>15
     DEF AckRetries, SetAck, Matches, Advance, Fault, reaperVars, IdIsTaken, Status,
        AckFrom, HasEcho, Own, IInv, TypeOK, RowStatus, RowFollowsRequest,
        NothingBeforeItsCause, Exposed, InWindow, HasOwn, Unsaved, InEngine, InRequest,
        Kind
  <1>16. ASSUME NEW s \in SUBSET Pending, SweepFinds(s)
        PROVE  Exposed' \subseteq Exposed /\ InWindow' \subseteq InWindow /\ width' = width
    BY <1>16
     DEF SweepFinds, requestVars, wireVars, IInv, TypeOK, RowStatus, RowFollowsRequest,
        NothingBeforeItsCause, Exposed, InWindow, HasOwn, HasEcho, IdIsTaken, Unsaved,
        InEngine, InRequest, Kind
  <1>17. ASSUME SweepThrows
        PROVE  Exposed' \subseteq Exposed /\ InWindow' \subseteq InWindow /\ width' = width
    BY <1>17
     DEF SweepThrows, Fault, requestVars, wireVars, IInv, TypeOK, RowStatus,
        RowFollowsRequest, NothingBeforeItsCause, Exposed, InWindow, HasOwn, HasEcho,
        IdIsTaken, Unsaved, InEngine, InRequest, Kind
  <1>18. ASSUME NEW m \in Message, Reaps(m)
        PROVE  Exposed' \subseteq Exposed /\ InWindow' \subseteq InWindow /\ width' = width
    BY <1>18
     DEF Reaps, Own, Fault, wireVars, IInv, TypeOK, RowStatus, RowFollowsRequest,
        NothingBeforeItsCause, Exposed, InWindow, HasOwn, HasEcho, IdIsTaken, Unsaved,
        InEngine, InRequest, Kind
  <1>19. ASSUME Crash
        PROVE  Exposed' \subseteq Exposed /\ InWindow' \subseteq InWindow /\ width' = width
    BY <1>19
     DEF Crash, Fault, InRequest, Kind, IInv, TypeOK, RowStatus, RowFollowsRequest,
        NothingBeforeItsCause, Exposed, InWindow, HasOwn, HasEcho, IdIsTaken, Unsaved,
        InEngine
  <1>20. ASSUME Boot
        PROVE  Exposed' \subseteq Exposed /\ InWindow' \subseteq InWindow /\ width' = width
    BY <1>20
     DEF Boot, requestVars, wireVars, reaperVars, IInv, TypeOK, RowStatus,
        RowFollowsRequest, NothingBeforeItsCause, Exposed, InWindow, HasOwn, HasEcho,
        IdIsTaken, Unsaved, InEngine, InRequest, Kind
  <1>21. CASE UNCHANGED vars
    BY <1>21 DEF vars, requestVars, wireVars, Exposed, InWindow, HasOwn, HasEcho
  <1> QED
    BY <1>1, <1>2, <1>3, <1>4, <1>5, <1>6, <1>7, <1>8, <1>9, <1>10, <1>11, <1>12, <1>13,
      <1>14, <1>15, <1>16, <1>17, <1>18, <1>19, <1>20, <1>21
     DEF Next, Request, Wire, Reaper

\* The count admits a message while the rows are below the cap, and width
\* remembers how many are admitted at once.
LEMMA CountExposesOne ==
  ASSUME IInv, CapInv, NEW m \in Message, Counts(m)
  PROVE  CapInv'
  <1> DEFINE Rows == {n \in Message : HasOwn(n) \/ HasEcho(n)}
             OwnRows == {n \in Message : HasOwn(n)}
             EchoRows == {n \in Message : HasEcho(n)}
  <1>1. /\ Rows = OwnRows \cup EchoRows
        /\ Rows \subseteq Message /\ OwnRows \subseteq Message /\ EchoRows \subseteq Message
    OBVIOUS
  <1>2. /\ IsFiniteSet(OwnRows) /\ IsFiniteSet(EchoRows) /\ IsFiniteSet(Rows)
        /\ Cardinality(OwnRows) \in Nat /\ Cardinality(EchoRows) \in Nat
        /\ Cardinality(Rows) \in Nat
    BY <1>1, MessageSets
  <1>3. Cardinality(Rows) <= RowsToday
    <2>1. Cardinality(OwnRows \cup EchoRows)
            = Cardinality(OwnRows) + Cardinality(EchoRows) - Cardinality(OwnRows \cap EchoRows)
      BY <1>2, FS_Union
    <2>2. Cardinality(OwnRows \cap EchoRows) \in Nat
      BY <1>1, MessageSets
    <2>3. RowsToday = Cardinality(OwnRows) + Cardinality(EchoRows)
      BY DEF RowsToday
    <2>4. QED
      BY <1>1, <1>2, <2>1, <2>2, <2>3
  <1>4. /\ InWindow' \subseteq Message /\ IsFiniteSet(InWindow')
        /\ Cardinality(InWindow') \in Nat /\ Cardinality(InWindow) \in Nat
    <2>1. InWindow' \in SUBSET Message /\ InWindow \in SUBSET Message
      BY DEF InWindow
    <2>2. QED
      BY <2>1, MessageSets
  <1>5. width \in Nat /\ width' \in Nat /\ Cardinality(InWindow') <= width' /\ width <= width'
    <2>1. width \in Nat
      BY BoundsAssumption, FS_CardinalityType DEF IInv, TypeOK
    <2>2. width' = IF Cardinality(InWindow') > width THEN Cardinality(InWindow') ELSE width
      BY DEF Counts
    <2>3. QED
      BY <1>4, <2>1, <2>2
  <1>6. RowsToday \in Nat /\ Cap \in Nat
    BY <1>2, BoundsAssumption DEF RowsToday
  <1>7. /\ RowsToday < Cap => stage' = [stage EXCEPT ![m] = "counted"]
        /\ RowsToday >= Cap => stage' = [stage EXCEPT ![m] = "refused"]
        /\ stage[m] = "new" /\ UNCHANGED <<own, echo>>
    BY <1>6 DEF Counts, At, Go, wireVars
  <1>8. CASE RowsToday < Cap
    <2>1. Exposed' = Rows \cup InWindow'
      BY DEF Counts, Exposed, InWindow, HasOwn, HasEcho, wireVars
    <2>2. Cardinality(Exposed') <= Cardinality(Rows) + Cardinality(InWindow')
      <3>1. Cardinality(Rows \cup InWindow')
              = Cardinality(Rows) + Cardinality(InWindow') - Cardinality(Rows \cap InWindow')
        BY <1>2, <1>4, FS_Union
      <3>2. Cardinality(Rows \cap InWindow') \in Nat
        BY <1>1, MessageSets
      <3>3. QED
        BY <1>2, <1>4, <2>1, <3>1, <3>2
    <2>3. m \in InWindow'
      BY <1>7, <1>8 DEF InWindow, IInv, TypeOK
    <2>4. Cardinality(InWindow') >= 1
      BY <1>4, <2>3, FS_EmptySet
    <2>5. width' > 0
      BY <1>4, <1>5, <2>4
    <2>6. Excess' = width' - 1
      BY <2>5 DEF Excess, LessOne
    <2>7. Cardinality(Exposed') \in Nat
      <3>1. Exposed' \in SUBSET Message
        BY DEF Exposed
      <3>2. QED
        BY <3>1, MessageSets
    <2>8. Cardinality(Exposed') <= Cap + Excess'
      BY <1>2, <1>3, <1>4, <1>5, <1>6, <1>8, <2>2, <2>4, <2>6, <2>7
    <2>9. QED
      BY <1>5, <2>8 DEF CapInv
  <1>9. CASE RowsToday >= Cap
    <2>1. Exposed' \subseteq Exposed
      BY <1>7, <1>9 DEF Exposed, HasOwn, HasEcho, IInv, TypeOK
    <2>2. /\ Cardinality(Exposed') <= Cardinality(Exposed)
          /\ Cardinality(Exposed') \in Nat /\ Cardinality(Exposed) \in Nat
      <3>1. Exposed \in SUBSET Message
        BY DEF Exposed
      <3>2. QED
        BY <2>1, <3>1, MessageSets
    <2>3. Excess = LessOne(width) /\ Excess' = LessOne(width')
      BY DEF Excess
    <2>4. Excess \in Nat /\ Excess' \in Nat /\ Excess <= Excess'
      BY <1>5, <2>3, LessOneGrows
    <2>5. QED
      BY <1>5, <1>6, <2>2, <2>4 DEF CapInv
  <1>10. QED
    BY <1>6, <1>8, <1>9

\* The cap is exceeded at most by the sends that were past the count together,
\* less one.
THEOREM OutboundCap == Spec => []CapHolds
  <1>1. Init => CapInv
    <2> SUFFICES ASSUME Init PROVE CapInv
      OBVIOUS
    <2>1. Exposed = {} /\ InWindow = {} /\ width = 0
      BY DEF Init, Exposed, InWindow, HasOwn, HasEcho
    <2>2. QED
      BY <2>1, FS_EmptySet, BoundsAssumption DEF CapInv, Excess, LessOne
  <1>2. IInv /\ CapInv /\ [Next]_vars => CapInv'
    <2> SUFFICES ASSUME IInv, CapInv, [Next]_vars PROVE CapInv'
      OBVIOUS
    <2>1. CASE \E m \in Message : Counts(m)
      BY <2>1, CountExposesOne
    <2>2. CASE ~\E m \in Message : Counts(m)
      <3>1. Exposed' \subseteq Exposed /\ InWindow' \subseteq InWindow /\ width' = width
        BY <2>2, OthersExposeNothing
      <3>2. /\ Cardinality(Exposed') <= Cardinality(Exposed)
            /\ Cardinality(Exposed') \in Nat /\ Cardinality(Exposed) \in Nat
            /\ Cardinality(InWindow') <= Cardinality(InWindow)
            /\ Cardinality(InWindow') \in Nat /\ Cardinality(InWindow) \in Nat
        <4>1. Exposed \in SUBSET Message /\ InWindow \in SUBSET Message
          BY DEF Exposed, InWindow
        <4>2. QED
          BY <3>1, <4>1, MessageSets
      <3>3. Excess' = Excess /\ Excess \in Nat /\ width \in Nat
        <4>1. width \in Nat
          BY BoundsAssumption, FS_CardinalityType DEF IInv, TypeOK
        <4>2. QED
          BY <3>1, <4>1 DEF Excess, LessOne
      <3>4. QED
        BY <3>1, <3>2, <3>3, BoundsAssumption DEF CapInv
    <2>3. QED
      BY <2>1, <2>2
  <1>3. IInv /\ CapInv => CapHolds
    <2> SUFFICES ASSUME IInv, CapInv PROVE CapHolds
      OBVIOUS
    <2> DEFINE Rows == {m \in Message : HasOwn(m) \/ HasEcho(m)}
    <2>1. Rows \subseteq Exposed /\ Exposed \in SUBSET Message
      BY DEF Exposed
    <2>2. /\ Cardinality(Rows) <= Cardinality(Exposed)
          /\ Cardinality(Rows) \in Nat /\ Cardinality(Exposed) \in Nat
      BY <2>1, MessageSets
    <2>3. Excess \in Nat
      <3>1. width \in Nat
        BY BoundsAssumption, FS_CardinalityType DEF IInv, TypeOK
      <3>2. QED
        BY <3>1 DEF Excess, LessOne
    <2>4. Cardinality(Rows) <= Cap + Excess
      BY <2>2, <2>3, BoundsAssumption DEF CapInv
    <2>5. QED
      BY <2>4 DEF CapHolds, Excess, LessOne
  <1>4. QED
    BY <1>1, <1>2, <1>3, OutboundInvariant, PTL DEF Spec
=============================================================================
