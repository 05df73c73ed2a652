------------------------ MODULE SessionAtRest_proofs ------------------------
(***************************************************************************)
(* What a session of SessionLifecycle is like once nothing is under way:   *)
(* no reconnect state and no dead engine is left behind, a stopped session *)
(* says so, a deleted one leaves nothing.  The invariants extend those of  *)
(* SessionLifecycle_proofs.  At the end, what ReconnectPolicy decides.     *)
(***************************************************************************)
EXTENDS SessionLifecycle_proofs, ReconnectPolicy

USE DEF Now, Becomes, Latched, Lowered, LaunchAs, RequestAs

-----------------------------------------------------------------------------
(* Reconnect state that has no engine.                                     *)

\* A launch that has no engine yet, and has cleared or respected the stop mark.
Bare(l) == Unborn(l) /\ ~(l = Start /\ launch[l].at = "fenced")

\* A launch that will end with an engine, a timer or no reconnect state.
Resumes(l) ==
    \/ launch[l].at \in {"hook", "killing", "reaping", "destroying", "escalating"}
    \/ launch[l].at = "fenced" /\ l \in Attempt

Resuming == \E l \in Launcher : Resumes(l)

\* Reconnect state is made by start() only, with its engine.
LEMMA ReconMade ==
    ASSUME Typed, [Next]_vars
    PROVE  \/ mem.recon.kept \/ ~mem'.recon.kept
           \/ launch[Start].at = "hook" /\ mem'.registry # NoEngine /\ mem'.mark = mem.mark
<1>1. CASE UNCHANGED vars
  BY <1>1, TypedParts, ReconConstants DEF vars, histVars
<1>2. CASE StartSteps
  <2>1. CASE StartCalled
    BY <2>1, TypedParts, ReconConstants, StartCalledDoes DEF elsewhere, Begun
  <2>2. CASE HookDone
    BY <2>2, TypedParts, HookDoneDoes DEF Registered
  <2>3. CASE ReapEnds
    BY <2>3, TypedParts, ReconConstants, ReapEndsDoes DEF elsewhere, histVars
  <2>. QED BY <2>1, <2>2, <2>3, <1>2 DEF StartSteps
<1>3. ASSUME NEW l \in Launcher, LaunchSteps(l)
      PROVE  \/ mem.recon.kept \/ ~mem'.recon.kept
             \/ launch[Start].at = "hook" /\ mem'.registry # NoEngine /\ mem'.mark = mem.mark
  <2>1. CASE FenceOpens(l)
    <3>1. CASE l = Start
      BY <2>1, <3>1, TypedParts, FenceOpensDoes, ReconConstants DEF elsewhere, histVars
    <3>2. CASE l # Start
      BY <2>1, <3>2, TypedParts, FenceOpensDoes, ReconConstants DEF Registered, elsewhere, histVars
    <3>. QED BY <3>1, <3>2
  <2>2. CASE FenceRefuses(l)
    BY <2>2, TypedParts, ReconConstants, FenceRefusesDoes DEF elsewhere
  <2>3. CASE WriteSettles(l)
    BY <2>3, TypedParts, ReconConstants, WriteSettlesDoes DEF elsewhere, histVars
  <2>4. CASE WriteFails(l)
    BY <2>4, TypedParts, ReconConstants, WriteFailsDoes DEF elsewhere
  <2>5. CASE InitResolves(l)
    BY <2>5, TypedParts, ReconConstants, InitResolvesDoes DEF elsewhere, histVars
  <2>6. CASE InitRejects(l)
    BY <2>6, TypedParts, ReconConstants, InitRejectsDoes DEF elsewhere
  <2>7. CASE InitTimesOut(l)
    BY <2>7, TypedParts, ReconConstants, InitTimesOutDoes DEF elsewhere, histVars
  <2>8. CASE LateKillEnds(l)
    BY <2>8, TypedParts, ReconConstants, LateKillEndsDoes DEF elsewhere
  <2>9. CASE RowRead(l)
    BY <2>9, TypedParts, ReconConstants, RowReadDoes DEF elsewhere
  <2>10. CASE RetireEnds(l) \/ RetireTimesOut(l)
    BY <2>10, TypedParts, ReconConstants, RetireEndsDoes DEF elsewhere, histVars
  <2>11. CASE Repurged(l)
    BY <2>11, TypedParts, ReconConstants, RepurgedDoes DEF elsewhere, histVars
  <2>12. CASE OldEngineGone(l)
    BY <2>12, TypedParts, ReconConstants, OldEngineGoneDoes DEF elsewhere, histVars
  <2>13. CASE DestroyTimesOut(l)
    BY <2>13, TypedParts, ReconConstants, DestroyTimesOutDoes DEF elsewhere, histVars
  <2>. QED BY <2>1, <2>2, <2>3, <2>4, <2>5, <2>6, <2>7, <2>8, <2>9, <2>10, <2>11, <2>12, <2>13, <1>3 DEF LaunchSteps
<1>4. ASSUME NEW l \in Attempt, TimerFires(l)
      PROVE  \/ mem.recon.kept \/ ~mem'.recon.kept
             \/ launch[Start].at = "hook" /\ mem'.registry # NoEngine /\ mem'.mark = mem.mark
  BY <1>4, TypedParts, ReconConstants, TimerFiresDoes DEF elsewhere, Begun, Registered
<1>5. ASSUME NEW q \in Request, NEW kind \in Kinds, CallMade(q, kind)
      PROVE  \/ mem.recon.kept \/ ~mem'.recon.kept
             \/ launch[Start].at = "hook" /\ mem'.registry # NoEngine /\ mem'.mark = mem.mark
  <2>1. CASE kind \in {"stop", "delete"} /\ Called(q, kind)
    BY <1>5, <2>1, TypedParts, ReconConstants, CalledDoes DEF CallMade
  <2>2. CASE kind \in {"logout", "kill"} /\ EngineCalled(q, kind)
    BY <1>5, <2>2, TypedParts, ReconConstants, EngineCalledDoes DEF CallMade
  <2>. QED BY <2>1, <2>2, <1>5 DEF CallMade
<1>6. ASSUME NEW q \in Request, RequestSteps(q)
      PROVE  \/ mem.recon.kept \/ ~mem'.recon.kept
             \/ launch[Start].at = "hook" /\ mem'.registry # NoEngine /\ mem'.mark = mem.mark
  <2>1. CASE StopCaptures(q)
    BY <2>1, TypedParts, ReconConstants, StopCapturesDoes DEF histVars
  <2>2. CASE WaitEnds(q)
    BY <2>2, TypedParts, ReconConstants, WaitEndsDoes DEF histVars
  <2>3. CASE StopCloses(q) \/ LogoutReturns(q) \/ KillEnds(q)
    BY <2>3, TypedParts, ReconConstants, ClosesDoes DEF histVars
  <2>4. CASE LogoutOverruns(q)
    BY <2>4, TypedParts, ReconConstants, LogoutOverrunsDoes DEF histVars
  <2>5. CASE StopEscalates(q)
    BY <2>5, StopEscalatesDoes
  <2>6. CASE DeleteEnters(q)
    BY <2>6, TypedParts, ReconConstants, DeleteEntersDoes DEF DeleteStarts, histVars
  <2>7. CASE DeleteFenceOpens(q)
    BY <2>7, TypedParts, ReconConstants, DeleteFenceOpensDoes DEF DeleteStarts, histVars
  <2>8. CASE DeleteRefused(q)
    BY <2>8, TypedParts, ReconConstants, DeleteRefusedDoes
  <2>9. CASE RowDeleted(q)
    BY <2>9, RowDeletedDoes
  <2>10. CASE NotFound(q) \/ DeleteFails(q) \/ Purged(q)
    BY <2>10, TypedParts, ReconConstants, UnmarksDoes DEF histVars
  <2>. QED BY <2>1, <2>2, <2>3, <2>4, <2>5, <2>6, <2>7, <2>8, <2>9, <2>10, <1>6 DEF RequestSteps
<1>7. ASSUME NEW e \in Engine, EngineSteps(e)
      PROVE  \/ mem.recon.kept \/ ~mem'.recon.kept
             \/ launch[Start].at = "hook" /\ mem'.registry # NoEngine /\ mem'.mark = mem.mark
  <2>1. CASE KillLands(e) \/ LeakEnds(e)
    BY <2>1, TypedParts, ReconConstants, KillLandsDoes DEF others, histVars
  <2>2. CASE RemovalSettles(e)
    BY <2>2, TypedParts, ReconConstants DEF RemovalSettles, others, histVars
  <2>3. CASE EngineReady(e) \/ EngineWedges(e)
    BY <2>3, TypedParts, ReconConstants, EngineRunsDoes DEF others, histVars
  <2>4. CASE EngineDrops(e) \/ EngineUnlinked(e) \/ EngineFails(e) \/ StuckAuth(e) \/ WipeLands(e)
    BY <2>4, TypedParts, ReconConstants, EngineEndsDoes DEF others, histVars
  <2>5. CASE ProbeFails(e) \/ ProbePasses
    BY <2>5, TypedParts, ReconConstants, ProbesDoes DEF others, histVars
  <2>6. CASE DropHandled(e)
    BY <2>6, TypedParts, ReconConstants, DropHandledDoes
  <2>7. CASE DropUnread(e)
    BY <2>7, TypedParts, ReconConstants, DropUnreadDoes DEF others, histVars
  <2>. QED BY <2>1, <2>2, <2>3, <2>4, <2>5, <2>6, <2>7, <1>7 DEF EngineSteps
<1>. QED BY <1>1, <1>2, <1>3, <1>4, <1>5, <1>6, <1>7, NextCases


\* The mark is set by calls, which cancel the reconnect state or are going to.
LEMMA MarkRises ==
    ASSUME Typed, [Next]_vars
    PROVE  \/ mem.mark \/ ~mem'.mark
           \/ launch' = launch /\ (Asked \/ Asked') /\ (Asking' \/ ~mem'.recon.kept)
<1>1. CASE UNCHANGED vars
  BY <1>1, TypedParts, ReconConstants DEF vars, histVars, Asked, Asking, Early
<1>2. CASE StartSteps
  <2>1. CASE StartCalled
    BY <2>1, TypedParts, ReconConstants, StartCalledDoes DEF elsewhere, Begun, Asked, Asking, Early
  <2>2. CASE HookDone
    BY <2>2, TypedParts, ReconConstants, HookDoneDoes DEF elsewhere, Registered, histVars, Asked, Asking, Early
  <2>3. CASE ReapEnds
    BY <2>3, TypedParts, ReconConstants, ReapEndsDoes DEF elsewhere, histVars, Asked, Asking, Early
  <2>. QED BY <2>1, <2>2, <2>3, <1>2 DEF StartSteps
<1>3. ASSUME NEW l \in Launcher, LaunchSteps(l)
      PROVE  \/ mem.mark \/ ~mem'.mark
             \/ launch' = launch /\ (Asked \/ Asked') /\ (Asking' \/ ~mem'.recon.kept)
  <2>1. CASE FenceOpens(l)
    <3>1. CASE l = Start
      BY <2>1, <3>1, TypedParts, FenceOpensDoes DEF elsewhere, histVars
    <3>2. CASE l # Start
      BY <2>1, <3>2, TypedParts, FenceOpensDoes DEF Registered, elsewhere, histVars
    <3>. QED BY <3>1, <3>2
  <2>2. CASE FenceRefuses(l)
    BY <2>2, TypedParts, ReconConstants, FenceRefusesDoes DEF elsewhere, Asked, Asking, Early
  <2>3. CASE WriteSettles(l)
    BY <2>3, TypedParts, ReconConstants, WriteSettlesDoes DEF elsewhere, histVars, Asked, Asking, Early
  <2>4. CASE WriteFails(l)
    BY <2>4, TypedParts, ReconConstants, WriteFailsDoes DEF elsewhere, Asked, Asking, Early
  <2>5. CASE InitResolves(l)
    BY <2>5, TypedParts, ReconConstants, InitResolvesDoes DEF elsewhere, histVars, Asked, Asking, Early
  <2>6. CASE InitRejects(l)
    BY <2>6, TypedParts, ReconConstants, InitRejectsDoes DEF elsewhere, Asked, Asking, Early
  <2>7. CASE InitTimesOut(l)
    BY <2>7, TypedParts, ReconConstants, InitTimesOutDoes DEF elsewhere, histVars, Asked, Asking, Early
  <2>8. CASE LateKillEnds(l)
    BY <2>8, TypedParts, ReconConstants, LateKillEndsDoes DEF elsewhere, Asked, Asking, Early
  <2>9. CASE RowRead(l)
    BY <2>9, TypedParts, ReconConstants, RowReadDoes DEF elsewhere, Asked, Asking, Early
  <2>10. CASE RetireEnds(l) \/ RetireTimesOut(l)
    BY <2>10, TypedParts, ReconConstants, RetireEndsDoes DEF elsewhere, histVars, Asked, Asking, Early
  <2>11. CASE Repurged(l)
    BY <2>11, TypedParts, ReconConstants, RepurgedDoes DEF elsewhere, histVars, Asked, Asking, Early
  <2>12. CASE OldEngineGone(l)
    BY <2>12, TypedParts, ReconConstants, OldEngineGoneDoes DEF elsewhere, histVars, Asked, Asking, Early
  <2>13. CASE DestroyTimesOut(l)
    BY <2>13, TypedParts, ReconConstants, DestroyTimesOutDoes DEF elsewhere, histVars, Asked, Asking, Early
  <2>. QED BY <2>1, <2>2, <2>3, <2>4, <2>5, <2>6, <2>7, <2>8, <2>9, <2>10, <2>11, <2>12, <2>13, <1>3 DEF LaunchSteps
<1>4. ASSUME NEW l \in Attempt, TimerFires(l)
      PROVE  \/ mem.mark \/ ~mem'.mark
             \/ launch' = launch /\ (Asked \/ Asked') /\ (Asking' \/ ~mem'.recon.kept)
  BY <1>4, TypedParts, ReconConstants, TimerFiresDoes DEF elsewhere, Begun, Registered, Asked, Asking, Early
<1>5. ASSUME NEW q \in Request, NEW kind \in Kinds, CallMade(q, kind)
      PROVE  \/ mem.mark \/ ~mem'.mark
             \/ launch' = launch /\ (Asked \/ Asked') /\ (Asking' \/ ~mem'.recon.kept)
  <2>1. CASE kind \in {"stop", "delete"} /\ Called(q, kind)
    BY <1>5, <2>1, TypedParts, ReconConstants, CalledDoes DEF CallMade, Asked, Asking, Early
  <2>2. CASE kind \in {"logout", "kill"} /\ EngineCalled(q, kind)
    BY <1>5, <2>2, TypedParts, ReconConstants, EngineCalledDoes DEF CallMade, Asked, Asking, Early
  <2>. QED BY <2>1, <2>2, <1>5 DEF CallMade
<1>6. ASSUME NEW q \in Request, RequestSteps(q)
      PROVE  \/ mem.mark \/ ~mem'.mark
             \/ launch' = launch /\ (Asked \/ Asked') /\ (Asking' \/ ~mem'.recon.kept)
  <2>1. CASE StopCaptures(q)
    BY <2>1, TypedParts, ReconConstants, StopCapturesDoes DEF histVars, Asked, Asking, Early
  <2>2. CASE WaitEnds(q)
    BY <2>2, TypedParts, ReconConstants, WaitEndsDoes DEF histVars, Asked, Asking, Early
  <2>3. CASE StopCloses(q) \/ LogoutReturns(q) \/ KillEnds(q)
    BY <2>3, TypedParts, ReconConstants, ClosesDoes DEF histVars, Asked, Asking, Early
  <2>4. CASE LogoutOverruns(q)
    BY <2>4, TypedParts, ReconConstants, LogoutOverrunsDoes DEF histVars, Asked, Asking, Early
  <2>5. CASE StopEscalates(q)
    BY <2>5, TypedParts, ReconConstants, StopEscalatesDoes DEF histVars, Asked, Asking, Early
  <2>6. CASE DeleteEnters(q)
    BY <2>6, TypedParts, ReconConstants, DeleteEntersDoes DEF DeleteStarts, histVars, Asked, Asking, Early
  <2>7. CASE DeleteFenceOpens(q)
    BY <2>7, TypedParts, ReconConstants, DeleteFenceOpensDoes DEF DeleteStarts, histVars, Asked, Asking, Early
  <2>8. CASE DeleteRefused(q)
    BY <2>8, TypedParts, ReconConstants, DeleteRefusedDoes DEF Asked, Asking, Early
  <2>9. CASE RowDeleted(q)
    BY <2>9, TypedParts, ReconConstants, RowDeletedDoes DEF histVars, Asked, Asking, Early
  <2>10. CASE NotFound(q) \/ DeleteFails(q) \/ Purged(q)
    BY <2>10, TypedParts, ReconConstants, UnmarksDoes DEF histVars, Asked, Asking, Early
  <2>. QED BY <2>1, <2>2, <2>3, <2>4, <2>5, <2>6, <2>7, <2>8, <2>9, <2>10, <1>6 DEF RequestSteps
<1>7. ASSUME NEW e \in Engine, EngineSteps(e)
      PROVE  \/ mem.mark \/ ~mem'.mark
             \/ launch' = launch /\ (Asked \/ Asked') /\ (Asking' \/ ~mem'.recon.kept)
  <2>1. CASE KillLands(e) \/ LeakEnds(e)
    BY <2>1, TypedParts, ReconConstants, KillLandsDoes DEF others, histVars, Asked, Asking, Early
  <2>2. CASE RemovalSettles(e)
    BY <2>2, TypedParts, ReconConstants DEF RemovalSettles, others, histVars, Asked, Asking, Early
  <2>3. CASE EngineReady(e) \/ EngineWedges(e)
    BY <2>3, TypedParts, ReconConstants, EngineRunsDoes DEF others, histVars, Asked, Asking, Early
  <2>4. CASE EngineDrops(e) \/ EngineUnlinked(e) \/ EngineFails(e) \/ StuckAuth(e) \/ WipeLands(e)
    BY <2>4, TypedParts, ReconConstants, EngineEndsDoes DEF others, histVars, Asked, Asking, Early
  <2>5. CASE ProbeFails(e) \/ ProbePasses
    BY <2>5, TypedParts, ReconConstants, ProbesDoes DEF others, histVars, Asked, Asking, Early
  <2>6. CASE DropHandled(e)
    BY <2>6, TypedParts, ReconConstants, DropHandledDoes DEF Asked, Asking, Early
  <2>7. CASE DropUnread(e)
    BY <2>7, TypedParts, ReconConstants, DropUnreadDoes DEF others, histVars, Asked, Asking, Early
  <2>. QED BY <2>1, <2>2, <2>3, <2>4, <2>5, <2>6, <2>7, <1>7 DEF EngineSteps
<1>. QED BY <1>1, <1>2, <1>3, <1>4, <1>5, <1>6, <1>7, NextCases


\* A launch without an engine has cleared the mark or found none.
LEMMA BareBegins ==
    ASSUME Typed, NEW k \in Launcher, [Next]_vars
    PROVE  Bare(k) \/ ~Bare(k)' \/ ~mem'.mark
<1>1. CASE UNCHANGED vars
  BY <1>1, TypedParts DEF vars, histVars, Bare, Unborn
<1>2. CASE StartSteps
  <2>1. CASE StartCalled
    BY <2>1, TypedParts, StartCalledDoes DEF elsewhere, Begun, Bare, Unborn
  <2>2. CASE HookDone
    BY <2>2, TypedParts, HookDoneDoes DEF elsewhere, Registered, histVars, Bare, Unborn
  <2>3. CASE ReapEnds
    BY <2>3, TypedParts, ReapEndsDoes DEF elsewhere, histVars, Bare, Unborn
  <2>. QED BY <2>1, <2>2, <2>3, <1>2 DEF StartSteps
<1>3. ASSUME NEW l \in Launcher, LaunchSteps(l)
      PROVE  Bare(k) \/ ~Bare(k)' \/ ~mem'.mark
  <2>1. CASE FenceOpens(l)
    <3>1. CASE l = Start
      BY <2>1, <3>1, TypedParts, FenceOpensDoes DEF elsewhere, histVars, Bare, Unborn
    <3>2. CASE l # Start
      BY <2>1, <3>2, TypedParts, FenceOpensDoes DEF Registered, elsewhere, histVars, Bare, Unborn
    <3>. QED BY <3>1, <3>2
  <2>2. CASE FenceRefuses(l)
    BY <2>2, TypedParts, FenceRefusesDoes DEF elsewhere, Bare, Unborn
  <2>3. CASE WriteSettles(l)
    BY <2>3, TypedParts, WriteSettlesDoes DEF elsewhere, histVars, Bare, Unborn
  <2>4. CASE WriteFails(l)
    BY <2>4, TypedParts, WriteFailsDoes DEF elsewhere, Bare, Unborn
  <2>5. CASE InitResolves(l)
    BY <2>5, TypedParts, InitResolvesDoes DEF elsewhere, histVars, Bare, Unborn
  <2>6. CASE InitRejects(l)
    BY <2>6, TypedParts, InitRejectsDoes DEF elsewhere, Bare, Unborn
  <2>7. CASE InitTimesOut(l)
    BY <2>7, TypedParts, InitTimesOutDoes DEF elsewhere, histVars, Bare, Unborn
  <2>8. CASE LateKillEnds(l)
    BY <2>8, TypedParts, LateKillEndsDoes DEF elsewhere, Bare, Unborn
  <2>9. CASE RowRead(l)
    BY <2>9, TypedParts, RowReadDoes DEF elsewhere, Bare, Unborn
  <2>10. CASE RetireEnds(l) \/ RetireTimesOut(l)
    BY <2>10, TypedParts, RetireEndsDoes DEF elsewhere, histVars, Bare, Unborn
  <2>11. CASE Repurged(l)
    BY <2>11, TypedParts, RepurgedDoes DEF elsewhere, histVars, Bare, Unborn
  <2>12. CASE OldEngineGone(l)
    BY <2>12, TypedParts, OldEngineGoneDoes DEF elsewhere, histVars, Bare, Unborn
  <2>13. CASE DestroyTimesOut(l)
    BY <2>13, TypedParts, DestroyTimesOutDoes DEF elsewhere, histVars, Bare, Unborn
  <2>. QED BY <2>1, <2>2, <2>3, <2>4, <2>5, <2>6, <2>7, <2>8, <2>9, <2>10, <2>11, <2>12, <2>13, <1>3 DEF LaunchSteps
<1>4. ASSUME NEW l \in Attempt, TimerFires(l)
      PROVE  Bare(k) \/ ~Bare(k)' \/ ~mem'.mark
  BY <1>4, TypedParts, TimerFiresDoes DEF elsewhere, Begun, Registered, Bare, Unborn
<1>5. ASSUME NEW q \in Request, NEW kind \in Kinds, CallMade(q, kind)
      PROVE  Bare(k) \/ ~Bare(k)' \/ ~mem'.mark
  <2>1. CASE kind \in {"stop", "delete"} /\ Called(q, kind)
    BY <1>5, <2>1, TypedParts, CalledDoes DEF CallMade, Bare, Unborn
  <2>2. CASE kind \in {"logout", "kill"} /\ EngineCalled(q, kind)
    BY <1>5, <2>2, TypedParts, EngineCalledDoes DEF CallMade, Bare, Unborn
  <2>. QED BY <2>1, <2>2, <1>5 DEF CallMade
<1>6. ASSUME NEW q \in Request, RequestSteps(q)
      PROVE  Bare(k) \/ ~Bare(k)' \/ ~mem'.mark
  <2>1. CASE StopCaptures(q)
    BY <2>1, TypedParts, StopCapturesDoes DEF histVars, Bare, Unborn
  <2>2. CASE WaitEnds(q)
    BY <2>2, TypedParts, WaitEndsDoes DEF histVars, Bare, Unborn
  <2>3. CASE StopCloses(q) \/ LogoutReturns(q) \/ KillEnds(q)
    BY <2>3, TypedParts, ClosesDoes DEF histVars, Bare, Unborn
  <2>4. CASE LogoutOverruns(q)
    BY <2>4, TypedParts, LogoutOverrunsDoes DEF histVars, Bare, Unborn
  <2>5. CASE StopEscalates(q)
    BY <2>5, TypedParts, StopEscalatesDoes DEF histVars, Bare, Unborn
  <2>6. CASE DeleteEnters(q)
    BY <2>6, TypedParts, DeleteEntersDoes DEF DeleteStarts, histVars, Bare, Unborn
  <2>7. CASE DeleteFenceOpens(q)
    BY <2>7, TypedParts, DeleteFenceOpensDoes DEF DeleteStarts, histVars, Bare, Unborn
  <2>8. CASE DeleteRefused(q)
    BY <2>8, TypedParts, DeleteRefusedDoes DEF Bare, Unborn
  <2>9. CASE RowDeleted(q)
    BY <2>9, TypedParts, RowDeletedDoes DEF histVars, Bare, Unborn
  <2>10. CASE NotFound(q) \/ DeleteFails(q) \/ Purged(q)
    BY <2>10, TypedParts, UnmarksDoes DEF histVars, Bare, Unborn
  <2>. QED BY <2>1, <2>2, <2>3, <2>4, <2>5, <2>6, <2>7, <2>8, <2>9, <2>10, <1>6 DEF RequestSteps
<1>7. ASSUME NEW e \in Engine, EngineSteps(e)
      PROVE  Bare(k) \/ ~Bare(k)' \/ ~mem'.mark
  <2>1. CASE KillLands(e) \/ LeakEnds(e)
    BY <2>1, TypedParts, KillLandsDoes DEF others, histVars, Bare, Unborn
  <2>2. CASE RemovalSettles(e)
    BY <2>2, TypedParts DEF RemovalSettles, others, histVars, Bare, Unborn
  <2>3. CASE EngineReady(e) \/ EngineWedges(e)
    BY <2>3, TypedParts, EngineRunsDoes DEF others, histVars, Bare, Unborn
  <2>4. CASE EngineDrops(e) \/ EngineUnlinked(e) \/ EngineFails(e) \/ StuckAuth(e) \/ WipeLands(e)
    BY <2>4, TypedParts, EngineEndsDoes DEF others, histVars, Bare, Unborn
  <2>5. CASE ProbeFails(e) \/ ProbePasses
    BY <2>5, TypedParts, ProbesDoes DEF others, histVars, Bare, Unborn
  <2>6. CASE DropHandled(e)
    BY <2>6, TypedParts, DropHandledDoes DEF Bare, Unborn
  <2>7. CASE DropUnread(e)
    BY <2>7, TypedParts, DropUnreadDoes DEF others, histVars, Bare, Unborn
  <2>. QED BY <2>1, <2>2, <2>3, <2>4, <2>5, <2>6, <2>7, <1>7 DEF EngineSteps
<1>. QED BY <1>1, <1>2, <1>3, <1>4, <1>5, <1>6, <1>7, NextCases


\* The guard after the initialisation tears down a retired session's engine.
LEMMA RetiringBegins ==
    ASSUME Typed, NEW k \in Launcher, [Next]_vars
    PROVE  \/ launch'[k].at # "retiring" \/ launch'[k] = launch[k]
           \/ launch[k].at \in {"writing", "initializing", "checking"} /\ (mem.mark \/ ~row)
<1>1. CASE UNCHANGED vars
  BY <1>1, TypedParts DEF vars, histVars
<1>2. CASE StartSteps
  <2>1. CASE StartCalled
    BY <2>1, TypedParts, StartCalledDoes DEF elsewhere, Begun
  <2>2. CASE HookDone
    BY <2>2, TypedParts, HookDoneDoes DEF elsewhere, Registered, histVars
  <2>3. CASE ReapEnds
    BY <2>3, TypedParts, ReapEndsDoes DEF elsewhere, histVars
  <2>. QED BY <2>1, <2>2, <2>3, <1>2 DEF StartSteps
<1>3. ASSUME NEW l \in Launcher, LaunchSteps(l)
      PROVE  \/ launch'[k].at # "retiring" \/ launch'[k] = launch[k]
             \/ launch[k].at \in {"writing", "initializing", "checking"} /\ (mem.mark \/ ~row)
  <2>1. CASE FenceOpens(l)
    <3>1. CASE l = Start
      BY <2>1, <3>1, TypedParts, FenceOpensDoes DEF elsewhere, histVars
    <3>2. CASE l # Start
      BY <2>1, <3>2, TypedParts, FenceOpensDoes DEF Registered, elsewhere, histVars
    <3>. QED BY <3>1, <3>2
  <2>2. CASE FenceRefuses(l)
    BY <2>2, TypedParts, FenceRefusesDoes DEF elsewhere
  <2>3. CASE WriteSettles(l)
    BY <2>3, TypedParts, WriteSettlesDoes DEF elsewhere, histVars
  <2>4. CASE WriteFails(l)
    BY <2>4, TypedParts, WriteFailsDoes DEF elsewhere
  <2>5. CASE InitResolves(l)
    BY <2>5, TypedParts, InitResolvesDoes DEF elsewhere, histVars
  <2>6. CASE InitRejects(l)
    BY <2>6, TypedParts, InitRejectsDoes DEF elsewhere
  <2>7. CASE InitTimesOut(l)
    BY <2>7, TypedParts, InitTimesOutDoes DEF elsewhere, histVars
  <2>8. CASE LateKillEnds(l)
    BY <2>8, TypedParts, LateKillEndsDoes DEF elsewhere
  <2>9. CASE RowRead(l)
    BY <2>9, TypedParts, RowReadDoes DEF elsewhere
  <2>10. CASE RetireEnds(l) \/ RetireTimesOut(l)
    BY <2>10, TypedParts, RetireEndsDoes DEF elsewhere, histVars
  <2>11. CASE Repurged(l)
    BY <2>11, TypedParts, RepurgedDoes DEF elsewhere, histVars
  <2>12. CASE OldEngineGone(l)
    BY <2>12, TypedParts, OldEngineGoneDoes DEF elsewhere, histVars
  <2>13. CASE DestroyTimesOut(l)
    BY <2>13, TypedParts, DestroyTimesOutDoes DEF elsewhere, histVars
  <2>. QED BY <2>1, <2>2, <2>3, <2>4, <2>5, <2>6, <2>7, <2>8, <2>9, <2>10, <2>11, <2>12, <2>13, <1>3 DEF LaunchSteps
<1>4. ASSUME NEW l \in Attempt, TimerFires(l)
      PROVE  \/ launch'[k].at # "retiring" \/ launch'[k] = launch[k]
             \/ launch[k].at \in {"writing", "initializing", "checking"} /\ (mem.mark \/ ~row)
  BY <1>4, TypedParts, TimerFiresDoes DEF elsewhere, Begun, Registered
<1>5. ASSUME NEW q \in Request, NEW kind \in Kinds, CallMade(q, kind)
      PROVE  \/ launch'[k].at # "retiring" \/ launch'[k] = launch[k]
             \/ launch[k].at \in {"writing", "initializing", "checking"} /\ (mem.mark \/ ~row)
  <2>1. CASE kind \in {"stop", "delete"} /\ Called(q, kind)
    BY <1>5, <2>1, TypedParts, CalledDoes DEF CallMade
  <2>2. CASE kind \in {"logout", "kill"} /\ EngineCalled(q, kind)
    BY <1>5, <2>2, TypedParts, EngineCalledDoes DEF CallMade
  <2>. QED BY <2>1, <2>2, <1>5 DEF CallMade
<1>6. ASSUME NEW q \in Request, RequestSteps(q)
      PROVE  \/ launch'[k].at # "retiring" \/ launch'[k] = launch[k]
             \/ launch[k].at \in {"writing", "initializing", "checking"} /\ (mem.mark \/ ~row)
  <2>1. CASE StopCaptures(q)
    BY <2>1, TypedParts, StopCapturesDoes DEF histVars
  <2>2. CASE WaitEnds(q)
    BY <2>2, TypedParts, WaitEndsDoes DEF histVars
  <2>3. CASE StopCloses(q) \/ LogoutReturns(q) \/ KillEnds(q)
    BY <2>3, TypedParts, ClosesDoes DEF histVars
  <2>4. CASE LogoutOverruns(q)
    BY <2>4, TypedParts, LogoutOverrunsDoes DEF histVars
  <2>5. CASE StopEscalates(q)
    BY <2>5, TypedParts, StopEscalatesDoes DEF histVars
  <2>6. CASE DeleteEnters(q)
    BY <2>6, TypedParts, DeleteEntersDoes DEF DeleteStarts, histVars
  <2>7. CASE DeleteFenceOpens(q)
    BY <2>7, TypedParts, DeleteFenceOpensDoes DEF DeleteStarts, histVars
  <2>8. CASE DeleteRefused(q)
    BY <2>8, TypedParts, DeleteRefusedDoes
  <2>9. CASE RowDeleted(q)
    BY <2>9, TypedParts, RowDeletedDoes DEF histVars
  <2>10. CASE NotFound(q) \/ DeleteFails(q) \/ Purged(q)
    BY <2>10, TypedParts, UnmarksDoes DEF histVars
  <2>. QED BY <2>1, <2>2, <2>3, <2>4, <2>5, <2>6, <2>7, <2>8, <2>9, <2>10, <1>6 DEF RequestSteps
<1>7. ASSUME NEW e \in Engine, EngineSteps(e)
      PROVE  \/ launch'[k].at # "retiring" \/ launch'[k] = launch[k]
             \/ launch[k].at \in {"writing", "initializing", "checking"} /\ (mem.mark \/ ~row)
  <2>1. CASE KillLands(e) \/ LeakEnds(e)
    BY <2>1, TypedParts, KillLandsDoes DEF others, histVars
  <2>2. CASE RemovalSettles(e)
    BY <2>2, TypedParts DEF RemovalSettles, others, histVars
  <2>3. CASE EngineReady(e) \/ EngineWedges(e)
    BY <2>3, TypedParts, EngineRunsDoes DEF others, histVars
  <2>4. CASE EngineDrops(e) \/ EngineUnlinked(e) \/ EngineFails(e) \/ StuckAuth(e) \/ WipeLands(e)
    BY <2>4, TypedParts, EngineEndsDoes DEF others, histVars
  <2>5. CASE ProbeFails(e) \/ ProbePasses
    BY <2>5, TypedParts, ProbesDoes DEF others, histVars
  <2>6. CASE DropHandled(e)
    BY <2>6, TypedParts, DropHandledDoes
  <2>7. CASE DropUnread(e)
    BY <2>7, TypedParts, DropUnreadDoes DEF others, histVars
  <2>. QED BY <2>1, <2>2, <2>3, <2>4, <2>5, <2>6, <2>7, <1>7 DEF EngineSteps
<1>. QED BY <1>1, <1>2, <1>3, <1>4, <1>5, <1>6, <1>7, NextCases


\* start() comes to its fence only as it is called.
LEMMA FencedBegins ==
    ASSUME Typed, [Next]_vars
    PROVE  \/ launch'[Start].at # "fenced" \/ launch'[Start] = launch[Start]
           \/ Begun /\ mem' = mem /\ mem.registry = NoEngine /\ request' = request
<1>1. CASE UNCHANGED vars
  BY <1>1, TypedParts DEF vars, histVars
<1>2. CASE StartSteps
  <2>1. CASE StartCalled
    BY <2>1, TypedParts, StartCalledDoes DEF elsewhere, Begun
  <2>2. CASE HookDone
    BY <2>2, TypedParts, HookDoneDoes DEF elsewhere, Registered, histVars
  <2>3. CASE ReapEnds
    BY <2>3, TypedParts, ReapEndsDoes DEF elsewhere, histVars
  <2>. QED BY <2>1, <2>2, <2>3, <1>2 DEF StartSteps
<1>3. ASSUME NEW l \in Launcher, LaunchSteps(l)
      PROVE  \/ launch'[Start].at # "fenced" \/ launch'[Start] = launch[Start]
             \/ Begun /\ mem' = mem /\ mem.registry = NoEngine /\ request' = request
  <2>1. CASE FenceOpens(l)
    <3>1. CASE l = Start
      BY <2>1, <3>1, TypedParts, FenceOpensDoes DEF elsewhere, histVars
    <3>2. CASE l # Start
      BY <2>1, <3>2, TypedParts, FenceOpensDoes DEF Registered, elsewhere, histVars
    <3>. QED BY <3>1, <3>2
  <2>2. CASE FenceRefuses(l)
    BY <2>2, TypedParts, FenceRefusesDoes DEF elsewhere
  <2>3. CASE WriteSettles(l)
    BY <2>3, TypedParts, WriteSettlesDoes DEF elsewhere, histVars
  <2>4. CASE WriteFails(l)
    BY <2>4, TypedParts, WriteFailsDoes DEF elsewhere
  <2>5. CASE InitResolves(l)
    BY <2>5, TypedParts, InitResolvesDoes DEF elsewhere, histVars
  <2>6. CASE InitRejects(l)
    BY <2>6, TypedParts, InitRejectsDoes DEF elsewhere
  <2>7. CASE InitTimesOut(l)
    BY <2>7, TypedParts, InitTimesOutDoes DEF elsewhere, histVars
  <2>8. CASE LateKillEnds(l)
    BY <2>8, TypedParts, LateKillEndsDoes DEF elsewhere
  <2>9. CASE RowRead(l)
    BY <2>9, TypedParts, RowReadDoes DEF elsewhere
  <2>10. CASE RetireEnds(l) \/ RetireTimesOut(l)
    BY <2>10, TypedParts, RetireEndsDoes DEF elsewhere, histVars
  <2>11. CASE Repurged(l)
    BY <2>11, TypedParts, RepurgedDoes DEF elsewhere, histVars
  <2>12. CASE OldEngineGone(l)
    BY <2>12, TypedParts, OldEngineGoneDoes DEF elsewhere, histVars
  <2>13. CASE DestroyTimesOut(l)
    BY <2>13, TypedParts, DestroyTimesOutDoes DEF elsewhere, histVars
  <2>. QED BY <2>1, <2>2, <2>3, <2>4, <2>5, <2>6, <2>7, <2>8, <2>9, <2>10, <2>11, <2>12, <2>13, <1>3 DEF LaunchSteps
<1>4. ASSUME NEW l \in Attempt, TimerFires(l)
      PROVE  \/ launch'[Start].at # "fenced" \/ launch'[Start] = launch[Start]
             \/ Begun /\ mem' = mem /\ mem.registry = NoEngine /\ request' = request
  BY <1>4, TypedParts, TimerFiresDoes DEF elsewhere, Begun, Registered
<1>5. ASSUME NEW q \in Request, NEW kind \in Kinds, CallMade(q, kind)
      PROVE  \/ launch'[Start].at # "fenced" \/ launch'[Start] = launch[Start]
             \/ Begun /\ mem' = mem /\ mem.registry = NoEngine /\ request' = request
  <2>1. CASE kind \in {"stop", "delete"} /\ Called(q, kind)
    BY <1>5, <2>1, TypedParts, CalledDoes DEF CallMade
  <2>2. CASE kind \in {"logout", "kill"} /\ EngineCalled(q, kind)
    BY <1>5, <2>2, TypedParts, EngineCalledDoes DEF CallMade
  <2>. QED BY <2>1, <2>2, <1>5 DEF CallMade
<1>6. ASSUME NEW q \in Request, RequestSteps(q)
      PROVE  \/ launch'[Start].at # "fenced" \/ launch'[Start] = launch[Start]
             \/ Begun /\ mem' = mem /\ mem.registry = NoEngine /\ request' = request
  <2>1. CASE StopCaptures(q)
    BY <2>1, TypedParts, StopCapturesDoes DEF histVars
  <2>2. CASE WaitEnds(q)
    BY <2>2, TypedParts, WaitEndsDoes DEF histVars
  <2>3. CASE StopCloses(q) \/ LogoutReturns(q) \/ KillEnds(q)
    BY <2>3, TypedParts, ClosesDoes DEF histVars
  <2>4. CASE LogoutOverruns(q)
    BY <2>4, TypedParts, LogoutOverrunsDoes DEF histVars
  <2>5. CASE StopEscalates(q)
    BY <2>5, TypedParts, StopEscalatesDoes DEF histVars
  <2>6. CASE DeleteEnters(q)
    BY <2>6, TypedParts, DeleteEntersDoes DEF DeleteStarts, histVars
  <2>7. CASE DeleteFenceOpens(q)
    BY <2>7, TypedParts, DeleteFenceOpensDoes DEF DeleteStarts, histVars
  <2>8. CASE DeleteRefused(q)
    BY <2>8, TypedParts, DeleteRefusedDoes
  <2>9. CASE RowDeleted(q)
    BY <2>9, TypedParts, RowDeletedDoes DEF histVars
  <2>10. CASE NotFound(q) \/ DeleteFails(q) \/ Purged(q)
    BY <2>10, TypedParts, UnmarksDoes DEF histVars
  <2>. QED BY <2>1, <2>2, <2>3, <2>4, <2>5, <2>6, <2>7, <2>8, <2>9, <2>10, <1>6 DEF RequestSteps
<1>7. ASSUME NEW e \in Engine, EngineSteps(e)
      PROVE  \/ launch'[Start].at # "fenced" \/ launch'[Start] = launch[Start]
             \/ Begun /\ mem' = mem /\ mem.registry = NoEngine /\ request' = request
  <2>1. CASE KillLands(e) \/ LeakEnds(e)
    BY <2>1, TypedParts, KillLandsDoes DEF others, histVars
  <2>2. CASE RemovalSettles(e)
    BY <2>2, TypedParts DEF RemovalSettles, others, histVars
  <2>3. CASE EngineReady(e) \/ EngineWedges(e)
    BY <2>3, TypedParts, EngineRunsDoes DEF others, histVars
  <2>4. CASE EngineDrops(e) \/ EngineUnlinked(e) \/ EngineFails(e) \/ StuckAuth(e) \/ WipeLands(e)
    BY <2>4, TypedParts, EngineEndsDoes DEF others, histVars
  <2>5. CASE ProbeFails(e) \/ ProbePasses
    BY <2>5, TypedParts, ProbesDoes DEF others, histVars
  <2>6. CASE DropHandled(e)
    BY <2>6, TypedParts, DropHandledDoes
  <2>7. CASE DropUnread(e)
    BY <2>7, TypedParts, DropUnreadDoes DEF others, histVars
  <2>. QED BY <2>1, <2>2, <2>3, <2>4, <2>5, <2>6, <2>7, <1>7 DEF EngineSteps
<1>. QED BY <1>1, <1>2, <1>3, <1>4, <1>5, <1>6, <1>7, NextCases


\* Who takes an engine out of the registry resumes or has no state to resume
\* with: calls and retiring launches are another matter.
LEMMA RegistryEmpties ==
    ASSUME Typed, [Next]_vars
    PROVE  \/ mem.registry = NoEngine \/ mem'.registry # NoEngine
           \/ ~mem'.recon.kept \/ mem'.recon.armed \/ Resuming'
           \/ \E r \in Request : Captured(r)
           \/ \E k \in Launcher : launch[k].at = "retiring"
<1>1. CASE UNCHANGED vars
  BY <1>1, TypedParts, ReconConstants DEF vars, histVars, Resuming, Resumes, Captured
<1>2. CASE StartSteps
  <2>1. CASE StartCalled
    BY <2>1, TypedParts, ReconConstants, StartCalledDoes DEF elsewhere, Begun, Resuming, Resumes, Captured
  <2>2. CASE HookDone
    BY <2>2, TypedParts, ReconConstants, HookDoneDoes DEF elsewhere, Registered, histVars, Resuming, Resumes, Captured
  <2>3. CASE ReapEnds
    BY <2>3, TypedParts, ReconConstants, ReapEndsDoes DEF elsewhere, histVars, Resuming, Resumes, Captured
  <2>. QED BY <2>1, <2>2, <2>3, <1>2 DEF StartSteps
<1>3. ASSUME NEW l \in Launcher, LaunchSteps(l)
      PROVE  \/ mem.registry = NoEngine \/ mem'.registry # NoEngine
             \/ ~mem'.recon.kept \/ mem'.recon.armed \/ Resuming'
             \/ \E r \in Request : Captured(r)
             \/ \E k \in Launcher : launch[k].at = "retiring"
  <2>1. CASE FenceOpens(l)
    <3>1. CASE l = Start
      BY <2>1, <3>1, TypedParts, FenceOpensDoes, ReconConstants DEF elsewhere, histVars, Resuming, Resumes
    <3>2. CASE l # Start
      <4>1. PICK e \in Engine :
              /\ launch[l].at = "fenced" /\ Now(mem', e, mem.mark, mem.recon, e, mem.dying)
              /\ LaunchAs(l, "writing", e, NoEngine, {}) /\ l \in Attempt
        <5>1. launch[l].at = "fenced" /\ l \in Attempt /\ Registered(l, mem, mem.mark, mem.recon)
          BY <2>1, <3>2, FenceOpensDoes
        <5>. QED BY <5>1 DEF Registered
      <4>. QED BY <2>1, <3>2, <4>1, TypedParts, ReconConstants DEF Resuming, Resumes
    <3>. QED BY <3>1, <3>2
  <2>2. CASE FenceRefuses(l)
    BY <2>2, TypedParts, ReconConstants, FenceRefusesDoes DEF elsewhere, Resuming, Resumes, Captured
  <2>3. CASE WriteSettles(l)
    BY <2>3, TypedParts, ReconConstants, WriteSettlesDoes DEF elsewhere, histVars, Resuming, Resumes, Captured
  <2>4. CASE WriteFails(l)
    BY <2>4, TypedParts, ReconConstants, WriteFailsDoes DEF elsewhere, Resuming, Resumes, Captured
  <2>5. CASE InitResolves(l)
    BY <2>5, TypedParts, ReconConstants, InitResolvesDoes DEF elsewhere, histVars, Resuming, Resumes, Captured
  <2>6. CASE InitRejects(l)
    BY <2>6, TypedParts, ReconConstants, InitRejectsDoes DEF elsewhere, Resuming, Resumes, Captured
  <2>7. CASE InitTimesOut(l)
    BY <2>7, TypedParts, ReconConstants, InitTimesOutDoes DEF elsewhere, histVars, Resuming, Resumes, Captured
  <2>8. CASE LateKillEnds(l)
    BY <2>8, TypedParts, ReconConstants, LateKillEndsDoes DEF elsewhere, Resuming, Resumes, Captured
  <2>9. CASE RowRead(l)
    BY <2>9, TypedParts, ReconConstants, RowReadDoes DEF elsewhere, Resuming, Resumes, Captured
  <2>10. CASE RetireEnds(l) \/ RetireTimesOut(l)
    BY <2>10, TypedParts, ReconConstants, RetireEndsDoes DEF elsewhere, histVars, Resuming, Resumes, Captured
  <2>11. CASE Repurged(l)
    BY <2>11, TypedParts, ReconConstants, RepurgedDoes DEF elsewhere, histVars, Resuming, Resumes, Captured
  <2>12. CASE OldEngineGone(l)
    BY <2>12, TypedParts, ReconConstants, OldEngineGoneDoes DEF elsewhere, histVars, Resuming, Resumes, Captured
  <2>13. CASE DestroyTimesOut(l)
    BY <2>13, TypedParts, ReconConstants, DestroyTimesOutDoes DEF elsewhere, histVars, Resuming, Resumes, Captured
  <2>. QED BY <2>1, <2>2, <2>3, <2>4, <2>5, <2>6, <2>7, <2>8, <2>9, <2>10, <2>11, <2>12, <2>13, <1>3 DEF LaunchSteps
<1>4. ASSUME NEW l \in Attempt, TimerFires(l)
      PROVE  \/ mem.registry = NoEngine \/ mem'.registry # NoEngine
             \/ ~mem'.recon.kept \/ mem'.recon.armed \/ Resuming'
             \/ \E r \in Request : Captured(r)
             \/ \E k \in Launcher : launch[k].at = "retiring"
  BY <1>4, TypedParts, ReconConstants, TimerFiresDoes DEF elsewhere, Begun, Registered, Resuming, Resumes, Captured
<1>5. ASSUME NEW q \in Request, NEW kind \in Kinds, CallMade(q, kind)
      PROVE  \/ mem.registry = NoEngine \/ mem'.registry # NoEngine
             \/ ~mem'.recon.kept \/ mem'.recon.armed \/ Resuming'
             \/ \E r \in Request : Captured(r)
             \/ \E k \in Launcher : launch[k].at = "retiring"
  <2>1. CASE kind \in {"stop", "delete"} /\ Called(q, kind)
    BY <1>5, <2>1, TypedParts, ReconConstants, CalledDoes DEF CallMade, Resuming, Resumes, Captured
  <2>2. CASE kind \in {"logout", "kill"} /\ EngineCalled(q, kind)
    BY <1>5, <2>2, TypedParts, ReconConstants, EngineCalledDoes DEF CallMade, Resuming, Resumes, Captured
  <2>. QED BY <2>1, <2>2, <1>5 DEF CallMade
<1>6. ASSUME NEW q \in Request, RequestSteps(q)
      PROVE  \/ mem.registry = NoEngine \/ mem'.registry # NoEngine
             \/ ~mem'.recon.kept \/ mem'.recon.armed \/ Resuming'
             \/ \E r \in Request : Captured(r)
             \/ \E k \in Launcher : launch[k].at = "retiring"
  <2>1. CASE StopCaptures(q)
    BY <2>1, TypedParts, ReconConstants, StopCapturesDoes DEF histVars, Resuming, Resumes, Captured
  <2>2. CASE WaitEnds(q)
    BY <2>2, TypedParts, ReconConstants, WaitEndsDoes DEF histVars, Resuming, Resumes, Captured
  <2>3. CASE StopCloses(q) \/ LogoutReturns(q) \/ KillEnds(q)
    BY <2>3, TypedParts, ReconConstants, ClosesDoes DEF histVars, Resuming, Resumes, Captured
  <2>4. CASE LogoutOverruns(q)
    BY <2>4, TypedParts, ReconConstants, LogoutOverrunsDoes DEF histVars, Resuming, Resumes, Captured
  <2>5. CASE StopEscalates(q)
    BY <2>5, TypedParts, ReconConstants, StopEscalatesDoes DEF histVars, Resuming, Resumes, Captured
  <2>6. CASE DeleteEnters(q)
    BY <2>6, TypedParts, ReconConstants, DeleteEntersDoes DEF DeleteStarts, histVars, Resuming, Resumes, Captured
  <2>7. CASE DeleteFenceOpens(q)
    BY <2>7, TypedParts, ReconConstants, DeleteFenceOpensDoes DEF DeleteStarts, histVars, Resuming, Resumes, Captured
  <2>8. CASE DeleteRefused(q)
    BY <2>8, TypedParts, ReconConstants, DeleteRefusedDoes DEF Resuming, Resumes, Captured
  <2>9. CASE RowDeleted(q)
    BY <2>9, TypedParts, ReconConstants, RowDeletedDoes DEF histVars, Resuming, Resumes, Captured
  <2>10. CASE NotFound(q) \/ DeleteFails(q) \/ Purged(q)
    BY <2>10, TypedParts, ReconConstants, UnmarksDoes DEF histVars, Resuming, Resumes, Captured
  <2>. QED BY <2>1, <2>2, <2>3, <2>4, <2>5, <2>6, <2>7, <2>8, <2>9, <2>10, <1>6 DEF RequestSteps
<1>7. ASSUME NEW e \in Engine, EngineSteps(e)
      PROVE  \/ mem.registry = NoEngine \/ mem'.registry # NoEngine
             \/ ~mem'.recon.kept \/ mem'.recon.armed \/ Resuming'
             \/ \E r \in Request : Captured(r)
             \/ \E k \in Launcher : launch[k].at = "retiring"
  <2>1. CASE KillLands(e) \/ LeakEnds(e)
    BY <2>1, TypedParts, ReconConstants, KillLandsDoes DEF others, histVars, Resuming, Resumes, Captured
  <2>2. CASE RemovalSettles(e)
    BY <2>2, TypedParts, ReconConstants DEF RemovalSettles, others, histVars, Resuming, Resumes, Captured
  <2>3. CASE EngineReady(e) \/ EngineWedges(e)
    BY <2>3, TypedParts, ReconConstants, EngineRunsDoes DEF others, histVars, Resuming, Resumes, Captured
  <2>4. CASE EngineDrops(e) \/ EngineUnlinked(e) \/ EngineFails(e) \/ StuckAuth(e) \/ WipeLands(e)
    BY <2>4, TypedParts, ReconConstants, EngineEndsDoes DEF others, histVars, Resuming, Resumes, Captured
  <2>5. CASE ProbeFails(e) \/ ProbePasses
    BY <2>5, TypedParts, ReconConstants, ProbesDoes DEF others, histVars, Resuming, Resumes, Captured
  <2>6. CASE DropHandled(e)
    BY <2>6, TypedParts, ReconConstants, DropHandledDoes DEF Resuming, Resumes, Captured
  <2>7. CASE DropUnread(e)
    BY <2>7, TypedParts, ReconConstants, DropUnreadDoes DEF others, histVars, Resuming, Resumes, Captured
  <2>. QED BY <2>1, <2>2, <2>3, <2>4, <2>5, <2>6, <2>7, <1>7 DEF EngineSteps
<1>. QED BY <1>1, <1>2, <1>3, <1>4, <1>5, <1>6, <1>7, NextCases


\* A launch that resumes ends with a new engine, a timer or no state.
LEMMA ResumingEnds ==
    ASSUME Typed, NEW k \in Launcher, [Next]_vars
    PROVE  \/ ~Resumes(k) \/ Resumes(k)'
           \/ ~mem'.recon.kept \/ mem'.recon.armed \/ mem'.registry # NoEngine
<1>1. CASE UNCHANGED vars
  BY <1>1, TypedParts, ReconConstants DEF vars, histVars, Resumes
<1>2. CASE StartSteps
  <2>1. CASE StartCalled
    BY <2>1, TypedParts, ReconConstants, StartCalledDoes DEF elsewhere, Begun, Resumes
  <2>2. CASE HookDone
    BY <2>2, TypedParts, ReconConstants, HookDoneDoes DEF elsewhere, Registered, histVars, Resumes
  <2>3. CASE ReapEnds
    BY <2>3, TypedParts, ReconConstants, ReapEndsDoes DEF elsewhere, histVars, Resumes
  <2>. QED BY <2>1, <2>2, <2>3, <1>2 DEF StartSteps
<1>3. ASSUME NEW l \in Launcher, LaunchSteps(l)
      PROVE  \/ ~Resumes(k) \/ Resumes(k)'
             \/ ~mem'.recon.kept \/ mem'.recon.armed \/ mem'.registry # NoEngine
  <2>1. CASE FenceOpens(l)
    <3>1. CASE l = Start
      BY <2>1, <3>1, TypedParts, FenceOpensDoes, ReconConstants DEF elsewhere, histVars, Resumes
    <3>2. CASE l # Start
      <4>1. PICK e \in Engine :
              /\ launch[l].at = "fenced" /\ Now(mem', e, mem.mark, mem.recon, e, mem.dying)
              /\ LaunchAs(l, "writing", e, NoEngine, {}) /\ l \in Attempt
        <5>1. launch[l].at = "fenced" /\ l \in Attempt /\ Registered(l, mem, mem.mark, mem.recon)
          BY <2>1, <3>2, FenceOpensDoes
        <5>. QED BY <5>1 DEF Registered
      <4>. QED BY <2>1, <3>2, <4>1, TypedParts, ReconConstants DEF Resumes
    <3>. QED BY <3>1, <3>2
  <2>2. CASE FenceRefuses(l)
    BY <2>2, TypedParts, ReconConstants, FenceRefusesDoes DEF elsewhere, Resumes
  <2>3. CASE WriteSettles(l)
    BY <2>3, TypedParts, ReconConstants, WriteSettlesDoes DEF elsewhere, histVars, Resumes
  <2>4. CASE WriteFails(l)
    BY <2>4, TypedParts, ReconConstants, WriteFailsDoes DEF elsewhere, Resumes
  <2>5. CASE InitResolves(l)
    BY <2>5, TypedParts, ReconConstants, InitResolvesDoes DEF elsewhere, histVars, Resumes
  <2>6. CASE InitRejects(l)
    BY <2>6, TypedParts, ReconConstants, InitRejectsDoes DEF elsewhere, Resumes
  <2>7. CASE InitTimesOut(l)
    BY <2>7, TypedParts, ReconConstants, InitTimesOutDoes DEF elsewhere, histVars, Resumes
  <2>8. CASE LateKillEnds(l)
    BY <2>8, TypedParts, ReconConstants, LateKillEndsDoes DEF elsewhere, Resumes
  <2>9. CASE RowRead(l)
    BY <2>9, TypedParts, ReconConstants, RowReadDoes DEF elsewhere, Resumes
  <2>10. CASE RetireEnds(l) \/ RetireTimesOut(l)
    BY <2>10, TypedParts, ReconConstants, RetireEndsDoes DEF elsewhere, histVars, Resumes
  <2>11. CASE Repurged(l)
    BY <2>11, TypedParts, ReconConstants, RepurgedDoes DEF elsewhere, histVars, Resumes
  <2>12. CASE OldEngineGone(l)
    BY <2>12, TypedParts, ReconConstants, OldEngineGoneDoes DEF elsewhere, histVars, Resumes
  <2>13. CASE DestroyTimesOut(l)
    BY <2>13, TypedParts, ReconConstants, DestroyTimesOutDoes DEF elsewhere, histVars, Resumes
  <2>. QED BY <2>1, <2>2, <2>3, <2>4, <2>5, <2>6, <2>7, <2>8, <2>9, <2>10, <2>11, <2>12, <2>13, <1>3 DEF LaunchSteps
<1>4. ASSUME NEW l \in Attempt, TimerFires(l)
      PROVE  \/ ~Resumes(k) \/ Resumes(k)'
             \/ ~mem'.recon.kept \/ mem'.recon.armed \/ mem'.registry # NoEngine
  BY <1>4, TypedParts, ReconConstants, TimerFiresDoes DEF elsewhere, Begun, Registered, Resumes
<1>5. ASSUME NEW q \in Request, NEW kind \in Kinds, CallMade(q, kind)
      PROVE  \/ ~Resumes(k) \/ Resumes(k)'
             \/ ~mem'.recon.kept \/ mem'.recon.armed \/ mem'.registry # NoEngine
  <2>1. CASE kind \in {"stop", "delete"} /\ Called(q, kind)
    BY <1>5, <2>1, TypedParts, ReconConstants, CalledDoes DEF CallMade, Resumes
  <2>2. CASE kind \in {"logout", "kill"} /\ EngineCalled(q, kind)
    BY <1>5, <2>2, TypedParts, ReconConstants, EngineCalledDoes DEF CallMade, Resumes
  <2>. QED BY <2>1, <2>2, <1>5 DEF CallMade
<1>6. ASSUME NEW q \in Request, RequestSteps(q)
      PROVE  \/ ~Resumes(k) \/ Resumes(k)'
             \/ ~mem'.recon.kept \/ mem'.recon.armed \/ mem'.registry # NoEngine
  <2>1. CASE StopCaptures(q)
    BY <2>1, TypedParts, ReconConstants, StopCapturesDoes DEF histVars, Resumes
  <2>2. CASE WaitEnds(q)
    BY <2>2, TypedParts, ReconConstants, WaitEndsDoes DEF histVars, Resumes
  <2>3. CASE StopCloses(q) \/ LogoutReturns(q) \/ KillEnds(q)
    BY <2>3, TypedParts, ReconConstants, ClosesDoes DEF histVars, Resumes
  <2>4. CASE LogoutOverruns(q)
    BY <2>4, TypedParts, ReconConstants, LogoutOverrunsDoes DEF histVars, Resumes
  <2>5. CASE StopEscalates(q)
    BY <2>5, TypedParts, ReconConstants, StopEscalatesDoes DEF histVars, Resumes
  <2>6. CASE DeleteEnters(q)
    BY <2>6, TypedParts, ReconConstants, DeleteEntersDoes DEF DeleteStarts, histVars, Resumes
  <2>7. CASE DeleteFenceOpens(q)
    BY <2>7, TypedParts, ReconConstants, DeleteFenceOpensDoes DEF DeleteStarts, histVars, Resumes
  <2>8. CASE DeleteRefused(q)
    BY <2>8, TypedParts, ReconConstants, DeleteRefusedDoes DEF Resumes
  <2>9. CASE RowDeleted(q)
    BY <2>9, TypedParts, ReconConstants, RowDeletedDoes DEF histVars, Resumes
  <2>10. CASE NotFound(q) \/ DeleteFails(q) \/ Purged(q)
    BY <2>10, TypedParts, ReconConstants, UnmarksDoes DEF histVars, Resumes
  <2>. QED BY <2>1, <2>2, <2>3, <2>4, <2>5, <2>6, <2>7, <2>8, <2>9, <2>10, <1>6 DEF RequestSteps
<1>7. ASSUME NEW e \in Engine, EngineSteps(e)
      PROVE  \/ ~Resumes(k) \/ Resumes(k)'
             \/ ~mem'.recon.kept \/ mem'.recon.armed \/ mem'.registry # NoEngine
  <2>1. CASE KillLands(e) \/ LeakEnds(e)
    BY <2>1, TypedParts, ReconConstants, KillLandsDoes DEF others, histVars, Resumes
  <2>2. CASE RemovalSettles(e)
    BY <2>2, TypedParts, ReconConstants DEF RemovalSettles, others, histVars, Resumes
  <2>3. CASE EngineReady(e) \/ EngineWedges(e)
    BY <2>3, TypedParts, ReconConstants, EngineRunsDoes DEF others, histVars, Resumes
  <2>4. CASE EngineDrops(e) \/ EngineUnlinked(e) \/ EngineFails(e) \/ StuckAuth(e) \/ WipeLands(e)
    BY <2>4, TypedParts, ReconConstants, EngineEndsDoes DEF others, histVars, Resumes
  <2>5. CASE ProbeFails(e) \/ ProbePasses
    BY <2>5, TypedParts, ReconConstants, ProbesDoes DEF others, histVars, Resumes
  <2>6. CASE DropHandled(e)
    BY <2>6, TypedParts, ReconConstants, DropHandledDoes DEF Resumes
  <2>7. CASE DropUnread(e)
    BY <2>7, TypedParts, ReconConstants, DropUnreadDoes DEF others, histVars, Resumes
  <2>. QED BY <2>1, <2>2, <2>3, <2>4, <2>5, <2>6, <2>7, <1>7 DEF EngineSteps
<1>. QED BY <1>1, <1>2, <1>3, <1>4, <1>5, <1>6, <1>7, NextCases


\* A timer that fires is followed by a launch, unless a stop was marked.
LEMMA ArmedFalls ==
    ASSUME Typed, [Next]_vars
    PROVE  \/ ~mem.recon.armed \/ mem'.recon.armed \/ ~mem'.recon.kept
           \/ mem.mark /\ launch' = launch
           \/ launch[Start].at = "hook" /\ launch'[Start].at = "writing" /\ mem'.registry # NoEngine
           \/ /\ Begun
              /\ \E k \in Attempt : \/ launch'[k].at = "fenced" /\ mem'.registry = NoEngine
                                    \/ launch'[k].at = "destroying"
                                    \/ launch'[k].at = "writing" /\ mem'.registry # NoEngine
<1>1. CASE UNCHANGED vars
  BY <1>1, TypedParts, ReconConstants DEF vars, histVars
<1>2. CASE StartSteps
  <2>1. CASE StartCalled
    BY <2>1, TypedParts, ReconConstants, StartCalledDoes DEF elsewhere, Begun
  <2>2. CASE HookDone
    BY <2>2, TypedParts, HookDoneDoes DEF Registered
  <2>3. CASE ReapEnds
    BY <2>3, TypedParts, ReconConstants, ReapEndsDoes DEF elsewhere, histVars
  <2>. QED BY <2>1, <2>2, <2>3, <1>2 DEF StartSteps
<1>3. ASSUME NEW l \in Launcher, LaunchSteps(l)
      PROVE  \/ ~mem.recon.armed \/ mem'.recon.armed \/ ~mem'.recon.kept
             \/ mem.mark /\ launch' = launch
             \/ launch[Start].at = "hook" /\ launch'[Start].at = "writing" /\ mem'.registry # NoEngine
             \/ /\ Begun
                /\ \E k \in Attempt : \/ launch'[k].at = "fenced" /\ mem'.registry = NoEngine
                                      \/ launch'[k].at = "destroying"
                                      \/ launch'[k].at = "writing" /\ mem'.registry # NoEngine
  <2>1. CASE FenceOpens(l)
    <3>1. CASE l = Start
      BY <2>1, <3>1, TypedParts, FenceOpensDoes, ReconConstants DEF elsewhere, histVars
    <3>2. CASE l # Start
      BY <2>1, <3>2, TypedParts, FenceOpensDoes, ReconConstants DEF Registered, elsewhere, histVars
    <3>. QED BY <3>1, <3>2
  <2>2. CASE FenceRefuses(l)
    BY <2>2, TypedParts, ReconConstants, FenceRefusesDoes DEF elsewhere
  <2>3. CASE WriteSettles(l)
    BY <2>3, TypedParts, ReconConstants, WriteSettlesDoes DEF elsewhere, histVars
  <2>4. CASE WriteFails(l)
    BY <2>4, TypedParts, ReconConstants, WriteFailsDoes DEF elsewhere
  <2>5. CASE InitResolves(l)
    BY <2>5, TypedParts, ReconConstants, InitResolvesDoes DEF elsewhere, histVars
  <2>6. CASE InitRejects(l)
    BY <2>6, TypedParts, ReconConstants, InitRejectsDoes DEF elsewhere
  <2>7. CASE InitTimesOut(l)
    BY <2>7, TypedParts, ReconConstants, InitTimesOutDoes DEF elsewhere, histVars
  <2>8. CASE LateKillEnds(l)
    BY <2>8, TypedParts, ReconConstants, LateKillEndsDoes DEF elsewhere
  <2>9. CASE RowRead(l)
    BY <2>9, TypedParts, ReconConstants, RowReadDoes DEF elsewhere
  <2>10. CASE RetireEnds(l) \/ RetireTimesOut(l)
    BY <2>10, TypedParts, ReconConstants, RetireEndsDoes DEF elsewhere, histVars
  <2>11. CASE Repurged(l)
    BY <2>11, TypedParts, ReconConstants, RepurgedDoes DEF elsewhere, histVars
  <2>12. CASE OldEngineGone(l)
    BY <2>12, TypedParts, ReconConstants, OldEngineGoneDoes DEF elsewhere, histVars
  <2>13. CASE DestroyTimesOut(l)
    BY <2>13, TypedParts, ReconConstants, DestroyTimesOutDoes DEF elsewhere, histVars
  <2>. QED BY <2>1, <2>2, <2>3, <2>4, <2>5, <2>6, <2>7, <2>8, <2>9, <2>10, <2>11, <2>12, <2>13, <1>3 DEF LaunchSteps
<1>4. ASSUME NEW l \in Attempt, TimerFires(l)
      PROVE  \/ ~mem.recon.armed \/ mem'.recon.armed \/ ~mem'.recon.kept
             \/ mem.mark /\ launch' = launch
             \/ launch[Start].at = "hook" /\ launch'[Start].at = "writing" /\ mem'.registry # NoEngine
             \/ /\ Begun
                /\ \E k \in Attempt : \/ launch'[k].at = "fenced" /\ mem'.registry = NoEngine
                                      \/ launch'[k].at = "destroying"
                                      \/ launch'[k].at = "writing" /\ mem'.registry # NoEngine
  BY <1>4, TypedParts, ReconConstants, TimerFiresDoes DEF elsewhere, Begun, Registered
<1>5. ASSUME NEW q \in Request, NEW kind \in Kinds, CallMade(q, kind)
      PROVE  \/ ~mem.recon.armed \/ mem'.recon.armed \/ ~mem'.recon.kept
             \/ mem.mark /\ launch' = launch
             \/ launch[Start].at = "hook" /\ launch'[Start].at = "writing" /\ mem'.registry # NoEngine
             \/ /\ Begun
                /\ \E k \in Attempt : \/ launch'[k].at = "fenced" /\ mem'.registry = NoEngine
                                      \/ launch'[k].at = "destroying"
                                      \/ launch'[k].at = "writing" /\ mem'.registry # NoEngine
  <2>1. CASE kind \in {"stop", "delete"} /\ Called(q, kind)
    BY <1>5, <2>1, TypedParts, ReconConstants, CalledDoes DEF CallMade
  <2>2. CASE kind \in {"logout", "kill"} /\ EngineCalled(q, kind)
    BY <1>5, <2>2, TypedParts, ReconConstants, EngineCalledDoes DEF CallMade
  <2>. QED BY <2>1, <2>2, <1>5 DEF CallMade
<1>6. ASSUME NEW q \in Request, RequestSteps(q)
      PROVE  \/ ~mem.recon.armed \/ mem'.recon.armed \/ ~mem'.recon.kept
             \/ mem.mark /\ launch' = launch
             \/ launch[Start].at = "hook" /\ launch'[Start].at = "writing" /\ mem'.registry # NoEngine
             \/ /\ Begun
                /\ \E k \in Attempt : \/ launch'[k].at = "fenced" /\ mem'.registry = NoEngine
                                      \/ launch'[k].at = "destroying"
                                      \/ launch'[k].at = "writing" /\ mem'.registry # NoEngine
  <2>1. CASE StopCaptures(q)
    BY <2>1, TypedParts, ReconConstants, StopCapturesDoes DEF histVars
  <2>2. CASE WaitEnds(q)
    BY <2>2, TypedParts, ReconConstants, WaitEndsDoes DEF histVars
  <2>3. CASE StopCloses(q) \/ LogoutReturns(q) \/ KillEnds(q)
    BY <2>3, TypedParts, ReconConstants, ClosesDoes DEF histVars
  <2>4. CASE LogoutOverruns(q)
    BY <2>4, TypedParts, ReconConstants, LogoutOverrunsDoes DEF histVars
  <2>5. CASE StopEscalates(q)
    BY <2>5, TypedParts, ReconConstants, StopEscalatesDoes DEF histVars
  <2>6. CASE DeleteEnters(q)
    BY <2>6, TypedParts, ReconConstants, DeleteEntersDoes DEF DeleteStarts, histVars
  <2>7. CASE DeleteFenceOpens(q)
    BY <2>7, TypedParts, ReconConstants, DeleteFenceOpensDoes DEF DeleteStarts, histVars
  <2>8. CASE DeleteRefused(q)
    BY <2>8, TypedParts, ReconConstants, DeleteRefusedDoes
  <2>9. CASE RowDeleted(q)
    BY <2>9, TypedParts, ReconConstants, RowDeletedDoes DEF histVars
  <2>10. CASE NotFound(q) \/ DeleteFails(q) \/ Purged(q)
    BY <2>10, TypedParts, ReconConstants, UnmarksDoes DEF histVars
  <2>. QED BY <2>1, <2>2, <2>3, <2>4, <2>5, <2>6, <2>7, <2>8, <2>9, <2>10, <1>6 DEF RequestSteps
<1>7. ASSUME NEW e \in Engine, EngineSteps(e)
      PROVE  \/ ~mem.recon.armed \/ mem'.recon.armed \/ ~mem'.recon.kept
             \/ mem.mark /\ launch' = launch
             \/ launch[Start].at = "hook" /\ launch'[Start].at = "writing" /\ mem'.registry # NoEngine
             \/ /\ Begun
                /\ \E k \in Attempt : \/ launch'[k].at = "fenced" /\ mem'.registry = NoEngine
                                      \/ launch'[k].at = "destroying"
                                      \/ launch'[k].at = "writing" /\ mem'.registry # NoEngine
  <2>1. CASE KillLands(e) \/ LeakEnds(e)
    BY <2>1, TypedParts, ReconConstants, KillLandsDoes DEF others, histVars
  <2>2. CASE RemovalSettles(e)
    BY <2>2, TypedParts, ReconConstants DEF RemovalSettles, others, histVars
  <2>3. CASE EngineReady(e) \/ EngineWedges(e)
    BY <2>3, TypedParts, ReconConstants, EngineRunsDoes DEF others, histVars
  <2>4. CASE EngineDrops(e) \/ EngineUnlinked(e) \/ EngineFails(e) \/ StuckAuth(e) \/ WipeLands(e)
    BY <2>4, TypedParts, ReconConstants, EngineEndsDoes DEF others, histVars
  <2>5. CASE ProbeFails(e) \/ ProbePasses
    BY <2>5, TypedParts, ReconConstants, ProbesDoes DEF others, histVars
  <2>6. CASE DropHandled(e)
    BY <2>6, TypedParts, ReconConstants, DropHandledDoes
  <2>7. CASE DropUnread(e)
    BY <2>7, TypedParts, ReconConstants, DropUnreadDoes DEF others, histVars
  <2>. QED BY <2>1, <2>2, <2>3, <2>4, <2>5, <2>6, <2>7, <1>7 DEF EngineSteps
<1>. QED BY <1>1, <1>2, <1>3, <1>4, <1>5, <1>6, <1>7, NextCases


\* A call that has not captured an engine goes on by cancelling the reconnect
\* state, or was in vain.
LEMMA AskingGoes ==
    ASSUME Typed, [Next]_vars, NEW r \in Request
    PROVE  Early(r)' \/ ~Early(r) \/ ~mem'.recon.kept \/ refused' \/ ~row
<1>1. CASE UNCHANGED vars
  BY <1>1 DEF vars, Early
<1>5. ASSUME NEW q \in Request, NEW kind \in Kinds, CallMade(q, kind)
      PROVE  Early(r)' \/ ~Early(r) \/ ~mem'.recon.kept \/ refused' \/ ~row
  <2>1. CASE kind \in {"stop", "delete"} /\ Called(q, kind)
    <3>1. CASE r # q
      <4>1. request'[r] = request[r]
        BY <3>1, <1>5, <2>1, CalledDoes
      <4>. QED BY <4>1 DEF Early
    <3>2. CASE r = q
      BY <3>2, <1>5, <2>1, CalledDoes, TypedParts, ReconConstants DEF Early, Late, Captured, histVars
    <3>. QED BY <3>1, <3>2
  <2>2. CASE kind \in {"logout", "kill"} /\ EngineCalled(q, kind)
    <3>1. CASE r # q
      <4>1. request'[r] = request[r]
        BY <3>1, <1>5, <2>2, EngineCalledDoes
      <4>. QED BY <4>1 DEF Early
    <3>2. CASE r = q
      BY <3>2, <1>5, <2>2, EngineCalledDoes, TypedParts, ReconConstants DEF Early, Late, Captured, histVars
    <3>. QED BY <3>1, <3>2
  <2>. QED BY <2>1, <2>2, <1>5 DEF CallMade
<1>6. ASSUME NEW q \in Request, RequestSteps(q)
      PROVE  Early(r)' \/ ~Early(r) \/ ~mem'.recon.kept \/ refused' \/ ~row
  <2>1. CASE StopCaptures(q)
    <3>1. CASE r # q
      <4>1. request'[r] = request[r]
        BY <3>1, <2>1, StopCapturesDoes
      <4>. QED BY <4>1 DEF Early
    <3>2. CASE r = q
      BY <3>2, <2>1, StopCapturesDoes, TypedParts, ReconConstants DEF Early, Late, Captured, histVars
    <3>. QED BY <3>1, <3>2
  <2>2. CASE WaitEnds(q)
    <3>1. CASE r # q
      <4>1. request'[r] = request[r]
        BY <3>1, <2>2, WaitEndsDoes
      <4>. QED BY <4>1 DEF Early
    <3>2. CASE r = q
      BY <3>2, <2>2, WaitEndsDoes, TypedParts, ReconConstants DEF Early, Late, Captured, histVars
    <3>. QED BY <3>1, <3>2
  <2>3. CASE StopCloses(q) \/ LogoutReturns(q) \/ KillEnds(q)
    <3>1. CASE r # q
      <4>1. request'[r] = request[r]
        BY <3>1, <2>3, ClosesDoes
      <4>. QED BY <4>1 DEF Early
    <3>2. CASE r = q
      BY <3>2, <2>3, ClosesDoes, TypedParts, ReconConstants DEF Early, Late, Captured, histVars
    <3>. QED BY <3>1, <3>2
  <2>4. CASE LogoutOverruns(q)
    <3>1. CASE r # q
      <4>1. request'[r] = request[r]
        BY <3>1, <2>4, LogoutOverrunsDoes
      <4>. QED BY <4>1 DEF Early
    <3>2. CASE r = q
      BY <3>2, <2>4, LogoutOverrunsDoes, TypedParts, ReconConstants DEF Early, Late, Captured, histVars
    <3>. QED BY <3>1, <3>2
  <2>5. CASE StopEscalates(q)
    <3>1. CASE r # q
      <4>1. request'[r] = request[r]
        BY <3>1, <2>5, StopEscalatesDoes
      <4>. QED BY <4>1 DEF Early
    <3>2. CASE r = q
      BY <3>2, <2>5, StopEscalatesDoes, TypedParts, ReconConstants DEF Early, Late, Captured, histVars
    <3>. QED BY <3>1, <3>2
  <2>6. CASE DeleteEnters(q)
    <3>1. CASE r # q
      <4>1. request'[r] = request[r]
        BY <3>1, <2>6, DeleteEntersDoes DEF DeleteStarts
      <4>. QED BY <4>1 DEF Early
    <3>2. CASE r = q
      BY <3>2, <2>6, DeleteEntersDoes, TypedParts, ReconConstants DEF Early, Late, Captured, histVars, DeleteStarts
    <3>. QED BY <3>1, <3>2
  <2>7. CASE DeleteFenceOpens(q)
    <3>1. CASE r # q
      <4>1. request'[r] = request[r]
        BY <3>1, <2>7, DeleteFenceOpensDoes DEF DeleteStarts
      <4>. QED BY <4>1 DEF Early
    <3>2. CASE r = q
      BY <3>2, <2>7, DeleteFenceOpensDoes, TypedParts, ReconConstants DEF Early, Late, Captured, histVars, DeleteStarts
    <3>. QED BY <3>1, <3>2
  <2>8. CASE DeleteRefused(q)
    <3>1. CASE r # q
      <4>1. request'[r] = request[r]
        BY <3>1, <2>8, DeleteRefusedDoes
      <4>. QED BY <4>1 DEF Early
    <3>2. CASE r = q
      BY <3>2, <2>8, DeleteRefusedDoes, TypedParts, ReconConstants DEF Early, Late, Captured, histVars
    <3>. QED BY <3>1, <3>2
  <2>9. CASE RowDeleted(q)
    <3>1. CASE r # q
      <4>1. request'[r] = request[r]
        BY <3>1, <2>9, RowDeletedDoes
      <4>. QED BY <4>1 DEF Early
    <3>2. CASE r = q
      BY <3>2, <2>9, RowDeletedDoes, TypedParts, ReconConstants DEF Early, Late, Captured, histVars
    <3>. QED BY <3>1, <3>2
  <2>10. CASE NotFound(q) \/ DeleteFails(q) \/ Purged(q)
    <3>1. CASE r # q
      <4>1. request'[r] = request[r]
        BY <3>1, <2>10, UnmarksDoes
      <4>. QED BY <4>1 DEF Early
    <3>2. CASE r = q
      BY <3>2, <2>10, UnmarksDoes, TypedParts, ReconConstants DEF Early, Late, Captured, histVars
    <3>. QED BY <3>1, <3>2
  <2>. QED BY <2>1, <2>2, <2>3, <2>4, <2>5, <2>6, <2>7, <2>8, <2>9, <2>10, <1>6 DEF RequestSteps
<1>7. CASE StartSteps \/ (\E l \in Launcher : LaunchSteps(l)) \/ (\E l \in Attempt : TimerFires(l)) \/ (\E e \in Engine : EngineSteps(e))
  <2>1. request' = request
    BY <1>7, StartStepsLeave, LaunchStepsLeave, EngineStepsLeave DEF elsewhere, TimerFires
  <2>. QED BY <2>1 DEF Early
<1>. QED BY <1>1, <1>5, <1>6, <1>7, NextCases

\* A launch without an engine runs with no stop marked.
Unmarked == \A l \in Launcher : Bare(l) => ~mem.mark

\* Reconnect state that no launch and no timer continues is a call's to cancel.
Resumed ==
    /\ mem.mark /\ mem.recon.kept => Asking
    /\ \A l \in Launcher : launch[l].at = "retiring" /\ mem.recon.kept => Asking
    /\ launch[Start].at = "fenced" /\ mem.recon.kept => mem.recon.armed
    /\ mem.recon.kept /\ mem.registry = NoEngine /\ ~mem.recon.armed => Asking \/ Resuming

\* No step marks a launch that has no engine yet.
LEMMA UnmarkedStep ==
    ASSUME Typed, Apart, Unmarked, [Next]_vars, ~crossed'
    PROVE  Unmarked'
<1> SUFFICES ASSUME NEW k \in Launcher, Bare(k)', mem'.mark
             PROVE  FALSE
  BY DEF Unmarked
<1>1. Bare(k) /\ ~mem.mark
  BY BareBegins DEF Unmarked
<1>2. launch' = launch /\ (Asked \/ Asked')
  BY <1>1, MarkRises
<1>3. Unborn(k)
  BY <1>1 DEF Bare
<1>4. ~Asked
  BY <1>3 DEF Apart
<1>5. crossed' = (crossed \/ \E l \in Launcher : Unborn(l))
  BY <1>2, <1>4, AskedBegins
<1>. QED BY <1>3, <1>5

\* A call that has captured nothing stays so while there is state to cancel.
LEMMA AskingStays ==
    ASSUME Typed, Apart, Settled, [Next]_vars, Asking, mem'.recon.kept, ~refused'
    PROVE  mem.recon.kept /\ Asking'
<1>1. PICK r \in Request : Early(r)
  BY DEF Asking
<1>2. Asked
  BY <1>1 DEF Asked, Early
<1>3. launch[Start].at # "hook"
  BY <1>2, TypedParts DEF Apart, Unborn
<1>4. mem.recon.kept
  BY <1>3, ReconMade
<1>5. row
  BY <1>4 DEF Settled
<1>. QED BY <1>1, <1>4, <1>5, AskingGoes DEF Asking

\* Every step keeps Resumed.
LEMMA ResumedStep ==
    ASSUME Typed, OneLaunch, \A l \in Launcher : Placed(l), Apart, Kept, Settled, Unmarked, Resumed,
           [Next]_vars, ~overlapped', ~crossed', ~refused'
    PROVE  Resumed'
<1>0. Start \in Launcher
  BY TypedParts
<1>1. Asking /\ mem'.recon.kept => Asking'
  BY AskingStays
<1>2. ASSUME Begun
      PROVE  ~Asked /\ \A l \in Launcher : ~InFlight(l)
  BY <1>2 DEF Begun, Asked
<1>3. ASSUME mem'.mark, mem'.recon.kept
      PROVE  Asking'
  <2>1. CASE mem.mark
    <3>1. mem.recon.kept
      <4>1. launch[Start].at # "hook"
        BY <1>0, <2>1 DEF Unmarked, Bare, Unborn
      <4>. QED BY <1>3, <4>1, ReconMade
    <3>. QED BY <1>1, <1>3, <2>1, <3>1 DEF Resumed
  <2>2. CASE ~mem.mark
    BY <1>3, <2>2, MarkRises
  <2>. QED BY <2>1, <2>2
<1>4. ASSUME NEW k \in Launcher, launch'[k].at = "retiring", mem'.recon.kept
      PROVE  Asking'
  <2>1. \/ launch[k].at = "retiring"
        \/ launch[k].at \in {"writing", "initializing", "checking"} /\ (mem.mark \/ ~row)
    BY <1>4, RetiringBegins
  <2>2. launch[Start].at # "hook"
    BY <1>0, <2>1 DEF OneLaunch, InFlight
  <2>3. mem.recon.kept
    BY <1>4, <2>2, ReconMade
  <2>4. Asking
    BY <2>1, <2>3 DEF Resumed, Settled
  <2>. QED BY <1>1, <1>4, <2>4
<1>5. ASSUME launch'[Start].at = "fenced", mem'.recon.kept
      PROVE  mem'.recon.armed
  <2>1. CASE launch[Start].at = "fenced"
    <3>1. mem.recon.kept
      BY <1>5, <2>1, ReconMade
    <3>2. mem.recon.armed
      BY <2>1, <3>1 DEF Resumed
    <3>3. ~Asked /\ InFlight(Start)
      BY <1>0, <2>1 DEF Apart, Unborn, InFlight
    <3>4. ~mem.mark
      BY <3>1, <3>3 DEF Resumed, Asking, Asked, Early
    <3>. QED BY <1>0, <1>2, <1>5, <3>2, <3>3, <3>4, ArmedFalls
  <2>2. CASE launch[Start].at # "fenced"
    <3>1. Begun /\ mem' = mem /\ mem.registry = NoEngine
      BY <1>5, <2>2, FencedBegins
    <3>2. ~Asking /\ ~Resuming
      BY <1>2, <3>1 DEF Asking, Asked, Early, Resuming, Resumes, InFlight
    <3>. QED BY <1>5, <3>1, <3>2 DEF Resumed
  <2>. QED BY <2>1, <2>2
<1>6. ASSUME mem'.recon.kept, mem'.registry = NoEngine, ~mem'.recon.armed
      PROVE  Asking' \/ Resuming'
  <2>1. mem.recon.kept
    BY <1>6, ReconMade
  <2>2. CASE mem.registry # NoEngine
    <3>1. Asking \/ Resuming'
      BY <1>6, <2>1, <2>2, RegistryEmpties DEF Settled, Resumed
    <3>. QED BY <1>1, <1>6, <3>1
  <2>3. CASE mem.registry = NoEngine /\ mem.recon.armed
    <3>1. CASE mem.mark
      BY <1>1, <1>6, <2>1, <3>1 DEF Resumed
    <3>2. CASE ~mem.mark
      <4>1. \E k \in Attempt : launch'[k].at \in {"fenced", "destroying"}
        BY <1>6, <2>3, <3>2, ArmedFalls
      <4>. QED BY <4>1, TypedParts DEF Resuming, Resumes
    <3>. QED BY <3>1, <3>2
  <2>4. CASE mem.registry = NoEngine /\ ~mem.recon.armed
    <3>1. CASE Asking
      BY <1>1, <1>6, <3>1
    <3>2. ASSUME NEW k \in Launcher, Resumes(k)
          PROVE  Resuming'
      BY <1>6, <3>2, ResumingEnds DEF Resuming
    <3>. QED BY <2>1, <2>4, <3>1, <3>2 DEF Resumed, Resuming
  <2>. QED BY <2>2, <2>3, <2>4
<1>. QED BY <1>3, <1>4, <1>5, <1>6 DEF Resumed

\* An engine whose kill runs on its own is out of the registry.
LEMMA DyingGrows ==
    ASSUME Typed, NEW f \in Engine, [Next]_vars
    PROVE  f \notin mem'.dying \/ f \in mem.dying \/ mem'.registry # f
<1>1. CASE UNCHANGED vars
  BY <1>1, TypedParts DEF vars, histVars
<1>2. CASE StartSteps
  <2>1. CASE StartCalled
    BY <2>1, TypedParts, StartCalledDoes DEF elsewhere, Begun
  <2>2. CASE HookDone
    BY <2>2, TypedParts, HookDoneDoes DEF elsewhere, Registered, histVars
  <2>3. CASE ReapEnds
    BY <2>3, TypedParts, ReapEndsDoes DEF elsewhere, histVars
  <2>. QED BY <2>1, <2>2, <2>3, <1>2 DEF StartSteps
<1>3. ASSUME NEW l \in Launcher, LaunchSteps(l)
      PROVE  f \notin mem'.dying \/ f \in mem.dying \/ mem'.registry # f
  <2>1. CASE FenceOpens(l)
    <3>1. CASE l = Start
      BY <2>1, <3>1, TypedParts, FenceOpensDoes DEF elsewhere, histVars
    <3>2. CASE l # Start
      BY <2>1, <3>2, TypedParts, FenceOpensDoes DEF Registered, elsewhere, histVars
    <3>. QED BY <3>1, <3>2
  <2>2. CASE FenceRefuses(l)
    BY <2>2, TypedParts, FenceRefusesDoes DEF elsewhere
  <2>3. CASE WriteSettles(l)
    BY <2>3, TypedParts, WriteSettlesDoes DEF elsewhere, histVars
  <2>4. CASE WriteFails(l)
    BY <2>4, TypedParts, WriteFailsDoes DEF elsewhere
  <2>5. CASE InitResolves(l)
    BY <2>5, TypedParts, InitResolvesDoes DEF elsewhere, histVars
  <2>6. CASE InitRejects(l)
    BY <2>6, TypedParts, InitRejectsDoes DEF elsewhere
  <2>7. CASE InitTimesOut(l)
    BY <2>7, TypedParts, InitTimesOutDoes DEF elsewhere, histVars
  <2>8. CASE LateKillEnds(l)
    BY <2>8, TypedParts, LateKillEndsDoes DEF elsewhere
  <2>9. CASE RowRead(l)
    BY <2>9, TypedParts, RowReadDoes DEF elsewhere
  <2>10. CASE RetireEnds(l) \/ RetireTimesOut(l)
    BY <2>10, TypedParts, RetireEndsDoes DEF elsewhere, histVars
  <2>11. CASE Repurged(l)
    BY <2>11, TypedParts, RepurgedDoes DEF elsewhere, histVars
  <2>12. CASE OldEngineGone(l)
    BY <2>12, TypedParts, OldEngineGoneDoes DEF elsewhere, histVars
  <2>13. CASE DestroyTimesOut(l)
    BY <2>13, TypedParts, DestroyTimesOutDoes DEF elsewhere, histVars
  <2>. QED BY <2>1, <2>2, <2>3, <2>4, <2>5, <2>6, <2>7, <2>8, <2>9, <2>10, <2>11, <2>12, <2>13, <1>3 DEF LaunchSteps
<1>4. ASSUME NEW l \in Attempt, TimerFires(l)
      PROVE  f \notin mem'.dying \/ f \in mem.dying \/ mem'.registry # f
  BY <1>4, TypedParts, TimerFiresDoes DEF elsewhere, Begun, Registered
<1>5. ASSUME NEW q \in Request, NEW kind \in Kinds, CallMade(q, kind)
      PROVE  f \notin mem'.dying \/ f \in mem.dying \/ mem'.registry # f
  <2>1. CASE kind \in {"stop", "delete"} /\ Called(q, kind)
    BY <1>5, <2>1, TypedParts, CalledDoes DEF CallMade
  <2>2. CASE kind \in {"logout", "kill"} /\ EngineCalled(q, kind)
    BY <1>5, <2>2, TypedParts, EngineCalledDoes DEF CallMade
  <2>. QED BY <2>1, <2>2, <1>5 DEF CallMade
<1>6. ASSUME NEW q \in Request, RequestSteps(q)
      PROVE  f \notin mem'.dying \/ f \in mem.dying \/ mem'.registry # f
  <2>1. CASE StopCaptures(q)
    BY <2>1, TypedParts, StopCapturesDoes DEF histVars
  <2>2. CASE WaitEnds(q)
    BY <2>2, TypedParts, WaitEndsDoes DEF histVars
  <2>3. CASE StopCloses(q) \/ LogoutReturns(q) \/ KillEnds(q)
    BY <2>3, TypedParts, ClosesDoes DEF histVars
  <2>4. CASE LogoutOverruns(q)
    BY <2>4, TypedParts, LogoutOverrunsDoes DEF histVars
  <2>5. CASE StopEscalates(q)
    BY <2>5, TypedParts, StopEscalatesDoes DEF histVars
  <2>6. CASE DeleteEnters(q)
    BY <2>6, TypedParts, DeleteEntersDoes DEF DeleteStarts, histVars
  <2>7. CASE DeleteFenceOpens(q)
    BY <2>7, TypedParts, DeleteFenceOpensDoes DEF DeleteStarts, histVars
  <2>8. CASE DeleteRefused(q)
    BY <2>8, TypedParts, DeleteRefusedDoes
  <2>9. CASE RowDeleted(q)
    BY <2>9, TypedParts, RowDeletedDoes DEF histVars
  <2>10. CASE NotFound(q) \/ DeleteFails(q) \/ Purged(q)
    BY <2>10, TypedParts, UnmarksDoes DEF histVars
  <2>. QED BY <2>1, <2>2, <2>3, <2>4, <2>5, <2>6, <2>7, <2>8, <2>9, <2>10, <1>6 DEF RequestSteps
<1>7. ASSUME NEW e \in Engine, EngineSteps(e)
      PROVE  f \notin mem'.dying \/ f \in mem.dying \/ mem'.registry # f
  <2>1. CASE KillLands(e) \/ LeakEnds(e)
    BY <2>1, TypedParts, KillLandsDoes DEF others, histVars
  <2>2. CASE RemovalSettles(e)
    BY <2>2, TypedParts DEF RemovalSettles, others, histVars
  <2>3. CASE EngineReady(e) \/ EngineWedges(e)
    BY <2>3, TypedParts, EngineRunsDoes DEF others, histVars
  <2>4. CASE EngineDrops(e) \/ EngineUnlinked(e) \/ EngineFails(e) \/ StuckAuth(e) \/ WipeLands(e)
    <3>1. mem'.registry = NoEngine \/ mem'.dying = mem.dying
      BY <2>4, EngineEndsDoes
    <3>. QED BY <3>1, TypedParts
  <2>5. CASE ProbeFails(e) \/ ProbePasses
    BY <2>5, TypedParts, ProbesDoes DEF others, histVars
  <2>6. CASE DropHandled(e)
    <3>1. mem'.registry = NoEngine \/ mem'.dying = mem.dying
      BY <2>6, DropHandledDoes
    <3>. QED BY <3>1, TypedParts
  <2>7. CASE DropUnread(e)
    BY <2>7, TypedParts, DropUnreadDoes DEF others, histVars
  <2>. QED BY <2>1, <2>2, <2>3, <2>4, <2>5, <2>6, <2>7, <1>7 DEF EngineSteps
<1>. QED BY <1>1, <1>2, <1>3, <1>4, <1>5, <1>6, <1>7, NextCases


\* What becomes of an engine that stays registered.
LEMMA RegisteredMoves ==
    ASSUME Typed, NEW f \in Engine, mem.registry = f, mem'.registry = f, [Next]_vars
    PROVE  \/ mem'.eng[f] = mem.eng[f]
           \/ \E k \in Launcher : Opens(k, f)
           \/ mem.eng[f] \in Alive /\ mem'.eng[f] \in Alive
           \/ mem.eng[f] \in Alive /\ mem'.eng[f] = "lost" /\ f \in losing'
           \/ mem.eng[f] = "lost" /\ mem'.eng[f] = "unheard"
           \/ mem.eng[f] = "leaked" \/ f \in mem.dying
           \/ mem.mark \/ mem'.mark \/ ~row \/ \E r \in Request : Captured(r)
           \/ launch[Start].at = "reaping" \/ \E k \in Launcher : launch'[k].at = "destroying"
<1>1. CASE UNCHANGED vars
  BY <1>1, TypedParts DEF vars, histVars, Alive, Captured
<1>2. CASE StartSteps
  <2>1. CASE StartCalled
    BY <2>1, TypedParts, StartCalledDoes DEF elsewhere, Begun, Alive, Captured
  <2>2. CASE HookDone
    <3>1. mem'.registry \notin Held
      BY <2>2, HookDoneDoes DEF Registered
    <3>. QED BY <3>1 DEF Held
  <2>3. CASE ReapEnds
    BY <2>3, TypedParts, ReapEndsDoes DEF elsewhere, histVars, Alive, Captured
  <2>. QED BY <2>1, <2>2, <2>3, <1>2 DEF StartSteps
<1>3. ASSUME NEW l \in Launcher, LaunchSteps(l)
      PROVE  \/ mem'.eng[f] = mem.eng[f]
             \/ \E k \in Launcher : Opens(k, f)
             \/ mem.eng[f] \in Alive /\ mem'.eng[f] \in Alive
             \/ mem.eng[f] \in Alive /\ mem'.eng[f] = "lost" /\ f \in losing'
             \/ mem.eng[f] = "lost" /\ mem'.eng[f] = "unheard"
             \/ mem.eng[f] = "leaked" \/ f \in mem.dying
             \/ mem.mark \/ mem'.mark \/ ~row \/ \E r \in Request : Captured(r)
             \/ launch[Start].at = "reaping" \/ \E k \in Launcher : launch'[k].at = "destroying"
  <2>1. CASE FenceOpens(l)
    <3>1. CASE l = Start
      BY <2>1, <3>1, TypedParts, FenceOpensDoes
    <3>2. CASE l # Start
      <4>1. Registered(l, mem, mem.mark, mem.recon)
        BY <2>1, <3>2, FenceOpensDoes
      <4>2. mem'.registry \notin Held
        BY <4>1 DEF Registered
      <4>. QED BY <4>2 DEF Held
    <3>. QED BY <3>1, <3>2
  <2>2. CASE FenceRefuses(l)
    BY <2>2, TypedParts, FenceRefusesDoes DEF elsewhere, Alive, Captured
  <2>3. CASE WriteSettles(l)
    <3>1. CASE mem.mark
      BY <3>1
    <3>2. CASE ~mem.mark
      <4>1. mem'.eng[f] = mem.eng[f] \/ (mem'.eng[f] \in Alive /\ mem.eng[f] \notin Alive)
        BY <2>3, <3>2, TypedParts, WriteSettlesDoes DEF Alive
      <4>. QED BY <4>1, NewlyAlive
    <3>. QED BY <3>1, <3>2
  <2>4. CASE WriteFails(l)
    BY <2>4, TypedParts, WriteFailsDoes DEF elsewhere, Alive, Captured
  <2>5. CASE InitResolves(l)
    BY <2>5, TypedParts, InitResolvesDoes DEF elsewhere, histVars, Alive, Captured
  <2>6. CASE InitRejects(l)
    BY <2>6, TypedParts, InitRejectsDoes DEF elsewhere, Alive, Captured
  <2>7. CASE InitTimesOut(l)
    BY <2>7, TypedParts, InitTimesOutDoes DEF elsewhere, histVars, Alive, Captured
  <2>8. CASE LateKillEnds(l)
    BY <2>8, TypedParts, LateKillEndsDoes DEF elsewhere, Alive, Captured
  <2>9. CASE RowRead(l)
    BY <2>9, TypedParts, RowReadDoes DEF elsewhere, Alive, Captured
  <2>10. CASE RetireEnds(l) \/ RetireTimesOut(l)
    BY <2>10, TypedParts, RetireEndsDoes DEF elsewhere, histVars, Alive, Captured
  <2>11. CASE Repurged(l)
    BY <2>11, TypedParts, RepurgedDoes DEF elsewhere, histVars, Alive, Captured
  <2>12. CASE OldEngineGone(l)
    <3>1. removing # {}
      <4>1. removing # {} \/ mem'.registry \notin Held
        BY <2>12, OldEngineGoneDoes
      <4>. QED BY <4>1 DEF Held
    <3>. QED BY <2>12, <3>1, TypedParts, OldEngineGoneDoes
  <2>13. CASE DestroyTimesOut(l)
    BY <2>13, TypedParts, DestroyTimesOutDoes DEF elsewhere, histVars, Alive, Captured
  <2>. QED BY <2>1, <2>2, <2>3, <2>4, <2>5, <2>6, <2>7, <2>8, <2>9, <2>10, <2>11, <2>12, <2>13, <1>3 DEF LaunchSteps
<1>4. ASSUME NEW l \in Attempt, TimerFires(l)
      PROVE  \/ mem'.eng[f] = mem.eng[f]
             \/ \E k \in Launcher : Opens(k, f)
             \/ mem.eng[f] \in Alive /\ mem'.eng[f] \in Alive
             \/ mem.eng[f] \in Alive /\ mem'.eng[f] = "lost" /\ f \in losing'
             \/ mem.eng[f] = "lost" /\ mem'.eng[f] = "unheard"
             \/ mem.eng[f] = "leaked" \/ f \in mem.dying
             \/ mem.mark \/ mem'.mark \/ ~row \/ \E r \in Request : Captured(r)
             \/ launch[Start].at = "reaping" \/ \E k \in Launcher : launch'[k].at = "destroying"
  BY <1>4, TypedParts, TimerFiresDoes DEF elsewhere, Begun, Registered, Alive, Captured
<1>5. ASSUME NEW q \in Request, NEW kind \in Kinds, CallMade(q, kind)
      PROVE  \/ mem'.eng[f] = mem.eng[f]
             \/ \E k \in Launcher : Opens(k, f)
             \/ mem.eng[f] \in Alive /\ mem'.eng[f] \in Alive
             \/ mem.eng[f] \in Alive /\ mem'.eng[f] = "lost" /\ f \in losing'
             \/ mem.eng[f] = "lost" /\ mem'.eng[f] = "unheard"
             \/ mem.eng[f] = "leaked" \/ f \in mem.dying
             \/ mem.mark \/ mem'.mark \/ ~row \/ \E r \in Request : Captured(r)
             \/ launch[Start].at = "reaping" \/ \E k \in Launcher : launch'[k].at = "destroying"
  <2>1. CASE kind \in {"stop", "delete"} /\ Called(q, kind)
    BY <1>5, <2>1, TypedParts, CalledDoes DEF CallMade, Alive, Captured
  <2>2. CASE kind \in {"logout", "kill"} /\ EngineCalled(q, kind)
    BY <1>5, <2>2, TypedParts, EngineCalledDoes DEF CallMade, Alive, Captured
  <2>. QED BY <2>1, <2>2, <1>5 DEF CallMade
<1>6. ASSUME NEW q \in Request, RequestSteps(q)
      PROVE  \/ mem'.eng[f] = mem.eng[f]
             \/ \E k \in Launcher : Opens(k, f)
             \/ mem.eng[f] \in Alive /\ mem'.eng[f] \in Alive
             \/ mem.eng[f] \in Alive /\ mem'.eng[f] = "lost" /\ f \in losing'
             \/ mem.eng[f] = "lost" /\ mem'.eng[f] = "unheard"
             \/ mem.eng[f] = "leaked" \/ f \in mem.dying
             \/ mem.mark \/ mem'.mark \/ ~row \/ \E r \in Request : Captured(r)
             \/ launch[Start].at = "reaping" \/ \E k \in Launcher : launch'[k].at = "destroying"
  <2>1. CASE StopCaptures(q)
    BY <2>1, TypedParts, StopCapturesDoes DEF histVars, Alive, Captured
  <2>2. CASE WaitEnds(q)
    BY <2>2, TypedParts, WaitEndsDoes DEF histVars, Alive, Captured
  <2>3. CASE StopCloses(q) \/ LogoutReturns(q) \/ KillEnds(q)
    BY <2>3, TypedParts, ClosesDoes DEF histVars, Alive, Captured
  <2>4. CASE LogoutOverruns(q)
    BY <2>4, TypedParts, LogoutOverrunsDoes DEF histVars, Alive, Captured
  <2>5. CASE StopEscalates(q)
    BY <2>5, TypedParts, StopEscalatesDoes DEF histVars, Alive, Captured
  <2>6. CASE DeleteEnters(q)
    BY <2>6, TypedParts, DeleteEntersDoes DEF DeleteStarts, histVars, Alive, Captured
  <2>7. CASE DeleteFenceOpens(q)
    BY <2>7, TypedParts, DeleteFenceOpensDoes DEF DeleteStarts, histVars, Alive, Captured
  <2>8. CASE DeleteRefused(q)
    BY <2>8, TypedParts, DeleteRefusedDoes DEF Alive, Captured
  <2>9. CASE RowDeleted(q)
    BY <2>9, TypedParts, RowDeletedDoes DEF histVars, Alive, Captured
  <2>10. CASE NotFound(q) \/ DeleteFails(q) \/ Purged(q)
    BY <2>10, TypedParts, UnmarksDoes DEF histVars, Alive, Captured
  <2>. QED BY <2>1, <2>2, <2>3, <2>4, <2>5, <2>6, <2>7, <2>8, <2>9, <2>10, <1>6 DEF RequestSteps
<1>7. ASSUME NEW e \in Engine, EngineSteps(e)
      PROVE  \/ mem'.eng[f] = mem.eng[f]
             \/ \E k \in Launcher : Opens(k, f)
             \/ mem.eng[f] \in Alive /\ mem'.eng[f] \in Alive
             \/ mem.eng[f] \in Alive /\ mem'.eng[f] = "lost" /\ f \in losing'
             \/ mem.eng[f] = "lost" /\ mem'.eng[f] = "unheard"
             \/ mem.eng[f] = "leaked" \/ f \in mem.dying
             \/ mem.mark \/ mem'.mark \/ ~row \/ \E r \in Request : Captured(r)
             \/ launch[Start].at = "reaping" \/ \E k \in Launcher : launch'[k].at = "destroying"
  <2>1. CASE KillLands(e) \/ LeakEnds(e)
    BY <2>1, TypedParts, KillLandsDoes DEF others, histVars, Alive, Captured
  <2>2. CASE RemovalSettles(e)
    BY <2>2, TypedParts DEF RemovalSettles, others, histVars, Alive, Captured
  <2>3. CASE EngineReady(e) \/ EngineWedges(e)
    BY <2>3, TypedParts, EngineRunsDoes DEF others, histVars, Alive, Captured
  <2>4. CASE EngineDrops(e) \/ EngineUnlinked(e) \/ EngineFails(e) \/ StuckAuth(e) \/ WipeLands(e)
    <3>1. \/ mem'.eng = mem.eng
          \/ mem.eng[e] \in Alive /\ Becomes(mem', mem, e, "lost") /\ losing' = losing \cup {e}
          \/ e # f /\ Becomes(mem', mem, e, "lost")
      <4>1. mem'.registry # NoEngine
        BY TypedParts
      <4>. QED BY <2>4, <4>1, EngineEndsDoes
    <3>. QED BY <3>1
  <2>5. CASE ProbeFails(e) \/ ProbePasses
    BY <2>5, TypedParts, ProbesDoes DEF others, histVars, Alive, Captured
  <2>6. CASE DropHandled(e)
    <3>1. mem'.registry # NoEngine
      BY TypedParts
    <3>2. mem'.eng = mem.eng
      BY <2>6, <3>1, DropHandledDoes
    <3>. QED BY <3>2
  <2>7. CASE DropUnread(e)
    BY <2>7, TypedParts, DropUnreadDoes DEF others, histVars, Alive, Captured
  <2>. QED BY <2>1, <2>2, <2>3, <2>4, <2>5, <2>6, <2>7, <1>7 DEF EngineSteps
<1>. QED BY <1>1, <1>2, <1>3, <1>4, <1>5, <1>6, <1>7, NextCases


\* A disconnect that is handled arms the timer or evicts the engine.
LEMMA LosingFalls ==
    ASSUME Typed, NEW f \in Engine, [Next]_vars
    PROVE  \/ f \notin losing \/ f \in losing' \/ mem'.eng[f] # "lost"
           \/ ~row \/ ~mem.recon.kept \/ mem.registry # f \/ mem'.registry # f \/ mem'.recon.armed
<1>1. CASE UNCHANGED vars
  BY <1>1, TypedParts DEF vars, histVars
<1>2. CASE StartSteps
  <2>1. CASE StartCalled
    BY <2>1, TypedParts, StartCalledDoes DEF elsewhere, Begun
  <2>2. CASE HookDone
    BY <2>2, TypedParts, HookDoneDoes DEF elsewhere, Registered, histVars
  <2>3. CASE ReapEnds
    BY <2>3, TypedParts, ReapEndsDoes DEF elsewhere, histVars
  <2>. QED BY <2>1, <2>2, <2>3, <1>2 DEF StartSteps
<1>3. ASSUME NEW l \in Launcher, LaunchSteps(l)
      PROVE  \/ f \notin losing \/ f \in losing' \/ mem'.eng[f] # "lost"
             \/ ~row \/ ~mem.recon.kept \/ mem.registry # f \/ mem'.registry # f \/ mem'.recon.armed
  <2>1. CASE FenceOpens(l)
    <3>1. CASE l = Start
      BY <2>1, <3>1, TypedParts, FenceOpensDoes DEF elsewhere, histVars
    <3>2. CASE l # Start
      BY <2>1, <3>2, TypedParts, FenceOpensDoes DEF Registered, elsewhere, histVars
    <3>. QED BY <3>1, <3>2
  <2>2. CASE FenceRefuses(l)
    BY <2>2, TypedParts, FenceRefusesDoes DEF elsewhere
  <2>3. CASE WriteSettles(l)
    BY <2>3, TypedParts, WriteSettlesDoes DEF elsewhere, histVars
  <2>4. CASE WriteFails(l)
    BY <2>4, TypedParts, WriteFailsDoes DEF elsewhere
  <2>5. CASE InitResolves(l)
    BY <2>5, TypedParts, InitResolvesDoes DEF elsewhere, histVars
  <2>6. CASE InitRejects(l)
    BY <2>6, TypedParts, InitRejectsDoes DEF elsewhere
  <2>7. CASE InitTimesOut(l)
    BY <2>7, TypedParts, InitTimesOutDoes DEF elsewhere, histVars
  <2>8. CASE LateKillEnds(l)
    BY <2>8, TypedParts, LateKillEndsDoes DEF elsewhere
  <2>9. CASE RowRead(l)
    BY <2>9, TypedParts, RowReadDoes DEF elsewhere
  <2>10. CASE RetireEnds(l) \/ RetireTimesOut(l)
    BY <2>10, TypedParts, RetireEndsDoes DEF elsewhere, histVars
  <2>11. CASE Repurged(l)
    BY <2>11, TypedParts, RepurgedDoes DEF elsewhere, histVars
  <2>12. CASE OldEngineGone(l)
    BY <2>12, TypedParts, OldEngineGoneDoes DEF elsewhere, histVars
  <2>13. CASE DestroyTimesOut(l)
    BY <2>13, TypedParts, DestroyTimesOutDoes DEF elsewhere, histVars
  <2>. QED BY <2>1, <2>2, <2>3, <2>4, <2>5, <2>6, <2>7, <2>8, <2>9, <2>10, <2>11, <2>12, <2>13, <1>3 DEF LaunchSteps
<1>4. ASSUME NEW l \in Attempt, TimerFires(l)
      PROVE  \/ f \notin losing \/ f \in losing' \/ mem'.eng[f] # "lost"
             \/ ~row \/ ~mem.recon.kept \/ mem.registry # f \/ mem'.registry # f \/ mem'.recon.armed
  BY <1>4, TypedParts, TimerFiresDoes DEF elsewhere, Begun, Registered
<1>5. ASSUME NEW q \in Request, NEW kind \in Kinds, CallMade(q, kind)
      PROVE  \/ f \notin losing \/ f \in losing' \/ mem'.eng[f] # "lost"
             \/ ~row \/ ~mem.recon.kept \/ mem.registry # f \/ mem'.registry # f \/ mem'.recon.armed
  <2>1. CASE kind \in {"stop", "delete"} /\ Called(q, kind)
    BY <1>5, <2>1, TypedParts, CalledDoes DEF CallMade
  <2>2. CASE kind \in {"logout", "kill"} /\ EngineCalled(q, kind)
    BY <1>5, <2>2, TypedParts, EngineCalledDoes DEF CallMade
  <2>. QED BY <2>1, <2>2, <1>5 DEF CallMade
<1>6. ASSUME NEW q \in Request, RequestSteps(q)
      PROVE  \/ f \notin losing \/ f \in losing' \/ mem'.eng[f] # "lost"
             \/ ~row \/ ~mem.recon.kept \/ mem.registry # f \/ mem'.registry # f \/ mem'.recon.armed
  <2>1. CASE StopCaptures(q)
    BY <2>1, TypedParts, StopCapturesDoes DEF histVars
  <2>2. CASE WaitEnds(q)
    BY <2>2, TypedParts, WaitEndsDoes DEF histVars
  <2>3. CASE StopCloses(q) \/ LogoutReturns(q) \/ KillEnds(q)
    BY <2>3, TypedParts, ClosesDoes DEF histVars
  <2>4. CASE LogoutOverruns(q)
    BY <2>4, TypedParts, LogoutOverrunsDoes DEF histVars
  <2>5. CASE StopEscalates(q)
    BY <2>5, TypedParts, StopEscalatesDoes DEF histVars
  <2>6. CASE DeleteEnters(q)
    BY <2>6, TypedParts, DeleteEntersDoes DEF DeleteStarts, histVars
  <2>7. CASE DeleteFenceOpens(q)
    BY <2>7, TypedParts, DeleteFenceOpensDoes DEF DeleteStarts, histVars
  <2>8. CASE DeleteRefused(q)
    BY <2>8, TypedParts, DeleteRefusedDoes
  <2>9. CASE RowDeleted(q)
    BY <2>9, TypedParts, RowDeletedDoes DEF histVars
  <2>10. CASE NotFound(q) \/ DeleteFails(q) \/ Purged(q)
    BY <2>10, TypedParts, UnmarksDoes DEF histVars
  <2>. QED BY <2>1, <2>2, <2>3, <2>4, <2>5, <2>6, <2>7, <2>8, <2>9, <2>10, <1>6 DEF RequestSteps
<1>7. ASSUME NEW e \in Engine, EngineSteps(e)
      PROVE  \/ f \notin losing \/ f \in losing' \/ mem'.eng[f] # "lost"
             \/ ~row \/ ~mem.recon.kept \/ mem.registry # f \/ mem'.registry # f \/ mem'.recon.armed
  <2>1. CASE KillLands(e) \/ LeakEnds(e)
    BY <2>1, TypedParts, KillLandsDoes DEF others, histVars
  <2>2. CASE RemovalSettles(e)
    BY <2>2, TypedParts DEF RemovalSettles, others, histVars
  <2>3. CASE EngineReady(e) \/ EngineWedges(e)
    BY <2>3, TypedParts, EngineRunsDoes DEF others, histVars
  <2>4. CASE EngineDrops(e) \/ EngineUnlinked(e) \/ EngineFails(e) \/ StuckAuth(e) \/ WipeLands(e)
    BY <2>4, TypedParts, EngineEndsDoes DEF others, histVars
  <2>5. CASE ProbeFails(e) \/ ProbePasses
    BY <2>5, TypedParts, ProbesDoes DEF others, histVars
  <2>6. CASE DropHandled(e)
    <3>1. /\ losing' = losing \ {e}
          /\ \/ ~(row /\ mem.registry = e /\ mem.recon.kept) \/ mem'.registry = NoEngine
             \/ mem'.recon.armed
      BY <2>6, DropHandledDoes
    <3>. QED BY <3>1, TypedParts
  <2>7. CASE DropUnread(e)
    BY <2>7, TypedParts, DropUnreadDoes DEF others, histVars
  <2>. QED BY <2>1, <2>2, <2>3, <2>4, <2>5, <2>6, <2>7, <1>7 DEF EngineSteps
<1>. QED BY <1>1, <1>2, <1>3, <1>4, <1>5, <1>6, <1>7, NextCases


\* Reconnect state is dropped by a call, with the engine that failed or was
\* given up, or by the launch it belongs to.
LEMMA KeptFalls ==
    ASSUME Typed, [Next]_vars
    PROVE  \/ ~mem.recon.kept \/ mem'.recon.kept
           \/ mem'.mark /\ (Asked \/ Asked')
           \/ /\ mem'.registry = NoEngine \/ (launch[Start].at \in {"fenced", "reaping"} /\ mem'.registry = mem.registry)
              /\ \/ mem.registry # NoEngine /\ mem.eng[mem.registry] \in Alive /\ launch' = launch
                 \/ Begun
                 \/ launch' = launch /\ ((\E k \in Attempt : InFlight(k)) => overlapped')
                 \/ \E k \in Launcher : InFlight(k) /\ (k = Start \/ ~Unborn(k)') /\ \A j \in Launcher : j # k => launch'[j] = launch[j]
<1>1. CASE UNCHANGED vars
  BY <1>1, TypedParts, ReconConstants DEF vars, histVars, Asked, InFlight, Unborn
<1>2. CASE StartSteps
  <2>1. CASE StartCalled
    BY <2>1, TypedParts, ReconConstants, StartCalledDoes DEF elsewhere, Begun, Asked, InFlight, Unborn
  <2>2. CASE HookDone
    BY <2>2, TypedParts, ReconConstants, HookDoneDoes DEF elsewhere, Registered, histVars, Asked, InFlight, Unborn
  <2>3. CASE ReapEnds
    BY <2>3, TypedParts, ReconConstants, ReapEndsDoes DEF elsewhere, histVars, Asked, InFlight, Unborn
  <2>. QED BY <2>1, <2>2, <2>3, <1>2 DEF StartSteps
<1>3. ASSUME NEW l \in Launcher, LaunchSteps(l)
      PROVE  \/ ~mem.recon.kept \/ mem'.recon.kept
             \/ mem'.mark /\ (Asked \/ Asked')
             \/ /\ mem'.registry = NoEngine \/ (launch[Start].at \in {"fenced", "reaping"} /\ mem'.registry = mem.registry)
                /\ \/ mem.registry # NoEngine /\ mem.eng[mem.registry] \in Alive /\ launch' = launch
                   \/ Begun
                   \/ launch' = launch /\ ((\E k \in Attempt : InFlight(k)) => overlapped')
                   \/ \E k \in Launcher : InFlight(k) /\ (k = Start \/ ~Unborn(k)') /\ \A j \in Launcher : j # k => launch'[j] = launch[j]
  <2>1. CASE FenceOpens(l)
    <3>1. CASE l = Start
      BY <2>1, <3>1, TypedParts, FenceOpensDoes, ReconConstants DEF elsewhere, histVars, InFlight, Unborn
    <3>2. CASE l # Start
      BY <2>1, <3>2, TypedParts, FenceOpensDoes, ReconConstants DEF Registered, elsewhere, histVars, InFlight, Unborn
    <3>. QED BY <3>1, <3>2
  <2>2. CASE FenceRefuses(l)
    BY <2>2, TypedParts, ReconConstants, FenceRefusesDoes DEF elsewhere, Asked, InFlight, Unborn
  <2>3. CASE WriteSettles(l)
    BY <2>3, TypedParts, ReconConstants, WriteSettlesDoes DEF elsewhere, histVars, Asked, InFlight, Unborn
  <2>4. CASE WriteFails(l)
    BY <2>4, TypedParts, ReconConstants, WriteFailsDoes DEF elsewhere, Asked, InFlight, Unborn
  <2>5. CASE InitResolves(l)
    BY <2>5, TypedParts, ReconConstants, InitResolvesDoes DEF elsewhere, histVars, Asked, InFlight, Unborn
  <2>6. CASE InitRejects(l)
    BY <2>6, TypedParts, ReconConstants, InitRejectsDoes DEF elsewhere, Asked, InFlight, Unborn
  <2>7. CASE InitTimesOut(l)
    BY <2>7, TypedParts, ReconConstants, InitTimesOutDoes DEF elsewhere, histVars, Asked, InFlight, Unborn
  <2>8. CASE LateKillEnds(l)
    BY <2>8, TypedParts, ReconConstants, LateKillEndsDoes DEF elsewhere, Asked, InFlight, Unborn
  <2>9. CASE RowRead(l)
    BY <2>9, TypedParts, ReconConstants, RowReadDoes DEF elsewhere, Asked, InFlight, Unborn
  <2>10. CASE RetireEnds(l) \/ RetireTimesOut(l)
    BY <2>10, TypedParts, ReconConstants, RetireEndsDoes DEF elsewhere, histVars, Asked, InFlight, Unborn
  <2>11. CASE Repurged(l)
    BY <2>11, TypedParts, ReconConstants, RepurgedDoes DEF elsewhere, histVars, Asked, InFlight, Unborn
  <2>12. CASE OldEngineGone(l)
    BY <2>12, TypedParts, ReconConstants, OldEngineGoneDoes DEF elsewhere, histVars, Asked, InFlight, Unborn
  <2>13. CASE DestroyTimesOut(l)
    BY <2>13, TypedParts, ReconConstants, DestroyTimesOutDoes DEF elsewhere, histVars, Asked, InFlight, Unborn
  <2>. QED BY <2>1, <2>2, <2>3, <2>4, <2>5, <2>6, <2>7, <2>8, <2>9, <2>10, <2>11, <2>12, <2>13, <1>3 DEF LaunchSteps
<1>4. ASSUME NEW l \in Attempt, TimerFires(l)
      PROVE  \/ ~mem.recon.kept \/ mem'.recon.kept
             \/ mem'.mark /\ (Asked \/ Asked')
             \/ /\ mem'.registry = NoEngine \/ (launch[Start].at \in {"fenced", "reaping"} /\ mem'.registry = mem.registry)
                /\ \/ mem.registry # NoEngine /\ mem.eng[mem.registry] \in Alive /\ launch' = launch
                   \/ Begun
                   \/ launch' = launch /\ ((\E k \in Attempt : InFlight(k)) => overlapped')
                   \/ \E k \in Launcher : InFlight(k) /\ (k = Start \/ ~Unborn(k)') /\ \A j \in Launcher : j # k => launch'[j] = launch[j]
  BY <1>4, TypedParts, ReconConstants, TimerFiresDoes DEF elsewhere, Begun, Registered, Asked, InFlight, Unborn
<1>5. ASSUME NEW q \in Request, NEW kind \in Kinds, CallMade(q, kind)
      PROVE  \/ ~mem.recon.kept \/ mem'.recon.kept
             \/ mem'.mark /\ (Asked \/ Asked')
             \/ /\ mem'.registry = NoEngine \/ (launch[Start].at \in {"fenced", "reaping"} /\ mem'.registry = mem.registry)
                /\ \/ mem.registry # NoEngine /\ mem.eng[mem.registry] \in Alive /\ launch' = launch
                   \/ Begun
                   \/ launch' = launch /\ ((\E k \in Attempt : InFlight(k)) => overlapped')
                   \/ \E k \in Launcher : InFlight(k) /\ (k = Start \/ ~Unborn(k)') /\ \A j \in Launcher : j # k => launch'[j] = launch[j]
  <2>1. CASE kind \in {"stop", "delete"} /\ Called(q, kind)
    BY <1>5, <2>1, TypedParts, ReconConstants, CalledDoes DEF CallMade, Asked, InFlight, Unborn
  <2>2. CASE kind \in {"logout", "kill"} /\ EngineCalled(q, kind)
    BY <1>5, <2>2, TypedParts, ReconConstants, EngineCalledDoes DEF CallMade, Asked, InFlight, Unborn
  <2>. QED BY <2>1, <2>2, <1>5 DEF CallMade
<1>6. ASSUME NEW q \in Request, RequestSteps(q)
      PROVE  \/ ~mem.recon.kept \/ mem'.recon.kept
             \/ mem'.mark /\ (Asked \/ Asked')
             \/ /\ mem'.registry = NoEngine \/ (launch[Start].at \in {"fenced", "reaping"} /\ mem'.registry = mem.registry)
                /\ \/ mem.registry # NoEngine /\ mem.eng[mem.registry] \in Alive /\ launch' = launch
                   \/ Begun
                   \/ launch' = launch /\ ((\E k \in Attempt : InFlight(k)) => overlapped')
                   \/ \E k \in Launcher : InFlight(k) /\ (k = Start \/ ~Unborn(k)') /\ \A j \in Launcher : j # k => launch'[j] = launch[j]
  <2>1. CASE StopCaptures(q)
    BY <2>1, TypedParts, ReconConstants, StopCapturesDoes DEF histVars, Asked, InFlight, Unborn
  <2>2. CASE WaitEnds(q)
    BY <2>2, TypedParts, ReconConstants, WaitEndsDoes DEF histVars, Asked, InFlight, Unborn
  <2>3. CASE StopCloses(q) \/ LogoutReturns(q) \/ KillEnds(q)
    BY <2>3, TypedParts, ReconConstants, ClosesDoes DEF histVars, Asked, InFlight, Unborn
  <2>4. CASE LogoutOverruns(q)
    BY <2>4, TypedParts, ReconConstants, LogoutOverrunsDoes DEF histVars, Asked, InFlight, Unborn
  <2>5. CASE StopEscalates(q)
    BY <2>5, TypedParts, ReconConstants, StopEscalatesDoes DEF histVars, Asked, InFlight, Unborn
  <2>6. CASE DeleteEnters(q)
    BY <2>6, TypedParts, ReconConstants, DeleteEntersDoes DEF DeleteStarts, histVars, Asked, InFlight, Unborn
  <2>7. CASE DeleteFenceOpens(q)
    BY <2>7, TypedParts, ReconConstants, DeleteFenceOpensDoes DEF DeleteStarts, histVars, Asked, InFlight, Unborn
  <2>8. CASE DeleteRefused(q)
    BY <2>8, TypedParts, ReconConstants, DeleteRefusedDoes DEF Asked, InFlight, Unborn
  <2>9. CASE RowDeleted(q)
    BY <2>9, TypedParts, ReconConstants, RowDeletedDoes DEF histVars, Asked, InFlight, Unborn
  <2>10. CASE NotFound(q) \/ DeleteFails(q) \/ Purged(q)
    BY <2>10, TypedParts, ReconConstants, UnmarksDoes DEF histVars, Asked, InFlight, Unborn
  <2>. QED BY <2>1, <2>2, <2>3, <2>4, <2>5, <2>6, <2>7, <2>8, <2>9, <2>10, <1>6 DEF RequestSteps
<1>7. ASSUME NEW e \in Engine, EngineSteps(e)
      PROVE  \/ ~mem.recon.kept \/ mem'.recon.kept
             \/ mem'.mark /\ (Asked \/ Asked')
             \/ /\ mem'.registry = NoEngine \/ (launch[Start].at \in {"fenced", "reaping"} /\ mem'.registry = mem.registry)
                /\ \/ mem.registry # NoEngine /\ mem.eng[mem.registry] \in Alive /\ launch' = launch
                   \/ Begun
                   \/ launch' = launch /\ ((\E k \in Attempt : InFlight(k)) => overlapped')
                   \/ \E k \in Launcher : InFlight(k) /\ (k = Start \/ ~Unborn(k)') /\ \A j \in Launcher : j # k => launch'[j] = launch[j]
  <2>1. CASE KillLands(e) \/ LeakEnds(e)
    BY <2>1, TypedParts, ReconConstants, KillLandsDoes DEF others, histVars, Asked, InFlight, Unborn
  <2>2. CASE RemovalSettles(e)
    BY <2>2, TypedParts, ReconConstants DEF RemovalSettles, others, histVars, Asked, InFlight, Unborn
  <2>3. CASE EngineReady(e) \/ EngineWedges(e)
    BY <2>3, TypedParts, ReconConstants, EngineRunsDoes DEF others, histVars, Asked, InFlight, Unborn
  <2>4. CASE EngineDrops(e) \/ EngineUnlinked(e) \/ EngineFails(e) \/ StuckAuth(e) \/ WipeLands(e)
    <3>1. /\ launch' = launch
          /\ \/ mem'.recon = mem.recon
             \/ mem.eng[e] \in Alive /\ mem.registry = e /\ mem'.registry = NoEngine
      BY <2>4, EngineEndsDoes DEF others
    <3>. QED BY <3>1, TypedParts
  <2>5. CASE ProbeFails(e) \/ ProbePasses
    BY <2>5, TypedParts, ReconConstants, ProbesDoes DEF others, histVars, Asked, InFlight, Unborn
  <2>6. CASE DropHandled(e)
    BY <2>6, TypedParts, ReconConstants, DropHandledDoes DEF Asked, InFlight, Unborn
  <2>7. CASE DropUnread(e)
    BY <2>7, TypedParts, ReconConstants, DropUnreadDoes DEF others, histVars, Asked, InFlight, Unborn
  <2>. QED BY <2>1, <2>2, <2>3, <2>4, <2>5, <2>6, <2>7, <1>7 DEF EngineSteps
<1>. QED BY <1>1, <1>2, <1>3, <1>4, <1>5, <1>6, <1>7, NextCases


\* An attempt begins with the timer of the state it belongs to.
LEMMA AttemptBegins ==
    ASSUME Typed, NEW k \in Attempt, [Next]_vars
    PROVE  \/ Unborn(k) \/ ~Unborn(k)'
           \/ mem.recon.armed /\ mem'.recon.kept = mem.recon.kept
<1>1. CASE UNCHANGED vars
  BY <1>1, TypedParts, ReconConstants DEF vars, histVars, Unborn
<1>2. CASE StartSteps
  <2>1. CASE StartCalled
    BY <2>1, TypedParts, ReconConstants, StartCalledDoes DEF elsewhere, Begun, Unborn
  <2>2. CASE HookDone
    BY <2>2, TypedParts, ReconConstants, HookDoneDoes DEF elsewhere, Registered, histVars, Unborn
  <2>3. CASE ReapEnds
    BY <2>3, TypedParts, ReconConstants, ReapEndsDoes DEF elsewhere, histVars, Unborn
  <2>. QED BY <2>1, <2>2, <2>3, <1>2 DEF StartSteps
<1>3. ASSUME NEW l \in Launcher, LaunchSteps(l)
      PROVE  \/ Unborn(k) \/ ~Unborn(k)'
             \/ mem.recon.armed /\ mem'.recon.kept = mem.recon.kept
  <2>1. CASE FenceOpens(l)
    <3>1. CASE l = Start
      BY <2>1, <3>1, TypedParts, FenceOpensDoes, ReconConstants DEF elsewhere, histVars, Unborn
    <3>2. CASE l # Start
      BY <2>1, <3>2, TypedParts, FenceOpensDoes, ReconConstants DEF Registered, elsewhere, histVars, Unborn
    <3>. QED BY <3>1, <3>2
  <2>2. CASE FenceRefuses(l)
    BY <2>2, TypedParts, ReconConstants, FenceRefusesDoes DEF elsewhere, Unborn
  <2>3. CASE WriteSettles(l)
    BY <2>3, TypedParts, ReconConstants, WriteSettlesDoes DEF elsewhere, histVars, Unborn
  <2>4. CASE WriteFails(l)
    BY <2>4, TypedParts, ReconConstants, WriteFailsDoes DEF elsewhere, Unborn
  <2>5. CASE InitResolves(l)
    BY <2>5, TypedParts, ReconConstants, InitResolvesDoes DEF elsewhere, histVars, Unborn
  <2>6. CASE InitRejects(l)
    BY <2>6, TypedParts, ReconConstants, InitRejectsDoes DEF elsewhere, Unborn
  <2>7. CASE InitTimesOut(l)
    BY <2>7, TypedParts, ReconConstants, InitTimesOutDoes DEF elsewhere, histVars, Unborn
  <2>8. CASE LateKillEnds(l)
    BY <2>8, TypedParts, ReconConstants, LateKillEndsDoes DEF elsewhere, Unborn
  <2>9. CASE RowRead(l)
    BY <2>9, TypedParts, ReconConstants, RowReadDoes DEF elsewhere, Unborn
  <2>10. CASE RetireEnds(l) \/ RetireTimesOut(l)
    BY <2>10, TypedParts, ReconConstants, RetireEndsDoes DEF elsewhere, histVars, Unborn
  <2>11. CASE Repurged(l)
    BY <2>11, TypedParts, ReconConstants, RepurgedDoes DEF elsewhere, histVars, Unborn
  <2>12. CASE OldEngineGone(l)
    BY <2>12, TypedParts, ReconConstants, OldEngineGoneDoes DEF elsewhere, histVars, Unborn
  <2>13. CASE DestroyTimesOut(l)
    BY <2>13, TypedParts, ReconConstants, DestroyTimesOutDoes DEF elsewhere, histVars, Unborn
  <2>. QED BY <2>1, <2>2, <2>3, <2>4, <2>5, <2>6, <2>7, <2>8, <2>9, <2>10, <2>11, <2>12, <2>13, <1>3 DEF LaunchSteps
<1>4. ASSUME NEW l \in Attempt, TimerFires(l)
      PROVE  \/ Unborn(k) \/ ~Unborn(k)'
             \/ mem.recon.armed /\ mem'.recon.kept = mem.recon.kept
  BY <1>4, TypedParts, ReconConstants, TimerFiresDoes DEF elsewhere, Begun, Registered, Unborn
<1>5. ASSUME NEW q \in Request, NEW kind \in Kinds, CallMade(q, kind)
      PROVE  \/ Unborn(k) \/ ~Unborn(k)'
             \/ mem.recon.armed /\ mem'.recon.kept = mem.recon.kept
  <2>1. CASE kind \in {"stop", "delete"} /\ Called(q, kind)
    BY <1>5, <2>1, TypedParts, ReconConstants, CalledDoes DEF CallMade, Unborn
  <2>2. CASE kind \in {"logout", "kill"} /\ EngineCalled(q, kind)
    BY <1>5, <2>2, TypedParts, ReconConstants, EngineCalledDoes DEF CallMade, Unborn
  <2>. QED BY <2>1, <2>2, <1>5 DEF CallMade
<1>6. ASSUME NEW q \in Request, RequestSteps(q)
      PROVE  \/ Unborn(k) \/ ~Unborn(k)'
             \/ mem.recon.armed /\ mem'.recon.kept = mem.recon.kept
  <2>1. CASE StopCaptures(q)
    BY <2>1, TypedParts, ReconConstants, StopCapturesDoes DEF histVars, Unborn
  <2>2. CASE WaitEnds(q)
    BY <2>2, TypedParts, ReconConstants, WaitEndsDoes DEF histVars, Unborn
  <2>3. CASE StopCloses(q) \/ LogoutReturns(q) \/ KillEnds(q)
    BY <2>3, TypedParts, ReconConstants, ClosesDoes DEF histVars, Unborn
  <2>4. CASE LogoutOverruns(q)
    BY <2>4, TypedParts, ReconConstants, LogoutOverrunsDoes DEF histVars, Unborn
  <2>5. CASE StopEscalates(q)
    BY <2>5, TypedParts, ReconConstants, StopEscalatesDoes DEF histVars, Unborn
  <2>6. CASE DeleteEnters(q)
    BY <2>6, TypedParts, ReconConstants, DeleteEntersDoes DEF DeleteStarts, histVars, Unborn
  <2>7. CASE DeleteFenceOpens(q)
    BY <2>7, TypedParts, ReconConstants, DeleteFenceOpensDoes DEF DeleteStarts, histVars, Unborn
  <2>8. CASE DeleteRefused(q)
    BY <2>8, TypedParts, ReconConstants, DeleteRefusedDoes DEF Unborn
  <2>9. CASE RowDeleted(q)
    BY <2>9, TypedParts, ReconConstants, RowDeletedDoes DEF histVars, Unborn
  <2>10. CASE NotFound(q) \/ DeleteFails(q) \/ Purged(q)
    BY <2>10, TypedParts, ReconConstants, UnmarksDoes DEF histVars, Unborn
  <2>. QED BY <2>1, <2>2, <2>3, <2>4, <2>5, <2>6, <2>7, <2>8, <2>9, <2>10, <1>6 DEF RequestSteps
<1>7. ASSUME NEW e \in Engine, EngineSteps(e)
      PROVE  \/ Unborn(k) \/ ~Unborn(k)'
             \/ mem.recon.armed /\ mem'.recon.kept = mem.recon.kept
  <2>1. CASE KillLands(e) \/ LeakEnds(e)
    BY <2>1, TypedParts, ReconConstants, KillLandsDoes DEF others, histVars, Unborn
  <2>2. CASE RemovalSettles(e)
    BY <2>2, TypedParts, ReconConstants DEF RemovalSettles, others, histVars, Unborn
  <2>3. CASE EngineReady(e) \/ EngineWedges(e)
    BY <2>3, TypedParts, ReconConstants, EngineRunsDoes DEF others, histVars, Unborn
  <2>4. CASE EngineDrops(e) \/ EngineUnlinked(e) \/ EngineFails(e) \/ StuckAuth(e) \/ WipeLands(e)
    BY <2>4, TypedParts, ReconConstants, EngineEndsDoes DEF others, histVars, Unborn
  <2>5. CASE ProbeFails(e) \/ ProbePasses
    BY <2>5, TypedParts, ReconConstants, ProbesDoes DEF others, histVars, Unborn
  <2>6. CASE DropHandled(e)
    BY <2>6, TypedParts, ReconConstants, DropHandledDoes DEF Unborn
  <2>7. CASE DropUnread(e)
    BY <2>7, TypedParts, ReconConstants, DropUnreadDoes DEF others, histVars, Unborn
  <2>. QED BY <2>1, <2>2, <2>3, <2>4, <2>5, <2>6, <2>7, <1>7 DEF EngineSteps
<1>. QED BY <1>1, <1>2, <1>3, <1>4, <1>5, <1>6, <1>7, NextCases


\* Once INITIALIZING is written the engine is opened.
LEMMA WritingGoes ==
    ASSUME Typed, NEW k \in Launcher, [Next]_vars
    PROVE  \/ launch[k].at # "writing" \/ launch'[k] = launch[k]
           \/ mem'.registry = NoEngine \/ mem.mark \/ mem.registry # launch[k].eng
           \/ mem.eng[mem.registry] # "made" \/ mem'.eng[mem.registry] = "open"
<1>1. CASE UNCHANGED vars
  BY <1>1, TypedParts DEF vars, histVars
<1>2. CASE StartSteps
  <2>1. CASE StartCalled
    BY <2>1, TypedParts, StartCalledDoes DEF elsewhere, Begun
  <2>2. CASE HookDone
    BY <2>2, TypedParts, HookDoneDoes DEF elsewhere, Registered, histVars
  <2>3. CASE ReapEnds
    BY <2>3, TypedParts, ReapEndsDoes DEF elsewhere, histVars
  <2>. QED BY <2>1, <2>2, <2>3, <1>2 DEF StartSteps
<1>3. ASSUME NEW l \in Launcher, LaunchSteps(l)
      PROVE  \/ launch[k].at # "writing" \/ launch'[k] = launch[k]
             \/ mem'.registry = NoEngine \/ mem.mark \/ mem.registry # launch[k].eng
             \/ mem.eng[mem.registry] # "made" \/ mem'.eng[mem.registry] = "open"
  <2>1. CASE FenceOpens(l)
    <3>1. CASE l = Start
      BY <2>1, <3>1, TypedParts, FenceOpensDoes DEF elsewhere, histVars
    <3>2. CASE l # Start
      BY <2>1, <3>2, TypedParts, FenceOpensDoes DEF Registered, elsewhere, histVars
    <3>. QED BY <3>1, <3>2
  <2>2. CASE FenceRefuses(l)
    BY <2>2, TypedParts, FenceRefusesDoes DEF elsewhere
  <2>3. CASE WriteSettles(l)
    BY <2>3, TypedParts, WriteSettlesDoes DEF elsewhere, histVars
  <2>4. CASE WriteFails(l)
    BY <2>4, TypedParts, WriteFailsDoes DEF elsewhere
  <2>5. CASE InitResolves(l)
    BY <2>5, TypedParts, InitResolvesDoes DEF elsewhere, histVars
  <2>6. CASE InitRejects(l)
    BY <2>6, TypedParts, InitRejectsDoes DEF elsewhere
  <2>7. CASE InitTimesOut(l)
    BY <2>7, TypedParts, InitTimesOutDoes DEF elsewhere, histVars
  <2>8. CASE LateKillEnds(l)
    BY <2>8, TypedParts, LateKillEndsDoes DEF elsewhere
  <2>9. CASE RowRead(l)
    BY <2>9, TypedParts, RowReadDoes DEF elsewhere
  <2>10. CASE RetireEnds(l) \/ RetireTimesOut(l)
    BY <2>10, TypedParts, RetireEndsDoes DEF elsewhere, histVars
  <2>11. CASE Repurged(l)
    BY <2>11, TypedParts, RepurgedDoes DEF elsewhere, histVars
  <2>12. CASE OldEngineGone(l)
    BY <2>12, TypedParts, OldEngineGoneDoes DEF elsewhere, histVars
  <2>13. CASE DestroyTimesOut(l)
    BY <2>13, TypedParts, DestroyTimesOutDoes DEF elsewhere, histVars
  <2>. QED BY <2>1, <2>2, <2>3, <2>4, <2>5, <2>6, <2>7, <2>8, <2>9, <2>10, <2>11, <2>12, <2>13, <1>3 DEF LaunchSteps
<1>4. ASSUME NEW l \in Attempt, TimerFires(l)
      PROVE  \/ launch[k].at # "writing" \/ launch'[k] = launch[k]
             \/ mem'.registry = NoEngine \/ mem.mark \/ mem.registry # launch[k].eng
             \/ mem.eng[mem.registry] # "made" \/ mem'.eng[mem.registry] = "open"
  BY <1>4, TypedParts, TimerFiresDoes DEF elsewhere, Begun, Registered
<1>5. ASSUME NEW q \in Request, NEW kind \in Kinds, CallMade(q, kind)
      PROVE  \/ launch[k].at # "writing" \/ launch'[k] = launch[k]
             \/ mem'.registry = NoEngine \/ mem.mark \/ mem.registry # launch[k].eng
             \/ mem.eng[mem.registry] # "made" \/ mem'.eng[mem.registry] = "open"
  <2>1. CASE kind \in {"stop", "delete"} /\ Called(q, kind)
    BY <1>5, <2>1, TypedParts, CalledDoes DEF CallMade
  <2>2. CASE kind \in {"logout", "kill"} /\ EngineCalled(q, kind)
    BY <1>5, <2>2, TypedParts, EngineCalledDoes DEF CallMade
  <2>. QED BY <2>1, <2>2, <1>5 DEF CallMade
<1>6. ASSUME NEW q \in Request, RequestSteps(q)
      PROVE  \/ launch[k].at # "writing" \/ launch'[k] = launch[k]
             \/ mem'.registry = NoEngine \/ mem.mark \/ mem.registry # launch[k].eng
             \/ mem.eng[mem.registry] # "made" \/ mem'.eng[mem.registry] = "open"
  <2>1. CASE StopCaptures(q)
    BY <2>1, TypedParts, StopCapturesDoes DEF histVars
  <2>2. CASE WaitEnds(q)
    BY <2>2, TypedParts, WaitEndsDoes DEF histVars
  <2>3. CASE StopCloses(q) \/ LogoutReturns(q) \/ KillEnds(q)
    BY <2>3, TypedParts, ClosesDoes DEF histVars
  <2>4. CASE LogoutOverruns(q)
    BY <2>4, TypedParts, LogoutOverrunsDoes DEF histVars
  <2>5. CASE StopEscalates(q)
    BY <2>5, TypedParts, StopEscalatesDoes DEF histVars
  <2>6. CASE DeleteEnters(q)
    BY <2>6, TypedParts, DeleteEntersDoes DEF DeleteStarts, histVars
  <2>7. CASE DeleteFenceOpens(q)
    BY <2>7, TypedParts, DeleteFenceOpensDoes DEF DeleteStarts, histVars
  <2>8. CASE DeleteRefused(q)
    BY <2>8, TypedParts, DeleteRefusedDoes
  <2>9. CASE RowDeleted(q)
    BY <2>9, TypedParts, RowDeletedDoes DEF histVars
  <2>10. CASE NotFound(q) \/ DeleteFails(q) \/ Purged(q)
    BY <2>10, TypedParts, UnmarksDoes DEF histVars
  <2>. QED BY <2>1, <2>2, <2>3, <2>4, <2>5, <2>6, <2>7, <2>8, <2>9, <2>10, <1>6 DEF RequestSteps
<1>7. ASSUME NEW e \in Engine, EngineSteps(e)
      PROVE  \/ launch[k].at # "writing" \/ launch'[k] = launch[k]
             \/ mem'.registry = NoEngine \/ mem.mark \/ mem.registry # launch[k].eng
             \/ mem.eng[mem.registry] # "made" \/ mem'.eng[mem.registry] = "open"
  <2>1. CASE KillLands(e) \/ LeakEnds(e)
    BY <2>1, TypedParts, KillLandsDoes DEF others, histVars
  <2>2. CASE RemovalSettles(e)
    BY <2>2, TypedParts DEF RemovalSettles, others, histVars
  <2>3. CASE EngineReady(e) \/ EngineWedges(e)
    BY <2>3, TypedParts, EngineRunsDoes DEF others, histVars
  <2>4. CASE EngineDrops(e) \/ EngineUnlinked(e) \/ EngineFails(e) \/ StuckAuth(e) \/ WipeLands(e)
    BY <2>4, TypedParts, EngineEndsDoes DEF others, histVars
  <2>5. CASE ProbeFails(e) \/ ProbePasses
    BY <2>5, TypedParts, ProbesDoes DEF others, histVars
  <2>6. CASE DropHandled(e)
    BY <2>6, TypedParts, DropHandledDoes
  <2>7. CASE DropUnread(e)
    BY <2>7, TypedParts, DropUnreadDoes DEF others, histVars
  <2>. QED BY <2>1, <2>2, <2>3, <2>4, <2>5, <2>6, <2>7, <1>7 DEF EngineSteps
<1>. QED BY <1>1, <1>2, <1>3, <1>4, <1>5, <1>6, <1>7, NextCases


\* An attempt lets go of the old engine.
LEMMA DestroyingGoes ==
    ASSUME Typed, NEW k \in Launcher, [Next]_vars
    PROVE  \/ launch[k].at \notin {"destroying", "escalating"}
           \/ launch'[k].at \in {"destroying", "escalating", "writing"}
           \/ mem'.registry # launch[k].victim
<1>1. CASE UNCHANGED vars
  BY <1>1, TypedParts DEF vars, histVars
<1>2. CASE StartSteps
  <2>1. CASE StartCalled
    BY <2>1, TypedParts, StartCalledDoes DEF elsewhere, Begun
  <2>2. CASE HookDone
    BY <2>2, TypedParts, HookDoneDoes DEF elsewhere, Registered, histVars
  <2>3. CASE ReapEnds
    BY <2>3, TypedParts, ReapEndsDoes DEF elsewhere, histVars
  <2>. QED BY <2>1, <2>2, <2>3, <1>2 DEF StartSteps
<1>3. ASSUME NEW l \in Launcher, LaunchSteps(l)
      PROVE  \/ launch[k].at \notin {"destroying", "escalating"}
             \/ launch'[k].at \in {"destroying", "escalating", "writing"}
             \/ mem'.registry # launch[k].victim
  <2>1. CASE FenceOpens(l)
    <3>1. CASE l = Start
      BY <2>1, <3>1, TypedParts, FenceOpensDoes DEF elsewhere, histVars
    <3>2. CASE l # Start
      BY <2>1, <3>2, TypedParts, FenceOpensDoes DEF Registered, elsewhere, histVars
    <3>. QED BY <3>1, <3>2
  <2>2. CASE FenceRefuses(l)
    BY <2>2, TypedParts, FenceRefusesDoes DEF elsewhere
  <2>3. CASE WriteSettles(l)
    BY <2>3, TypedParts, WriteSettlesDoes DEF elsewhere, histVars
  <2>4. CASE WriteFails(l)
    BY <2>4, TypedParts, WriteFailsDoes DEF elsewhere
  <2>5. CASE InitResolves(l)
    BY <2>5, TypedParts, InitResolvesDoes DEF elsewhere, histVars
  <2>6. CASE InitRejects(l)
    BY <2>6, TypedParts, InitRejectsDoes DEF elsewhere
  <2>7. CASE InitTimesOut(l)
    BY <2>7, TypedParts, InitTimesOutDoes DEF elsewhere, histVars
  <2>8. CASE LateKillEnds(l)
    BY <2>8, TypedParts, LateKillEndsDoes DEF elsewhere
  <2>9. CASE RowRead(l)
    BY <2>9, TypedParts, RowReadDoes DEF elsewhere
  <2>10. CASE RetireEnds(l) \/ RetireTimesOut(l)
    BY <2>10, TypedParts, RetireEndsDoes DEF elsewhere, histVars
  <2>11. CASE Repurged(l)
    BY <2>11, TypedParts, RepurgedDoes DEF elsewhere, histVars
  <2>12. CASE OldEngineGone(l)
    BY <2>12, TypedParts, OldEngineGoneDoes DEF elsewhere, histVars
  <2>13. CASE DestroyTimesOut(l)
    BY <2>13, TypedParts, DestroyTimesOutDoes DEF elsewhere, histVars
  <2>. QED BY <2>1, <2>2, <2>3, <2>4, <2>5, <2>6, <2>7, <2>8, <2>9, <2>10, <2>11, <2>12, <2>13, <1>3 DEF LaunchSteps
<1>4. ASSUME NEW l \in Attempt, TimerFires(l)
      PROVE  \/ launch[k].at \notin {"destroying", "escalating"}
             \/ launch'[k].at \in {"destroying", "escalating", "writing"}
             \/ mem'.registry # launch[k].victim
  BY <1>4, TypedParts, TimerFiresDoes DEF elsewhere, Begun, Registered
<1>5. ASSUME NEW q \in Request, NEW kind \in Kinds, CallMade(q, kind)
      PROVE  \/ launch[k].at \notin {"destroying", "escalating"}
             \/ launch'[k].at \in {"destroying", "escalating", "writing"}
             \/ mem'.registry # launch[k].victim
  <2>1. CASE kind \in {"stop", "delete"} /\ Called(q, kind)
    BY <1>5, <2>1, TypedParts, CalledDoes DEF CallMade
  <2>2. CASE kind \in {"logout", "kill"} /\ EngineCalled(q, kind)
    BY <1>5, <2>2, TypedParts, EngineCalledDoes DEF CallMade
  <2>. QED BY <2>1, <2>2, <1>5 DEF CallMade
<1>6. ASSUME NEW q \in Request, RequestSteps(q)
      PROVE  \/ launch[k].at \notin {"destroying", "escalating"}
             \/ launch'[k].at \in {"destroying", "escalating", "writing"}
             \/ mem'.registry # launch[k].victim
  <2>1. CASE StopCaptures(q)
    BY <2>1, TypedParts, StopCapturesDoes DEF histVars
  <2>2. CASE WaitEnds(q)
    BY <2>2, TypedParts, WaitEndsDoes DEF histVars
  <2>3. CASE StopCloses(q) \/ LogoutReturns(q) \/ KillEnds(q)
    BY <2>3, TypedParts, ClosesDoes DEF histVars
  <2>4. CASE LogoutOverruns(q)
    BY <2>4, TypedParts, LogoutOverrunsDoes DEF histVars
  <2>5. CASE StopEscalates(q)
    BY <2>5, TypedParts, StopEscalatesDoes DEF histVars
  <2>6. CASE DeleteEnters(q)
    BY <2>6, TypedParts, DeleteEntersDoes DEF DeleteStarts, histVars
  <2>7. CASE DeleteFenceOpens(q)
    BY <2>7, TypedParts, DeleteFenceOpensDoes DEF DeleteStarts, histVars
  <2>8. CASE DeleteRefused(q)
    BY <2>8, TypedParts, DeleteRefusedDoes
  <2>9. CASE RowDeleted(q)
    BY <2>9, TypedParts, RowDeletedDoes DEF histVars
  <2>10. CASE NotFound(q) \/ DeleteFails(q) \/ Purged(q)
    BY <2>10, TypedParts, UnmarksDoes DEF histVars
  <2>. QED BY <2>1, <2>2, <2>3, <2>4, <2>5, <2>6, <2>7, <2>8, <2>9, <2>10, <1>6 DEF RequestSteps
<1>7. ASSUME NEW e \in Engine, EngineSteps(e)
      PROVE  \/ launch[k].at \notin {"destroying", "escalating"}
             \/ launch'[k].at \in {"destroying", "escalating", "writing"}
             \/ mem'.registry # launch[k].victim
  <2>1. CASE KillLands(e) \/ LeakEnds(e)
    BY <2>1, TypedParts, KillLandsDoes DEF others, histVars
  <2>2. CASE RemovalSettles(e)
    BY <2>2, TypedParts DEF RemovalSettles, others, histVars
  <2>3. CASE EngineReady(e) \/ EngineWedges(e)
    BY <2>3, TypedParts, EngineRunsDoes DEF others, histVars
  <2>4. CASE EngineDrops(e) \/ EngineUnlinked(e) \/ EngineFails(e) \/ StuckAuth(e) \/ WipeLands(e)
    BY <2>4, TypedParts, EngineEndsDoes DEF others, histVars
  <2>5. CASE ProbeFails(e) \/ ProbePasses
    BY <2>5, TypedParts, ProbesDoes DEF others, histVars
  <2>6. CASE DropHandled(e)
    BY <2>6, TypedParts, DropHandledDoes
  <2>7. CASE DropUnread(e)
    BY <2>7, TypedParts, DropUnreadDoes DEF others, histVars
  <2>. QED BY <2>1, <2>2, <2>3, <2>4, <2>5, <2>6, <2>7, <1>7 DEF EngineSteps
<1>. QED BY <1>1, <1>2, <1>3, <1>4, <1>5, <1>6, <1>7, NextCases


\* A new engine is registered with reconnect state.
LEMMA RegistersKept ==
    ASSUME Typed, [Next]_vars
    PROVE  \/ mem'.registry \in {mem.registry, NoEngine}
           \/ launch[Start].at = "hook" /\ mem'.recon.kept
           \/ mem'.recon.kept = mem.recon.kept /\ (mem.recon.armed \/ \E k \in Attempt : Unborn(k))
<1>1. CASE UNCHANGED vars
  BY <1>1, TypedParts, ReconConstants DEF vars, histVars, Unborn
<1>2. CASE StartSteps
  <2>1. CASE StartCalled
    BY <2>1, TypedParts, ReconConstants, StartCalledDoes DEF elsewhere, Begun, Unborn
  <2>2. CASE HookDone
    BY <2>2, TypedParts, ReconConstants, HookDoneDoes DEF Registered
  <2>3. CASE ReapEnds
    BY <2>3, TypedParts, ReconConstants, ReapEndsDoes DEF elsewhere, histVars, Unborn
  <2>. QED BY <2>1, <2>2, <2>3, <1>2 DEF StartSteps
<1>3. ASSUME NEW l \in Launcher, LaunchSteps(l)
      PROVE  \/ mem'.registry \in {mem.registry, NoEngine}
             \/ launch[Start].at = "hook" /\ mem'.recon.kept
             \/ mem'.recon.kept = mem.recon.kept /\ (mem.recon.armed \/ \E k \in Attempt : Unborn(k))
  <2>1. CASE FenceOpens(l)
    <3>1. CASE l = Start
      BY <2>1, <3>1, TypedParts, FenceOpensDoes, ReconConstants DEF elsewhere, histVars, Unborn
    <3>2. CASE l # Start
      BY <2>1, <3>2, TypedParts, FenceOpensDoes, ReconConstants DEF Registered, elsewhere, histVars, Unborn
    <3>. QED BY <3>1, <3>2
  <2>2. CASE FenceRefuses(l)
    BY <2>2, TypedParts, ReconConstants, FenceRefusesDoes DEF elsewhere, Unborn
  <2>3. CASE WriteSettles(l)
    BY <2>3, TypedParts, ReconConstants, WriteSettlesDoes DEF elsewhere, histVars, Unborn
  <2>4. CASE WriteFails(l)
    BY <2>4, TypedParts, ReconConstants, WriteFailsDoes DEF elsewhere, Unborn
  <2>5. CASE InitResolves(l)
    BY <2>5, TypedParts, ReconConstants, InitResolvesDoes DEF elsewhere, histVars, Unborn
  <2>6. CASE InitRejects(l)
    BY <2>6, TypedParts, ReconConstants, InitRejectsDoes DEF elsewhere, Unborn
  <2>7. CASE InitTimesOut(l)
    BY <2>7, TypedParts, ReconConstants, InitTimesOutDoes DEF elsewhere, histVars, Unborn
  <2>8. CASE LateKillEnds(l)
    BY <2>8, TypedParts, ReconConstants, LateKillEndsDoes DEF elsewhere, Unborn
  <2>9. CASE RowRead(l)
    BY <2>9, TypedParts, ReconConstants, RowReadDoes DEF elsewhere, Unborn
  <2>10. CASE RetireEnds(l) \/ RetireTimesOut(l)
    BY <2>10, TypedParts, ReconConstants, RetireEndsDoes DEF elsewhere, histVars, Unborn
  <2>11. CASE Repurged(l)
    BY <2>11, TypedParts, ReconConstants, RepurgedDoes DEF elsewhere, histVars, Unborn
  <2>12. CASE OldEngineGone(l)
    BY <2>12, TypedParts, ReconConstants, OldEngineGoneDoes DEF elsewhere, histVars, Unborn
  <2>13. CASE DestroyTimesOut(l)
    BY <2>13, TypedParts, ReconConstants, DestroyTimesOutDoes DEF elsewhere, histVars, Unborn
  <2>. QED BY <2>1, <2>2, <2>3, <2>4, <2>5, <2>6, <2>7, <2>8, <2>9, <2>10, <2>11, <2>12, <2>13, <1>3 DEF LaunchSteps
<1>4. ASSUME NEW l \in Attempt, TimerFires(l)
      PROVE  \/ mem'.registry \in {mem.registry, NoEngine}
             \/ launch[Start].at = "hook" /\ mem'.recon.kept
             \/ mem'.recon.kept = mem.recon.kept /\ (mem.recon.armed \/ \E k \in Attempt : Unborn(k))
  BY <1>4, TypedParts, ReconConstants, TimerFiresDoes DEF elsewhere, Begun, Registered, Unborn
<1>5. ASSUME NEW q \in Request, NEW kind \in Kinds, CallMade(q, kind)
      PROVE  \/ mem'.registry \in {mem.registry, NoEngine}
             \/ launch[Start].at = "hook" /\ mem'.recon.kept
             \/ mem'.recon.kept = mem.recon.kept /\ (mem.recon.armed \/ \E k \in Attempt : Unborn(k))
  <2>1. CASE kind \in {"stop", "delete"} /\ Called(q, kind)
    BY <1>5, <2>1, TypedParts, ReconConstants, CalledDoes DEF CallMade, Unborn
  <2>2. CASE kind \in {"logout", "kill"} /\ EngineCalled(q, kind)
    BY <1>5, <2>2, TypedParts, ReconConstants, EngineCalledDoes DEF CallMade, Unborn
  <2>. QED BY <2>1, <2>2, <1>5 DEF CallMade
<1>6. ASSUME NEW q \in Request, RequestSteps(q)
      PROVE  \/ mem'.registry \in {mem.registry, NoEngine}
             \/ launch[Start].at = "hook" /\ mem'.recon.kept
             \/ mem'.recon.kept = mem.recon.kept /\ (mem.recon.armed \/ \E k \in Attempt : Unborn(k))
  <2>1. CASE StopCaptures(q)
    BY <2>1, TypedParts, ReconConstants, StopCapturesDoes DEF histVars, Unborn
  <2>2. CASE WaitEnds(q)
    BY <2>2, TypedParts, ReconConstants, WaitEndsDoes DEF histVars, Unborn
  <2>3. CASE StopCloses(q) \/ LogoutReturns(q) \/ KillEnds(q)
    BY <2>3, TypedParts, ReconConstants, ClosesDoes DEF histVars, Unborn
  <2>4. CASE LogoutOverruns(q)
    BY <2>4, TypedParts, ReconConstants, LogoutOverrunsDoes DEF histVars, Unborn
  <2>5. CASE StopEscalates(q)
    BY <2>5, TypedParts, ReconConstants, StopEscalatesDoes DEF histVars, Unborn
  <2>6. CASE DeleteEnters(q)
    BY <2>6, TypedParts, ReconConstants, DeleteEntersDoes DEF DeleteStarts, histVars, Unborn
  <2>7. CASE DeleteFenceOpens(q)
    BY <2>7, TypedParts, ReconConstants, DeleteFenceOpensDoes DEF DeleteStarts, histVars, Unborn
  <2>8. CASE DeleteRefused(q)
    BY <2>8, TypedParts, ReconConstants, DeleteRefusedDoes DEF Unborn
  <2>9. CASE RowDeleted(q)
    BY <2>9, TypedParts, ReconConstants, RowDeletedDoes DEF histVars, Unborn
  <2>10. CASE NotFound(q) \/ DeleteFails(q) \/ Purged(q)
    BY <2>10, TypedParts, ReconConstants, UnmarksDoes DEF histVars, Unborn
  <2>. QED BY <2>1, <2>2, <2>3, <2>4, <2>5, <2>6, <2>7, <2>8, <2>9, <2>10, <1>6 DEF RequestSteps
<1>7. ASSUME NEW e \in Engine, EngineSteps(e)
      PROVE  \/ mem'.registry \in {mem.registry, NoEngine}
             \/ launch[Start].at = "hook" /\ mem'.recon.kept
             \/ mem'.recon.kept = mem.recon.kept /\ (mem.recon.armed \/ \E k \in Attempt : Unborn(k))
  <2>1. CASE KillLands(e) \/ LeakEnds(e)
    BY <2>1, TypedParts, ReconConstants, KillLandsDoes DEF others, histVars, Unborn
  <2>2. CASE RemovalSettles(e)
    BY <2>2, TypedParts, ReconConstants DEF RemovalSettles, others, histVars, Unborn
  <2>3. CASE EngineReady(e) \/ EngineWedges(e)
    BY <2>3, TypedParts, ReconConstants, EngineRunsDoes DEF others, histVars, Unborn
  <2>4. CASE EngineDrops(e) \/ EngineUnlinked(e) \/ EngineFails(e) \/ StuckAuth(e) \/ WipeLands(e)
    BY <2>4, TypedParts, ReconConstants, EngineEndsDoes DEF others, histVars, Unborn
  <2>5. CASE ProbeFails(e) \/ ProbePasses
    BY <2>5, TypedParts, ReconConstants, ProbesDoes DEF others, histVars, Unborn
  <2>6. CASE DropHandled(e)
    BY <2>6, TypedParts, ReconConstants, DropHandledDoes DEF Unborn
  <2>7. CASE DropUnread(e)
    BY <2>7, TypedParts, ReconConstants, DropUnreadDoes DEF others, histVars, Unborn
  <2>. QED BY <2>1, <2>2, <2>3, <2>4, <2>5, <2>6, <2>7, <1>7 DEF EngineSteps
<1>. QED BY <1>1, <1>2, <1>3, <1>4, <1>5, <1>6, <1>7, NextCases


\* A launch that awaits its INITIALIZING write has the registered engine, made
\* and not opened, and the calls that captured it wait for the same write.
Fresh(l) ==
    launch[l].at = "writing" =>
        LET e == launch[l].eng
        IN  /\ mem.registry = e /\ mem.writing = e /\ mem.eng[e] = "made"
            /\ e \notin losing /\ e \notin mem.dying
            /\ \A q \in Request : request[q].eng = e => request[q].at = "waiting"

\* What calls and engines do leaves a new engine alone while its write is pending.
LEMMA FreshStays ==
    ASSUME Typed, NEW f \in Engine, mem.registry = f, mem.writing = f, mem.eng[f] = "made",
           f \notin losing, f \notin mem.dying,
           \A q \in Request : request[q].eng = f => request[q].at = "waiting",
           \/ \E q \in Request, kind \in Kinds : CallMade(q, kind)
           \/ \E q \in Request : RequestSteps(q)
           \/ \E e \in Engine : EngineSteps(e)
    PROVE  mem'.registry = f /\ mem'.writing = f /\ mem'.eng[f] = "made" /\ f \notin losing' /\ f \notin mem'.dying
<1>5. ASSUME NEW q \in Request, NEW kind \in Kinds, CallMade(q, kind)
      PROVE  mem'.registry = f /\ mem'.writing = f /\ mem'.eng[f] = "made" /\ f \notin losing' /\ f \notin mem'.dying
  <2>1. CASE kind \in {"stop", "delete"} /\ Called(q, kind)
    BY <1>5, <2>1, TypedParts, CalledDoes DEF CallMade, Latched
  <2>2. CASE kind \in {"logout", "kill"} /\ EngineCalled(q, kind)
    BY <1>5, <2>2, TypedParts, EngineCalledDoes DEF CallMade, Latched
  <2>. QED BY <2>1, <2>2, <1>5 DEF CallMade
<1>6. ASSUME NEW q \in Request, RequestSteps(q)
      PROVE  mem'.registry = f /\ mem'.writing = f /\ mem'.eng[f] = "made" /\ f \notin losing' /\ f \notin mem'.dying
  <2>1. CASE StopCaptures(q)
    BY <2>1, TypedParts, StopCapturesDoes DEF histVars, Latched, Becomes
  <2>2. CASE WaitEnds(q)
    <3>1. request[q].eng # f
      BY <2>2 DEF WaitEnds
    <3>. QED BY <2>2, <3>1, TypedParts, WaitEndsDoes DEF Latched, histVars
  <2>3. CASE StopCloses(q) \/ LogoutReturns(q) \/ KillEnds(q)
    <3>1. request[q].eng # f
      BY <2>3, ClosesDoes
    <3>. QED BY <2>3, <3>1, TypedParts, ClosesDoes DEF Becomes
  <2>4. CASE LogoutOverruns(q)
    <3>1. request[q].eng # f
      BY <2>4, LogoutOverrunsDoes
    <3>. QED BY <2>4, <3>1, TypedParts, LogoutOverrunsDoes
  <2>5. CASE StopEscalates(q)
    BY <2>5, TypedParts, StopEscalatesDoes DEF histVars, Latched, Becomes
  <2>6. CASE DeleteEnters(q)
    BY <2>6, TypedParts, DeleteEntersDoes DEF DeleteStarts, histVars, Latched, Becomes
  <2>7. CASE DeleteFenceOpens(q)
    BY <2>7, TypedParts, DeleteFenceOpensDoes DEF DeleteStarts, histVars, Latched, Becomes
  <2>8. CASE DeleteRefused(q)
    BY <2>8, TypedParts, DeleteRefusedDoes DEF Latched, Becomes
  <2>9. CASE RowDeleted(q)
    BY <2>9, TypedParts, RowDeletedDoes DEF histVars, Latched, Becomes
  <2>10. CASE NotFound(q) \/ DeleteFails(q) \/ Purged(q)
    BY <2>10, TypedParts, UnmarksDoes DEF histVars, Latched, Becomes
  <2>. QED BY <2>1, <2>2, <2>3, <2>4, <2>5, <2>6, <2>7, <2>8, <2>9, <2>10, <1>6 DEF RequestSteps
<1>7. ASSUME NEW e \in Engine, EngineSteps(e)
      PROVE  mem'.registry = f /\ mem'.writing = f /\ mem'.eng[f] = "made" /\ f \notin losing' /\ f \notin mem'.dying
  <2>1. CASE KillLands(e) \/ LeakEnds(e)
    BY <2>1, TypedParts, KillLandsDoes DEF others, histVars, Latched, Becomes, Alive
  <2>2. CASE RemovalSettles(e)
    BY <2>2 DEF RemovalSettles, others
  <2>3. CASE EngineReady(e) \/ EngineWedges(e)
    BY <2>3, TypedParts, EngineRunsDoes DEF others, histVars, Latched, Becomes, Alive
  <2>4. CASE EngineDrops(e) \/ EngineUnlinked(e) \/ EngineFails(e) \/ StuckAuth(e) \/ WipeLands(e)
    <3>1. \/ e # f /\ Becomes(mem', mem, e, "lost") /\ Now(mem', f, mem.mark, mem.recon, f, mem.dying)
             /\ losing' \subseteq losing \cup {e}
          \/ mem'.eng = mem.eng /\ Now(mem', f, mem.mark, mem.recon, f, mem.dying) /\ losing' = losing
      BY <2>4, EngineEndsDoes DEF Alive
    <3>. QED BY <3>1 DEF Becomes
  <2>5. CASE ProbeFails(e) \/ ProbePasses
    BY <2>5, TypedParts, ProbesDoes DEF others, histVars, Latched, Becomes, Alive
  <2>6. CASE DropHandled(e)
    <3>1. e # f /\ mem'.eng = mem.eng /\ Now(mem', f, mem.mark, mem.recon, f, mem.dying) /\ losing' \subseteq losing
      BY <2>6, DropHandledDoes
    <3>. QED BY <3>1
  <2>7. CASE DropUnread(e)
    BY <2>7, TypedParts, DropUnreadDoes DEF others, histVars, Latched, Becomes, Alive
  <2>. QED BY <2>1, <2>2, <2>3, <2>4, <2>5, <2>6, <2>7, <1>7 DEF EngineSteps
<1>. QED BY <1>5, <1>6, <1>7

\* And a call that captures it waits.
LEMMA FreshAwaited ==
    ASSUME Typed, NEW f \in Engine, mem.registry = f, mem.writing = f, mem.eng[f] = "made",
           f \notin losing, f \notin mem.dying,
           \A q \in Request : request[q].eng = f => request[q].at = "waiting",
           \/ \E q \in Request, kind \in Kinds : CallMade(q, kind)
           \/ \E q \in Request : RequestSteps(q)
           \/ \E e \in Engine : EngineSteps(e),
           NEW r \in Request
    PROVE  request'[r].eng = f => request'[r].at = "waiting"
<1>0. f # NoEngine
  BY TypedParts
<1>5. ASSUME NEW q \in Request, NEW kind \in Kinds, CallMade(q, kind)
      PROVE  request'[r].eng = f => request'[r].at = "waiting"
  <2>1. CASE kind \in {"stop", "delete"} /\ Called(q, kind)
    <3>0. RequestAs(q, "entered", kind, NoEngine, {})
      BY <2>1, CalledDoes
    <3>1. CASE r # q
      BY <3>0, <3>1
    <3>2. CASE r = q
      BY <1>0, <3>0, <3>2
    <3>. QED BY <3>1, <3>2
  <2>2. CASE kind \in {"logout", "kill"} /\ EngineCalled(q, kind)
    <3>1. CASE r # q
      <4>1. request'[r] = request[r]
        BY <3>1, <2>2, EngineCalledDoes
      <4>. QED BY <4>1
    <3>2. CASE r = q
      BY <1>0, <3>2, <1>5, <2>2, EngineCalledDoes DEF CallMade
    <3>. QED BY <3>1, <3>2
  <2>. QED BY <2>1, <2>2, <1>5 DEF CallMade
<1>6. ASSUME NEW q \in Request, RequestSteps(q)
      PROVE  request'[r].eng = f => request'[r].at = "waiting"
  <2>1. CASE StopCaptures(q)
    <3>1. CASE r # q
      <4>1. request'[r] = request[r]
        BY <3>1, <2>1, StopCapturesDoes
      <4>. QED BY <4>1
    <3>2. CASE r = q
      BY <1>0, <3>2, <2>1, StopCapturesDoes
    <3>. QED BY <3>1, <3>2
  <2>2. CASE WaitEnds(q)
    <3>0. request[q].eng # f
      BY <2>2 DEF WaitEnds
    <3>1. CASE r # q
      <4>1. request'[r] = request[r]
        BY <3>1, <2>2, WaitEndsDoes
      <4>. QED BY <4>1
    <3>2. CASE r = q
      BY <1>0, <3>0, <3>2, <2>2, WaitEndsDoes
    <3>. QED BY <3>1, <3>2
  <2>3. CASE StopCloses(q) \/ LogoutReturns(q) \/ KillEnds(q)
    <3>0. request[q].eng # f
      BY <2>3, ClosesDoes
    <3>1. CASE r # q
      <4>1. request'[r] = request[r]
        BY <3>1, <2>3, ClosesDoes
      <4>. QED BY <4>1
    <3>2. CASE r = q
      BY <1>0, <3>0, <3>2, <2>3, ClosesDoes
    <3>. QED BY <3>1, <3>2
  <2>4. CASE LogoutOverruns(q)
    <3>1. CASE r # q
      <4>1. request'[r] = request[r]
        BY <3>1, <2>4, LogoutOverrunsDoes
      <4>. QED BY <4>1
    <3>2. CASE r = q
      BY <1>0, <3>2, <2>4, LogoutOverrunsDoes
    <3>. QED BY <3>1, <3>2
  <2>5. CASE StopEscalates(q)
    <3>1. CASE r # q
      <4>1. request'[r] = request[r]
        BY <3>1, <2>5, StopEscalatesDoes
      <4>. QED BY <4>1
    <3>2. CASE r = q
      BY <1>0, <3>2, <2>5, StopEscalatesDoes
    <3>. QED BY <3>1, <3>2
  <2>6. CASE DeleteEnters(q)
    <3>1. CASE r # q
      <4>1. request'[r] = request[r]
        BY <3>1, <2>6, DeleteEntersDoes DEF DeleteStarts
      <4>. QED BY <4>1
    <3>2. CASE r = q
      BY <1>0, <3>2, <2>6, DeleteEntersDoes DEF DeleteStarts
    <3>. QED BY <3>1, <3>2
  <2>7. CASE DeleteFenceOpens(q)
    <3>1. CASE r # q
      <4>1. request'[r] = request[r]
        BY <3>1, <2>7, DeleteFenceOpensDoes DEF DeleteStarts
      <4>. QED BY <4>1
    <3>2. CASE r = q
      BY <1>0, <3>2, <2>7, DeleteFenceOpensDoes DEF DeleteStarts
    <3>. QED BY <3>1, <3>2
  <2>8. CASE DeleteRefused(q)
    <3>1. CASE r # q
      <4>1. request'[r] = request[r]
        BY <3>1, <2>8, DeleteRefusedDoes
      <4>. QED BY <4>1
    <3>2. CASE r = q
      BY <1>0, <3>2, <2>8, DeleteRefusedDoes
    <3>. QED BY <3>1, <3>2
  <2>9. CASE RowDeleted(q)
    <3>1. CASE r # q
      <4>1. request'[r] = request[r]
        BY <3>1, <2>9, RowDeletedDoes
      <4>. QED BY <4>1
    <3>2. CASE r = q
      BY <1>0, <3>2, <2>9, RowDeletedDoes
    <3>. QED BY <3>1, <3>2
  <2>10. CASE NotFound(q) \/ DeleteFails(q) \/ Purged(q)
    <3>1. CASE r # q
      <4>1. request'[r] = request[r]
        BY <3>1, <2>10, UnmarksDoes
      <4>. QED BY <4>1
    <3>2. CASE r = q
      BY <1>0, <3>2, <2>10, UnmarksDoes
    <3>. QED BY <3>1, <3>2
  <2>. QED BY <2>1, <2>2, <2>3, <2>4, <2>5, <2>6, <2>7, <2>8, <2>9, <2>10, <1>6 DEF RequestSteps
<1>7. ASSUME NEW e \in Engine, EngineSteps(e)
      PROVE  request'[r].eng = f => request'[r].at = "waiting"
  BY <1>7, EngineStepsLeave
<1>. QED BY <1>5, <1>6, <1>7

\* A new engine keeps its registration, its pending write and its state while
\* its launch awaits that write.
LEMMA FreshGoes ==
    ASSUME Typed, OneLaunch, NEW k \in Launcher, Fresh(k), launch[k].at = "writing",
           launch'[k] = launch[k], [Next]_vars, ~overlapped'
    PROVE  Fresh(k)'
<1> DEFINE f == launch[k].eng
<1>0. /\ f \in Engine /\ mem.registry = f /\ mem.writing = f /\ mem.eng[f] = "made"
      /\ f \notin losing /\ f \notin mem.dying
      /\ \A q \in Request : request[q].eng = f => request[q].at = "waiting"
  BY TypedShapes DEF LaunchShape, LaunchFits, Fresh
<1> SUFFICES /\ mem'.registry = f /\ mem'.writing = f /\ mem'.eng[f] = "made"
             /\ f \notin losing' /\ f \notin mem'.dying
             /\ \A q \in Request : request'[q].eng = f => request'[q].at = "waiting"
  BY DEF Fresh
<1>1. CASE UNCHANGED vars
  BY <1>0, <1>1 DEF vars
<1>2. ~StartSteps
  <2>1. ~StartCalled
    BY StartCalledDoes DEF Begun, InFlight
  <2>2. ~(HookDone \/ ReapEnds)
    BY HookDoneDoes, ReapEndsDoes, TypedParts DEF OneLaunch, InFlight
  <2>. QED BY <2>1, <2>2 DEF StartSteps
<1>3. ASSUME NEW l \in Launcher, LaunchSteps(l)
      PROVE  FALSE
  <2>1. l = k
    BY <1>3, LaunchGoesOn DEF OneLaunch, InFlight
  <2>2. CASE WriteSettles(l)
    BY <2>1, <2>2, WriteSettlesDoes
  <2>3. CASE WriteFails(l)
    BY <2>1, <2>3, WriteFailsDoes
  <2>4. CASE ~WriteSettles(l) /\ ~WriteFails(l)
    BY <1>3, <2>1, <2>4 DEF LaunchSteps, FenceOpens, FenceRefuses, InitResolves, InitRejects,
         InitTimesOut, LateKillEnds, RowRead, RetireEnds, RetireTimesOut, Repurged,
         OldEngineGone, DestroyTimesOut
  <2>. QED BY <2>2, <2>3, <2>4
<1>4. ASSUME NEW l \in Attempt, TimerFires(l)
      PROVE  /\ mem'.registry = mem.registry /\ mem'.writing = mem.writing /\ mem'.eng = mem.eng
             /\ mem'.dying = mem.dying /\ losing' = losing /\ request' = request
  <2>1. ~Begun
    BY DEF Begun, InFlight
  <2>. QED BY <1>4, <2>1, TimerFiresDoes DEF elsewhere
<1>5. CASE \/ \E q \in Request, kind \in Kinds : CallMade(q, kind)
           \/ \E q \in Request : RequestSteps(q)
           \/ \E e \in Engine : EngineSteps(e)
  BY <1>0, <1>5, FreshStays, FreshAwaited
<1>. QED BY <1>0, <1>1, <1>2, <1>3, <1>4, <1>5, NextCases

\* The registered engine is alive, or its disconnect is on its way or was dropped.
Heard(f) == mem.eng[f] \in Alive \cup {"unheard"} \/ (mem.eng[f] = "lost" /\ f \in losing)

\* A registered engine has reconnect state unless a stop is marked, and so has an
\* attempt; a call that captured the registered engine is under that mark.
Backed ==
    /\ mem.registry # NoEngine /\ ~mem.mark => mem.recon.kept
    /\ \A q \in Request : Captured(q) /\ mem.registry # NoEngine => mem.mark
    /\ \A l \in Attempt : Unborn(l) => mem.recon.kept

\* The registered engine of a session nobody stops has a timer, or is heard, or
\* a launch is about to open or to replace it.
Noticed ==
    row /\ ~mem.mark /\ mem.registry # NoEngine /\ ~mem.recon.armed =>
        \/ Heard(mem.registry)
        \/ \E l \in Launcher : launch[l].at \in {"writing", "destroying", "escalating"}

\* A registered engine is not one whose kill runs on its own.
LEMMA UnkilledStep ==
    ASSUME Typed, mem.registry \notin mem.dying, [Next]_vars
    PROVE  mem'.registry \notin mem'.dying
<1> SUFFICES ASSUME mem'.registry \in mem'.dying
             PROVE  FALSE
  OBVIOUS
<1>1. mem'.registry \in Engine /\ NoEngine \notin Engine
  <2>1. mem' \in Memory
    BY MemoryStep
  <2>. QED BY <2>1, TypedParts, MemoryFields
<1>2. mem'.registry \in mem.dying
  BY <1>1, DyingGrows
<1>3. PICK k \in Launcher : Registers(k)
  BY <1>1, <1>2, RegistryMoves
<1>. QED BY <1>2, <1>3 DEF Registers, Held

\* A new engine's launch finds it as it left it.
LEMMA FreshStep ==
    ASSUME Typed, Typed', OneLaunch, \A l \in Launcher : Fresh(l), [Next]_vars, ~overlapped'
    PROVE  \A l \in Launcher : Fresh(l)'
<1> SUFFICES ASSUME NEW l \in Launcher, launch'[l].at = "writing"
             PROVE  Fresh(l)'
  BY DEF Fresh
<1>1. CASE launch'[l] = launch[l]
  BY <1>1, FreshGoes
<1>2. CASE launch'[l] # launch[l]
  <2>1. Registers(l)
    BY <1>2, WritingBegins
  <2>2. mem'.registry \in Engine /\ mem'.registry \notin Held
    BY <2>1 DEF Registers
  <2>3. mem'.registry \notin mem'.dying
    BY <2>2, DyingGrows DEF Held
  <2>4. mem'.registry \notin losing' /\ \A q \in Request : request'[q].eng # mem'.registry
    BY <2>1, <2>2 DEF Held, Registers
  <2>. QED BY <2>1, <2>3, <2>4 DEF Registers, Fresh
<1>. QED BY <1>1, <1>2

\* While an engine is registered no call takes the mark back.
LEMMA MarkStands ==
    ASSUME Typed, \A l \in Launcher : Placed(l), Settled, [Next]_vars, mem.mark, mem.registry # NoEngine
    PROVE  mem'.mark
<1>1. launch[Start].at # "fenced"
  BY TypedParts DEF Placed
<1>2. row /\ \A r \in Request : ~Late(r)
  BY DEF Settled
<1>. QED BY <1>1, <1>2, MarkIsTakenBack

\* Every step keeps Backed.
LEMMA BackedStep ==
    ASSUME Typed, Typed', OneLaunch, \A l \in Launcher : Placed(l), Closed, Apart, Kept, Settled,
           Unmarked, Backed, [Next]_vars, ~overlapped', ~crossed', Apart'
    PROVE  Backed'
<1>0. Start \in Launcher /\ Start \notin Attempt /\ \A l \in Attempt : l \in Launcher
  BY TypedParts
<1>1. ASSUME NEW l \in Attempt, Unborn(l)'
      PROVE  mem'.recon.kept
  <2>1. CASE ~Unborn(l)
    BY <1>1, <2>1, AttemptBegins DEF Kept
  <2>2. CASE Unborn(l)
    <3>1. mem.recon.kept /\ ~Asked /\ InFlight(l)
      BY <1>0, <2>2 DEF Backed, Apart, Unborn, InFlight
    <3>2. ~Asked'
      BY <1>0, <1>1 DEF Apart
    <3>3. ~Begun
      BY <1>0, <3>1 DEF Begun
    <3>4. ~(mem.registry # NoEngine /\ mem.eng[mem.registry] \in Alive)
      <4>1. launch[l].at # "hook"
        BY <1>0, TypedShapes DEF LaunchShape, LaunchFits
      <4>2. CASE launch[l].at = "fenced"
        BY <1>0, <4>2 DEF Placed
      <4>3. CASE launch[l].at \in {"destroying", "escalating"}
        BY <1>0, <4>3 DEF Placed, Closed, TearsDown, Usable
      <4>. QED BY <2>2, <4>1, <4>2, <4>3 DEF Unborn
    <3>5. ~\E k \in Launcher : InFlight(k) /\ (k = Start \/ ~Unborn(k)')
      BY <1>0, <1>1, <3>1 DEF OneLaunch
    <3>. QED BY <3>1, <3>2, <3>3, <3>4, <3>5, KeptFalls
  <2>. QED BY <2>1, <2>2
<1>2. ASSUME NEW q \in Request, Captured(q)', mem'.registry # NoEngine
      PROVE  mem'.mark
  <2>1. CASE Captured(q)
    <3>1. Asked
      BY <2>1 DEF Asked, Captured
    <3>2. mem.registry # NoEngine
      BY <1>2, <3>1, RegistryMoves, NoneRegisters
    <3>. QED BY <2>1, <3>2, MarkStands DEF Backed
  <2>. QED BY <1>2, <2>1, CapturedBegins
<1>3. ASSUME mem'.registry # NoEngine, ~mem'.mark
      PROVE  mem'.recon.kept
  <2>1. CASE mem'.registry = mem.registry
    <3>1. mem.recon.kept
      BY <1>3, <2>1, MarkStands DEF Backed
    <3>2. launch[Start].at \notin {"fenced", "reaping"}
      BY <1>0, <1>3, <2>1 DEF Placed
    <3>. QED BY <1>3, <3>1, <3>2, KeptFalls
  <2>2. CASE mem'.registry # mem.registry
    BY <1>3, <2>2, RegistersKept DEF Backed, Kept
  <2>. QED BY <2>1, <2>2
<1>. QED BY <1>1, <1>2, <1>3 DEF Backed

\* Every step keeps Noticed.
LEMMA NoticedStep ==
    ASSUME Typed, Typed', OneLaunch, \A l \in Launcher : Placed(l) /\ Fresh(l), Kept, Settled,
           mem.registry \notin mem.dying, Backed, Backed', Noticed, [Next]_vars, ~overlapped'
    PROVE  Noticed'
<1> SUFFICES ASSUME row', ~mem'.mark, mem'.registry # NoEngine, ~mem'.recon.armed,
                    \A l \in Launcher : launch'[l].at \notin {"writing", "destroying", "escalating"}
             PROVE  \/ mem'.eng[mem'.registry] \in Alive \cup {"unheard"}
                    \/ mem'.eng[mem'.registry] = "lost" /\ mem'.registry \in losing'
  BY DEF Noticed, Heard, Alive
<1> DEFINE f == mem.registry
<1> DEFINE HeardOn == mem'.eng[f] \in Alive \cup {"unheard"} \/ (mem'.eng[f] = "lost" /\ f \in losing')
<1>1. mem'.registry = f
  BY RegistryMoves DEF Registers
<1>2. f # NoEngine /\ f \in Engine /\ Start \in Launcher
  BY <1>1, TypedParts
<1>3. ~mem.mark
  BY <1>2, MarkStands
<1>4. row /\ mem.recon.kept /\ mem'.recon.kept
  BY <1>1, <1>2, <1>3 DEF Backed, Settled
<1>5. /\ launch[Start].at \notin {"hook", "reaping"}
      /\ \A q \in Request : ~Captured(q)
  BY <1>2, <1>3 DEF Placed, Backed
<1>6. ~mem.recon.armed
  <2>1. \A k \in Attempt : k \in Launcher
    BY TypedParts
  <2>. QED BY <1>1, <1>2, <1>3, <1>4, <1>5, <2>1, ArmedFalls
<1>7. CASE Heard(f)
  <2>1. /\ f \notin mem.dying
        /\ \A k \in Launcher : ~Opens(k, f) \/ mem'.eng[f] \in Alive
    <3>1. ASSUME NEW k \in Launcher, Opens(k, f)
          PROVE  FALSE
      BY <1>7, <3>1 DEF Opens, Heard, Alive
    <3>. QED BY <3>1
  <2>2. mem.eng[f] # "leaked"
    BY <1>7 DEF Heard, Alive
  <2>3. \/ mem'.eng[f] = mem.eng[f]
        \/ mem'.eng[f] \in Alive
        \/ mem'.eng[f] = "lost" /\ f \in losing'
        \/ mem'.eng[f] = "unheard"
    BY <1>1, <1>2, <1>3, <1>4, <1>5, <2>1, <2>2, RegisteredMoves
  <2>4. f \notin losing \/ f \in losing' \/ mem'.eng[f] # "lost"
    BY <1>1, <1>2, <1>4, LosingFalls
  <2>5. "lost" \notin Alive \cup {"unheard"}
    BY DEF Alive
  <2>. QED BY <1>1, <1>7, <2>3, <2>4, <2>5 DEF Heard
<1>8. ASSUME NEW k \in Launcher, launch[k].at = "writing"
      PROVE  HeardOn
  <2>1. /\ mem.registry = launch[k].eng /\ mem.eng[mem.registry] = "made"
        /\ launch'[k] # launch[k]
    BY <1>8 DEF Fresh
  <2>2. mem'.eng[f] = "open"
    BY <1>1, <1>2, <1>3, <1>8, <2>1, WritingGoes
  <2>. QED BY <2>2 DEF Alive
<1>9. ASSUME NEW k \in Launcher, launch[k].at \in {"destroying", "escalating"}
      PROVE  FALSE
  <2>1. f = launch[k].victim
    BY <1>2, <1>9 DEF Placed
  <2>. QED BY <1>1, <1>9, <2>1, DestroyingGoes
<1>. QED BY <1>1, <1>2, <1>3, <1>4, <1>6, <1>7, <1>8, <1>9 DEF Noticed

\* The inductive invariant of what follows.
Tended ==
    /\ Freed /\ mem.registry \notin mem.dying
    /\ ~overlapped => \A l \in Launcher : Fresh(l)
    /\ ~overlapped /\ ~crossed => Unmarked /\ Backed /\ Noticed
    /\ ~overlapped /\ ~crossed /\ ~refused => Resumed

\* Initially nothing is registered, marked or kept.
LEMMA TendedInit == Init => Tended
<1> SUFFICES ASSUME Init PROVE Tended
  OBVIOUS
<1>1. Freed
  BY FreedInit
<1>2. mem.registry = NoEngine /\ mem.dying = {} /\ ~mem.mark /\ ~mem.recon.kept
  BY DEF Init, NoRecon
<1>3. \A l \in Launcher : launch[l].at = "idle"
  BY DEF Init, IdleLaunch
<1>4. \A q \in Request : request[q].at = "idle"
  BY DEF Init, IdleRequest
<1>5. Start \in Launcher /\ Attempt \subseteq Launcher
  BY DEF Launcher
<1>. QED BY <1>1, <1>2, <1>3, <1>4, <1>5 DEF Tended, Fresh, Unmarked, Bare, Unborn, Backed, Captured,
       Noticed, Resumed

\* And every step keeps it.
LEMMA TendedStep ==
    ASSUME Tended, [Next]_vars
    PROVE  Tended'
<1>1. Freed' /\ Fenced /\ Kept /\ Reached /\ Closed /\ Typed /\ Reached' /\ Typed'
  BY FreedStep DEF Tended, Freed, Fenced, Reached
<1>2. mem'.registry \notin mem'.dying
  BY <1>1, UnkilledStep DEF Tended
<1>3. ASSUME ~overlapped'
      PROVE  /\ ~overlapped /\ OneLaunch /\ (\A l \in Launcher : Placed(l))
             /\ (\A l \in Launcher : Fresh(l)) /\ (\A l \in Launcher : Fresh(l))'
  <2>1. ~overlapped
    BY <1>1, <1>3, OverlapStays
  <2>2. OneLaunch /\ (\A l \in Launcher : Placed(l)) /\ (\A l \in Launcher : Fresh(l))
    BY <1>1, <2>1 DEF Tended, Reached
  <2>3. \A l \in Launcher : Fresh(l)'
    BY <1>1, <1>3, <2>2, FreshStep
  <2>. QED BY <2>1, <2>2, <2>3
<1>4. ASSUME ~overlapped', ~crossed'
      PROVE  /\ ~crossed /\ Apart /\ Settled /\ Unmarked
             /\ Unmarked' /\ Backed' /\ Noticed'
  <2>1. ~crossed
    BY <1>1, <1>4, RefusalStays
  <2>2. Apart /\ Settled /\ Unmarked /\ Backed /\ Noticed
    BY <1>1, <1>3, <1>4, <2>1 DEF Tended, Freed, Fenced
  <2>3. Apart'
    BY <1>1, <1>4 DEF Freed, Fenced
  <2>4. Unmarked'
    BY <1>1, <1>4, <2>2, UnmarkedStep
  <2>5. Backed'
    BY <1>1, <1>3, <1>4, <2>2, <2>3, BackedStep
  <2>6. Noticed'
    BY <1>1, <1>3, <1>4, <2>2, <2>5, NoticedStep DEF Tended
  <2>. QED BY <2>1, <2>2, <2>4, <2>5, <2>6
<1>5. ASSUME ~overlapped', ~crossed', ~refused'
      PROVE  Resumed'
  <2>1. ~refused
    BY <1>1, <1>5, RefusalStays
  <2>2. Resumed
    BY <1>3, <1>4, <1>5, <2>1 DEF Tended
  <2>. QED BY <1>1, <1>3, <1>4, <1>5, <2>2, ResumedStep
<1>. QED BY <1>1, <1>2, <1>3, <1>4, <1>5 DEF Tended

\* Reconnect state without an engine has a timer: a session that nothing runs
\* is not taken for an active one, whose claim the heartbeat would renew
\* (scheduleReconnect(), isEngineActive()).
THEOREM LifecycleNoIdleState == Spec => []NoIdleReconnectState
<1>1. Tended => NoIdleReconnectState
  <2> SUFFICES ASSUME Tended, Answered, mem.recon.kept, ~crossed, ~overlapped, ~refused
               PROVE  mem.registry # NoEngine \/ mem.recon.armed
    BY DEF NoIdleReconnectState, Quiet
  <2>1. ~Asking /\ ~Resuming
    BY DEF Answered, Asking, Early, Resuming, Resumes, InFlight
  <2>. QED BY <2>1 DEF Tended, Resumed
<1>. QED BY <1>1, TendedInit, TendedStep, PTL DEF Spec

\* No session keeps a dead engine for good: a registered engine that reported
\* its end is followed by a timer or is evicted (handleEngineDisconnected(),
\* scheduleReconnect()).
THEOREM LifecycleNoSilentDeath == Spec => []NoSilentDeath
<1>1. Tended => NoSilentDeath
  <2> SUFFICES ASSUME Tended, Quiet, row, ~overlapped, ~crossed, ~mem.mark, mem.registry # NoEngine,
                      ~mem.recon.armed
               PROVE  mem.eng[mem.registry] \in Alive \cup {"unheard"}
    BY DEF NoSilentDeath
  <2>1. losing = {} /\ \A l \in Launcher : launch[l].at = "idle"
    BY DEF Quiet, Answered, InFlight
  <2>2. Heard(mem.registry)
    BY <2>1 DEF Tended, Noticed
  <2>. QED BY <2>1, <2>2 DEF Heard
<1>. QED BY <1>1, TendedInit, TendedStep, PTL DEF Spec

-----------------------------------------------------------------------------
(* Who writes the row's status last.                                       *)

Awaiting == \E q \in Request : request[q].at = "waiting"

\* A call that will look at the row, or whose transaction ends the mark.
Pending(q) == Early(q) \/ Late(q) \/ (Captured(q) /\ request[q].kind = "delete")

\* A call that marks the session awaits the write of the registered engine or
\* shuts the engine.
LEMMA MarkShuts ==
    ASSUME Typed, [Next]_vars
    PROVE  \/ mem.mark \/ ~mem'.mark \/ Asking'
           \/ mem.registry = NoEngine
           \/ mem.writing = mem.registry /\ Awaiting'
           \/ mem.writing # mem.registry /\ mem'.eng[mem.registry] \notin Alive
<1>1. CASE UNCHANGED vars
  BY <1>1, TypedParts DEF vars, histVars, Asking, Awaiting, Early, Alive, Latch
<1>2. CASE StartSteps
  <2>1. CASE StartCalled
    BY <2>1, TypedParts, StartCalledDoes DEF elsewhere, Begun, Asking, Awaiting, Early, Alive, Latch
  <2>2. CASE HookDone
    BY <2>2, TypedParts, HookDoneDoes DEF elsewhere, Registered, histVars, Asking, Awaiting, Early, Alive, Latch
  <2>3. CASE ReapEnds
    BY <2>3, TypedParts, ReapEndsDoes DEF elsewhere, histVars, Asking, Awaiting, Early, Alive, Latch
  <2>. QED BY <2>1, <2>2, <2>3, <1>2 DEF StartSteps
<1>3. ASSUME NEW l \in Launcher, LaunchSteps(l)
      PROVE  \/ mem.mark \/ ~mem'.mark \/ Asking'
             \/ mem.registry = NoEngine
             \/ mem.writing = mem.registry /\ Awaiting'
             \/ mem.writing # mem.registry /\ mem'.eng[mem.registry] \notin Alive
  <2>1. CASE FenceOpens(l)
    <3>1. CASE l = Start
      BY <2>1, <3>1, TypedParts, FenceOpensDoes DEF elsewhere, histVars
    <3>2. CASE l # Start
      BY <2>1, <3>2, TypedParts, FenceOpensDoes DEF Registered, elsewhere, histVars
    <3>. QED BY <3>1, <3>2
  <2>2. CASE FenceRefuses(l)
    BY <2>2, TypedParts, FenceRefusesDoes DEF elsewhere, Asking, Awaiting, Early, Alive, Latch
  <2>3. CASE WriteSettles(l)
    BY <2>3, TypedParts, WriteSettlesDoes DEF elsewhere, histVars, Asking, Awaiting, Early, Alive, Latch
  <2>4. CASE WriteFails(l)
    BY <2>4, TypedParts, WriteFailsDoes DEF elsewhere, Asking, Awaiting, Early, Alive, Latch
  <2>5. CASE InitResolves(l)
    BY <2>5, TypedParts, InitResolvesDoes DEF elsewhere, histVars, Asking, Awaiting, Early, Alive, Latch
  <2>6. CASE InitRejects(l)
    BY <2>6, TypedParts, InitRejectsDoes DEF elsewhere, Asking, Awaiting, Early, Alive, Latch
  <2>7. CASE InitTimesOut(l)
    BY <2>7, TypedParts, InitTimesOutDoes DEF elsewhere, histVars, Asking, Awaiting, Early, Alive, Latch
  <2>8. CASE LateKillEnds(l)
    BY <2>8, TypedParts, LateKillEndsDoes DEF elsewhere, Asking, Awaiting, Early, Alive, Latch
  <2>9. CASE RowRead(l)
    BY <2>9, TypedParts, RowReadDoes DEF elsewhere, Asking, Awaiting, Early, Alive, Latch
  <2>10. CASE RetireEnds(l) \/ RetireTimesOut(l)
    BY <2>10, TypedParts, RetireEndsDoes DEF elsewhere, histVars, Asking, Awaiting, Early, Alive, Latch
  <2>11. CASE Repurged(l)
    BY <2>11, TypedParts, RepurgedDoes DEF elsewhere, histVars, Asking, Awaiting, Early, Alive, Latch
  <2>12. CASE OldEngineGone(l)
    BY <2>12, TypedParts, OldEngineGoneDoes DEF elsewhere, histVars, Asking, Awaiting, Early, Alive, Latch
  <2>13. CASE DestroyTimesOut(l)
    BY <2>13, TypedParts, DestroyTimesOutDoes DEF elsewhere, histVars, Asking, Awaiting, Early, Alive, Latch
  <2>. QED BY <2>1, <2>2, <2>3, <2>4, <2>5, <2>6, <2>7, <2>8, <2>9, <2>10, <2>11, <2>12, <2>13, <1>3 DEF LaunchSteps
<1>4. ASSUME NEW l \in Attempt, TimerFires(l)
      PROVE  \/ mem.mark \/ ~mem'.mark \/ Asking'
             \/ mem.registry = NoEngine
             \/ mem.writing = mem.registry /\ Awaiting'
             \/ mem.writing # mem.registry /\ mem'.eng[mem.registry] \notin Alive
  BY <1>4, TypedParts, TimerFiresDoes DEF elsewhere, Begun, Registered, Asking, Awaiting, Early, Alive, Latch
<1>5. ASSUME NEW q \in Request, NEW kind \in Kinds, CallMade(q, kind)
      PROVE  \/ mem.mark \/ ~mem'.mark \/ Asking'
             \/ mem.registry = NoEngine
             \/ mem.writing = mem.registry /\ Awaiting'
             \/ mem.writing # mem.registry /\ mem'.eng[mem.registry] \notin Alive
  <2>1. CASE kind \in {"stop", "delete"} /\ Called(q, kind)
    BY <1>5, <2>1, TypedParts, CalledDoes DEF CallMade, Asking, Awaiting, Early, Alive, Latch
  <2>2. CASE kind \in {"logout", "kill"} /\ EngineCalled(q, kind)
    BY <1>5, <2>2, TypedParts, EngineCalledDoes DEF CallMade, Asking, Awaiting, Early, Alive, Latch
  <2>. QED BY <2>1, <2>2, <1>5 DEF CallMade
<1>6. ASSUME NEW q \in Request, RequestSteps(q)
      PROVE  \/ mem.mark \/ ~mem'.mark \/ Asking'
             \/ mem.registry = NoEngine
             \/ mem.writing = mem.registry /\ Awaiting'
             \/ mem.writing # mem.registry /\ mem'.eng[mem.registry] \notin Alive
  <2>1. CASE StopCaptures(q)
    BY <2>1, TypedParts, StopCapturesDoes DEF histVars, Asking, Awaiting, Early, Alive, Latch
  <2>2. CASE WaitEnds(q)
    BY <2>2, TypedParts, WaitEndsDoes DEF histVars, Asking, Awaiting, Early, Alive, Latch
  <2>3. CASE StopCloses(q) \/ LogoutReturns(q) \/ KillEnds(q)
    BY <2>3, TypedParts, ClosesDoes DEF histVars, Asking, Awaiting, Early, Alive, Latch
  <2>4. CASE LogoutOverruns(q)
    BY <2>4, TypedParts, LogoutOverrunsDoes DEF histVars, Asking, Awaiting, Early, Alive, Latch
  <2>5. CASE StopEscalates(q)
    BY <2>5, TypedParts, StopEscalatesDoes DEF histVars, Asking, Awaiting, Early, Alive, Latch
  <2>6. CASE DeleteEnters(q)
    BY <2>6, TypedParts, DeleteEntersDoes DEF DeleteStarts, histVars, Asking, Awaiting, Early, Alive, Latch
  <2>7. CASE DeleteFenceOpens(q)
    BY <2>7, TypedParts, DeleteFenceOpensDoes DEF DeleteStarts, histVars, Asking, Awaiting, Early, Alive, Latch
  <2>8. CASE DeleteRefused(q)
    BY <2>8, TypedParts, DeleteRefusedDoes DEF Asking, Awaiting, Early, Alive, Latch
  <2>9. CASE RowDeleted(q)
    BY <2>9, TypedParts, RowDeletedDoes DEF histVars, Asking, Awaiting, Early, Alive, Latch
  <2>10. CASE NotFound(q) \/ DeleteFails(q) \/ Purged(q)
    BY <2>10, TypedParts, UnmarksDoes DEF histVars, Asking, Awaiting, Early, Alive, Latch
  <2>. QED BY <2>1, <2>2, <2>3, <2>4, <2>5, <2>6, <2>7, <2>8, <2>9, <2>10, <1>6 DEF RequestSteps
<1>7. ASSUME NEW e \in Engine, EngineSteps(e)
      PROVE  \/ mem.mark \/ ~mem'.mark \/ Asking'
             \/ mem.registry = NoEngine
             \/ mem.writing = mem.registry /\ Awaiting'
             \/ mem.writing # mem.registry /\ mem'.eng[mem.registry] \notin Alive
  <2>1. CASE KillLands(e) \/ LeakEnds(e)
    BY <2>1, TypedParts, KillLandsDoes DEF others, histVars, Asking, Awaiting, Early, Alive, Latch
  <2>2. CASE RemovalSettles(e)
    BY <2>2, TypedParts DEF RemovalSettles, others, histVars, Asking, Awaiting, Early, Alive, Latch
  <2>3. CASE EngineReady(e) \/ EngineWedges(e)
    BY <2>3, TypedParts, EngineRunsDoes DEF others, histVars, Asking, Awaiting, Early, Alive, Latch
  <2>4. CASE EngineDrops(e) \/ EngineUnlinked(e) \/ EngineFails(e) \/ StuckAuth(e) \/ WipeLands(e)
    BY <2>4, TypedParts, EngineEndsDoes DEF others, histVars, Asking, Awaiting, Early, Alive, Latch
  <2>5. CASE ProbeFails(e) \/ ProbePasses
    BY <2>5, TypedParts, ProbesDoes DEF others, histVars, Asking, Awaiting, Early, Alive, Latch
  <2>6. CASE DropHandled(e)
    BY <2>6, TypedParts, DropHandledDoes DEF Asking, Awaiting, Early, Alive, Latch
  <2>7. CASE DropUnread(e)
    BY <2>7, TypedParts, DropUnreadDoes DEF others, histVars, Asking, Awaiting, Early, Alive, Latch
  <2>. QED BY <2>1, <2>2, <2>3, <2>4, <2>5, <2>6, <2>7, <1>7 DEF EngineSteps
<1>. QED BY <1>1, <1>2, <1>3, <1>4, <1>5, <1>6, <1>7, NextCases


\* So does a call that had not captured an engine yet.
LEMMA EarlyShuts ==
    ASSUME Typed, [Next]_vars, NEW r \in Request
    PROVE  \/ ~Early(r) \/ Early(r)' \/ ~mem'.mark \/ refused'
           \/ mem.registry = NoEngine
           \/ mem.writing = mem.registry /\ request'[r].at = "waiting"
           \/ mem.writing # mem.registry /\ mem'.eng[mem.registry] \notin Alive
<1>1. CASE UNCHANGED vars
  BY <1>1 DEF vars, histVars, Early, Alive, Latch
<1>5. ASSUME NEW q \in Request, NEW kind \in Kinds, CallMade(q, kind)
      PROVE  \/ ~Early(r) \/ Early(r)' \/ ~mem'.mark \/ refused'
             \/ mem.registry = NoEngine
             \/ mem.writing = mem.registry /\ request'[r].at = "waiting"
             \/ mem.writing # mem.registry /\ mem'.eng[mem.registry] \notin Alive
  <2>1. CASE kind \in {"stop", "delete"} /\ Called(q, kind)
    <3>1. CASE r # q
      <4>1. request'[r] = request[r]
        BY <3>1, <1>5, <2>1, CalledDoes
      <4>. QED BY <4>1 DEF Early, Alive, Latch
    <3>2. CASE r = q
      BY <3>2, <1>5, <2>1, CalledDoes, TypedParts, ReconConstants DEF Early, Alive, Latch
    <3>. QED BY <3>1, <3>2
  <2>2. CASE kind \in {"logout", "kill"} /\ EngineCalled(q, kind)
    <3>1. CASE r # q
      <4>1. request'[r] = request[r]
        BY <3>1, <1>5, <2>2, EngineCalledDoes
      <4>. QED BY <4>1 DEF Early, Alive, Latch
    <3>2. CASE r = q
      BY <3>2, <1>5, <2>2, EngineCalledDoes, TypedParts, ReconConstants DEF Early, Alive, Latch
    <3>. QED BY <3>1, <3>2
  <2>. QED BY <2>1, <2>2, <1>5 DEF CallMade
<1>6. ASSUME NEW q \in Request, RequestSteps(q)
      PROVE  \/ ~Early(r) \/ Early(r)' \/ ~mem'.mark \/ refused'
             \/ mem.registry = NoEngine
             \/ mem.writing = mem.registry /\ request'[r].at = "waiting"
             \/ mem.writing # mem.registry /\ mem'.eng[mem.registry] \notin Alive
  <2>1. CASE StopCaptures(q)
    <3>1. CASE r # q
      <4>1. request'[r] = request[r]
        BY <3>1, <2>1, StopCapturesDoes
      <4>. QED BY <4>1 DEF Early, Alive, Latch
    <3>2. CASE r = q
      BY <3>2, <2>1, StopCapturesDoes, TypedParts, ReconConstants DEF Early, Alive, Latch
    <3>. QED BY <3>1, <3>2
  <2>2. CASE WaitEnds(q)
    <3>1. CASE r # q
      <4>1. request'[r] = request[r]
        BY <3>1, <2>2, WaitEndsDoes
      <4>. QED BY <4>1 DEF Early, Alive, Latch
    <3>2. CASE r = q
      BY <3>2, <2>2, WaitEndsDoes, TypedParts, ReconConstants DEF Early, Alive, Latch
    <3>. QED BY <3>1, <3>2
  <2>3. CASE StopCloses(q) \/ LogoutReturns(q) \/ KillEnds(q)
    <3>1. CASE r # q
      <4>1. request'[r] = request[r]
        BY <3>1, <2>3, ClosesDoes
      <4>. QED BY <4>1 DEF Early, Alive, Latch
    <3>2. CASE r = q
      BY <3>2, <2>3, ClosesDoes, TypedParts, ReconConstants DEF Early, Alive, Latch
    <3>. QED BY <3>1, <3>2
  <2>4. CASE LogoutOverruns(q)
    <3>1. CASE r # q
      <4>1. request'[r] = request[r]
        BY <3>1, <2>4, LogoutOverrunsDoes
      <4>. QED BY <4>1 DEF Early, Alive, Latch
    <3>2. CASE r = q
      BY <3>2, <2>4, LogoutOverrunsDoes, TypedParts, ReconConstants DEF Early, Alive, Latch
    <3>. QED BY <3>1, <3>2
  <2>5. CASE StopEscalates(q)
    <3>1. CASE r # q
      <4>1. request'[r] = request[r]
        BY <3>1, <2>5, StopEscalatesDoes
      <4>. QED BY <4>1 DEF Early, Alive, Latch
    <3>2. CASE r = q
      BY <3>2, <2>5, StopEscalatesDoes, TypedParts, ReconConstants DEF Early, Alive, Latch
    <3>. QED BY <3>1, <3>2
  <2>6. CASE DeleteEnters(q)
    <3>1. CASE r # q
      <4>1. request'[r] = request[r]
        BY <3>1, <2>6, DeleteEntersDoes DEF DeleteStarts
      <4>. QED BY <4>1 DEF Early, Alive, Latch
    <3>2. CASE r = q
      BY <3>2, <2>6, DeleteEntersDoes, TypedParts, ReconConstants DEF DeleteStarts, Early, Alive, Latch
    <3>. QED BY <3>1, <3>2
  <2>7. CASE DeleteFenceOpens(q)
    <3>1. CASE r # q
      <4>1. request'[r] = request[r]
        BY <3>1, <2>7, DeleteFenceOpensDoes DEF DeleteStarts
      <4>. QED BY <4>1 DEF Early, Alive, Latch
    <3>2. CASE r = q
      BY <3>2, <2>7, DeleteFenceOpensDoes, TypedParts, ReconConstants DEF DeleteStarts, Early, Alive, Latch
    <3>. QED BY <3>1, <3>2
  <2>8. CASE DeleteRefused(q)
    <3>1. CASE r # q
      <4>1. request'[r] = request[r]
        BY <3>1, <2>8, DeleteRefusedDoes
      <4>. QED BY <4>1 DEF Early, Alive, Latch
    <3>2. CASE r = q
      BY <3>2, <2>8, DeleteRefusedDoes, TypedParts, ReconConstants DEF Early, Alive, Latch
    <3>. QED BY <3>1, <3>2
  <2>9. CASE RowDeleted(q)
    <3>1. CASE r # q
      <4>1. request'[r] = request[r]
        BY <3>1, <2>9, RowDeletedDoes
      <4>. QED BY <4>1 DEF Early, Alive, Latch
    <3>2. CASE r = q
      BY <3>2, <2>9, RowDeletedDoes, TypedParts, ReconConstants DEF Early, Alive, Latch
    <3>. QED BY <3>1, <3>2
  <2>10. CASE NotFound(q) \/ DeleteFails(q) \/ Purged(q)
    <3>1. CASE r # q
      <4>1. request'[r] = request[r]
        BY <3>1, <2>10, UnmarksDoes
      <4>. QED BY <4>1 DEF Early, Alive, Latch
    <3>2. CASE r = q
      BY <3>2, <2>10, UnmarksDoes, TypedParts, ReconConstants DEF Early, Alive, Latch
    <3>. QED BY <3>1, <3>2
  <2>. QED BY <2>1, <2>2, <2>3, <2>4, <2>5, <2>6, <2>7, <2>8, <2>9, <2>10, <1>6 DEF RequestSteps
<1>7. CASE StartSteps \/ (\E l \in Launcher : LaunchSteps(l)) \/ (\E l \in Attempt : TimerFires(l)) \/ (\E e \in Engine : EngineSteps(e))
  <2>1. request' = request
    BY <1>7, StartStepsLeave, LaunchStepsLeave, EngineStepsLeave DEF elsewhere, TimerFires
  <2>. QED BY <2>1 DEF Early, Alive, Latch
<1>. QED BY <1>1, <1>5, <1>6, <1>7, NextCases

\* A call waits while the write it awaits is pending.
LEMMA WaitingGoes ==
    ASSUME Typed, [Next]_vars, NEW r \in Request
    PROVE  \/ request[r].at # "waiting" \/ request'[r].at = "waiting"
           \/ mem.writing # request[r].eng
<1>1. CASE UNCHANGED vars
  BY <1>1 DEF vars, histVars
<1>5. ASSUME NEW q \in Request, NEW kind \in Kinds, CallMade(q, kind)
      PROVE  \/ request[r].at # "waiting" \/ request'[r].at = "waiting"
             \/ mem.writing # request[r].eng
  <2>1. CASE kind \in {"stop", "delete"} /\ Called(q, kind)
    <3>1. CASE r # q
      <4>1. request'[r] = request[r]
        BY <3>1, <1>5, <2>1, CalledDoes
      <4>. QED BY <4>1
    <3>2. CASE r = q
      BY <3>2, <1>5, <2>1, CalledDoes, TypedParts, ReconConstants DEF CallMade
    <3>. QED BY <3>1, <3>2
  <2>2. CASE kind \in {"logout", "kill"} /\ EngineCalled(q, kind)
    <3>1. CASE r # q
      <4>1. request'[r] = request[r]
        BY <3>1, <1>5, <2>2, EngineCalledDoes
      <4>. QED BY <4>1
    <3>2. CASE r = q
      BY <3>2, <1>5, <2>2, EngineCalledDoes, TypedParts, ReconConstants DEF CallMade
    <3>. QED BY <3>1, <3>2
  <2>. QED BY <2>1, <2>2, <1>5 DEF CallMade
<1>6. ASSUME NEW q \in Request, RequestSteps(q)
      PROVE  \/ request[r].at # "waiting" \/ request'[r].at = "waiting"
             \/ mem.writing # request[r].eng
  <2>1. CASE StopCaptures(q)
    <3>1. CASE r # q
      <4>1. request'[r] = request[r]
        BY <3>1, <2>1, StopCapturesDoes
      <4>. QED BY <4>1
    <3>2. CASE r = q
      BY <3>2, <2>1, StopCapturesDoes, TypedParts, ReconConstants
    <3>. QED BY <3>1, <3>2
  <2>2. CASE WaitEnds(q)
    <3>1. CASE r # q
      <4>1. request'[r] = request[r]
        BY <3>1, <2>2, WaitEndsDoes
      <4>. QED BY <4>1
    <3>2. CASE r = q
      BY <3>2, <2>2, WaitEndsDoes, TypedParts, ReconConstants DEF WaitEnds
    <3>. QED BY <3>1, <3>2
  <2>3. CASE StopCloses(q) \/ LogoutReturns(q) \/ KillEnds(q)
    <3>1. CASE r # q
      <4>1. request'[r] = request[r]
        BY <3>1, <2>3, ClosesDoes
      <4>. QED BY <4>1
    <3>2. CASE r = q
      BY <3>2, <2>3, ClosesDoes, TypedParts, ReconConstants
    <3>. QED BY <3>1, <3>2
  <2>4. CASE LogoutOverruns(q)
    <3>1. CASE r # q
      <4>1. request'[r] = request[r]
        BY <3>1, <2>4, LogoutOverrunsDoes
      <4>. QED BY <4>1
    <3>2. CASE r = q
      BY <3>2, <2>4, LogoutOverrunsDoes, TypedParts, ReconConstants
    <3>. QED BY <3>1, <3>2
  <2>5. CASE StopEscalates(q)
    <3>1. CASE r # q
      <4>1. request'[r] = request[r]
        BY <3>1, <2>5, StopEscalatesDoes
      <4>. QED BY <4>1
    <3>2. CASE r = q
      BY <3>2, <2>5, StopEscalatesDoes, TypedParts, ReconConstants
    <3>. QED BY <3>1, <3>2
  <2>6. CASE DeleteEnters(q)
    <3>1. CASE r # q
      <4>1. request'[r] = request[r]
        BY <3>1, <2>6, DeleteEntersDoes DEF DeleteStarts
      <4>. QED BY <4>1
    <3>2. CASE r = q
      BY <3>2, <2>6, DeleteEntersDoes, TypedParts, ReconConstants DEF DeleteStarts
    <3>. QED BY <3>1, <3>2
  <2>7. CASE DeleteFenceOpens(q)
    <3>1. CASE r # q
      <4>1. request'[r] = request[r]
        BY <3>1, <2>7, DeleteFenceOpensDoes DEF DeleteStarts
      <4>. QED BY <4>1
    <3>2. CASE r = q
      BY <3>2, <2>7, DeleteFenceOpensDoes, TypedParts, ReconConstants DEF DeleteStarts
    <3>. QED BY <3>1, <3>2
  <2>8. CASE DeleteRefused(q)
    <3>1. CASE r # q
      <4>1. request'[r] = request[r]
        BY <3>1, <2>8, DeleteRefusedDoes
      <4>. QED BY <4>1
    <3>2. CASE r = q
      BY <3>2, <2>8, DeleteRefusedDoes, TypedParts, ReconConstants
    <3>. QED BY <3>1, <3>2
  <2>9. CASE RowDeleted(q)
    <3>1. CASE r # q
      <4>1. request'[r] = request[r]
        BY <3>1, <2>9, RowDeletedDoes
      <4>. QED BY <4>1
    <3>2. CASE r = q
      BY <3>2, <2>9, RowDeletedDoes, TypedParts, ReconConstants
    <3>. QED BY <3>1, <3>2
  <2>10. CASE NotFound(q) \/ DeleteFails(q) \/ Purged(q)
    <3>1. CASE r # q
      <4>1. request'[r] = request[r]
        BY <3>1, <2>10, UnmarksDoes
      <4>. QED BY <4>1
    <3>2. CASE r = q
      BY <3>2, <2>10, UnmarksDoes, TypedParts, ReconConstants
    <3>. QED BY <3>1, <3>2
  <2>. QED BY <2>1, <2>2, <2>3, <2>4, <2>5, <2>6, <2>7, <2>8, <2>9, <2>10, <1>6 DEF RequestSteps
<1>7. CASE StartSteps \/ (\E l \in Launcher : LaunchSteps(l)) \/ (\E l \in Attempt : TimerFires(l)) \/ (\E e \in Engine : EngineSteps(e))
  <2>1. request' = request
    BY <1>7, StartStepsLeave, LaunchStepsLeave, EngineStepsLeave DEF elsewhere, TimerFires
  <2>. QED BY <2>1
<1>. QED BY <1>1, <1>5, <1>6, <1>7, NextCases

\* An engine is registered for a session that is not marked, or by a launch
\* that had none before.
LEMMA WritingUnmarked ==
    ASSUME Typed, NEW k \in Launcher, [Next]_vars
    PROVE  \/ launch'[k].at # "writing" \/ launch'[k] = launch[k]
           \/ ~mem.mark \/ Bare(k)
<1>1. CASE UNCHANGED vars
  BY <1>1, TypedParts DEF vars, histVars, Bare, Unborn
<1>2. CASE StartSteps
  <2>1. CASE StartCalled
    BY <2>1, TypedParts, StartCalledDoes DEF elsewhere, Begun, Bare, Unborn
  <2>2. CASE HookDone
    BY <2>2, TypedParts, HookDoneDoes DEF elsewhere, Registered, histVars, Bare, Unborn
  <2>3. CASE ReapEnds
    BY <2>3, TypedParts, ReapEndsDoes DEF elsewhere, histVars, Bare, Unborn
  <2>. QED BY <2>1, <2>2, <2>3, <1>2 DEF StartSteps
<1>3. ASSUME NEW l \in Launcher, LaunchSteps(l)
      PROVE  \/ launch'[k].at # "writing" \/ launch'[k] = launch[k]
             \/ ~mem.mark \/ Bare(k)
  <2>1. CASE FenceOpens(l)
    <3>1. CASE l = Start
      BY <2>1, <3>1, TypedParts, FenceOpensDoes DEF elsewhere, histVars, Bare, Unborn
    <3>2. CASE l # Start
      BY <2>1, <3>2, TypedParts, FenceOpensDoes DEF Registered, elsewhere, histVars, Bare, Unborn
    <3>. QED BY <3>1, <3>2
  <2>2. CASE FenceRefuses(l)
    BY <2>2, TypedParts, FenceRefusesDoes DEF elsewhere, Bare, Unborn
  <2>3. CASE WriteSettles(l)
    BY <2>3, TypedParts, WriteSettlesDoes DEF elsewhere, histVars, Bare, Unborn
  <2>4. CASE WriteFails(l)
    BY <2>4, TypedParts, WriteFailsDoes DEF elsewhere, Bare, Unborn
  <2>5. CASE InitResolves(l)
    BY <2>5, TypedParts, InitResolvesDoes DEF elsewhere, histVars, Bare, Unborn
  <2>6. CASE InitRejects(l)
    BY <2>6, TypedParts, InitRejectsDoes DEF elsewhere, Bare, Unborn
  <2>7. CASE InitTimesOut(l)
    BY <2>7, TypedParts, InitTimesOutDoes DEF elsewhere, histVars, Bare, Unborn
  <2>8. CASE LateKillEnds(l)
    BY <2>8, TypedParts, LateKillEndsDoes DEF elsewhere, Bare, Unborn
  <2>9. CASE RowRead(l)
    BY <2>9, TypedParts, RowReadDoes DEF elsewhere, Bare, Unborn
  <2>10. CASE RetireEnds(l) \/ RetireTimesOut(l)
    BY <2>10, TypedParts, RetireEndsDoes DEF elsewhere, histVars, Bare, Unborn
  <2>11. CASE Repurged(l)
    BY <2>11, TypedParts, RepurgedDoes DEF elsewhere, histVars, Bare, Unborn
  <2>12. CASE OldEngineGone(l)
    BY <2>12, TypedParts, OldEngineGoneDoes DEF elsewhere, histVars, Bare, Unborn
  <2>13. CASE DestroyTimesOut(l)
    BY <2>13, TypedParts, DestroyTimesOutDoes DEF elsewhere, histVars, Bare, Unborn
  <2>. QED BY <2>1, <2>2, <2>3, <2>4, <2>5, <2>6, <2>7, <2>8, <2>9, <2>10, <2>11, <2>12, <2>13, <1>3 DEF LaunchSteps
<1>4. ASSUME NEW l \in Attempt, TimerFires(l)
      PROVE  \/ launch'[k].at # "writing" \/ launch'[k] = launch[k]
             \/ ~mem.mark \/ Bare(k)
  BY <1>4, TypedParts, TimerFiresDoes DEF elsewhere, Begun, Registered, Bare, Unborn
<1>5. ASSUME NEW q \in Request, NEW kind \in Kinds, CallMade(q, kind)
      PROVE  \/ launch'[k].at # "writing" \/ launch'[k] = launch[k]
             \/ ~mem.mark \/ Bare(k)
  <2>1. CASE kind \in {"stop", "delete"} /\ Called(q, kind)
    BY <1>5, <2>1, TypedParts, CalledDoes DEF CallMade, Bare, Unborn
  <2>2. CASE kind \in {"logout", "kill"} /\ EngineCalled(q, kind)
    BY <1>5, <2>2, TypedParts, EngineCalledDoes DEF CallMade, Bare, Unborn
  <2>. QED BY <2>1, <2>2, <1>5 DEF CallMade
<1>6. ASSUME NEW q \in Request, RequestSteps(q)
      PROVE  \/ launch'[k].at # "writing" \/ launch'[k] = launch[k]
             \/ ~mem.mark \/ Bare(k)
  <2>1. CASE StopCaptures(q)
    BY <2>1, TypedParts, StopCapturesDoes DEF histVars, Bare, Unborn
  <2>2. CASE WaitEnds(q)
    BY <2>2, TypedParts, WaitEndsDoes DEF histVars, Bare, Unborn
  <2>3. CASE StopCloses(q) \/ LogoutReturns(q) \/ KillEnds(q)
    BY <2>3, TypedParts, ClosesDoes DEF histVars, Bare, Unborn
  <2>4. CASE LogoutOverruns(q)
    BY <2>4, TypedParts, LogoutOverrunsDoes DEF histVars, Bare, Unborn
  <2>5. CASE StopEscalates(q)
    BY <2>5, TypedParts, StopEscalatesDoes DEF histVars, Bare, Unborn
  <2>6. CASE DeleteEnters(q)
    BY <2>6, TypedParts, DeleteEntersDoes DEF DeleteStarts, histVars, Bare, Unborn
  <2>7. CASE DeleteFenceOpens(q)
    BY <2>7, TypedParts, DeleteFenceOpensDoes DEF DeleteStarts, histVars, Bare, Unborn
  <2>8. CASE DeleteRefused(q)
    BY <2>8, TypedParts, DeleteRefusedDoes DEF Bare, Unborn
  <2>9. CASE RowDeleted(q)
    BY <2>9, TypedParts, RowDeletedDoes DEF histVars, Bare, Unborn
  <2>10. CASE NotFound(q) \/ DeleteFails(q) \/ Purged(q)
    BY <2>10, TypedParts, UnmarksDoes DEF histVars, Bare, Unborn
  <2>. QED BY <2>1, <2>2, <2>3, <2>4, <2>5, <2>6, <2>7, <2>8, <2>9, <2>10, <1>6 DEF RequestSteps
<1>7. ASSUME NEW e \in Engine, EngineSteps(e)
      PROVE  \/ launch'[k].at # "writing" \/ launch'[k] = launch[k]
             \/ ~mem.mark \/ Bare(k)
  <2>1. CASE KillLands(e) \/ LeakEnds(e)
    BY <2>1, TypedParts, KillLandsDoes DEF others, histVars, Bare, Unborn
  <2>2. CASE RemovalSettles(e)
    BY <2>2, TypedParts DEF RemovalSettles, others, histVars, Bare, Unborn
  <2>3. CASE EngineReady(e) \/ EngineWedges(e)
    BY <2>3, TypedParts, EngineRunsDoes DEF others, histVars, Bare, Unborn
  <2>4. CASE EngineDrops(e) \/ EngineUnlinked(e) \/ EngineFails(e) \/ StuckAuth(e) \/ WipeLands(e)
    BY <2>4, TypedParts, EngineEndsDoes DEF others, histVars, Bare, Unborn
  <2>5. CASE ProbeFails(e) \/ ProbePasses
    BY <2>5, TypedParts, ProbesDoes DEF others, histVars, Bare, Unborn
  <2>6. CASE DropHandled(e)
    BY <2>6, TypedParts, DropHandledDoes DEF Bare, Unborn
  <2>7. CASE DropUnread(e)
    BY <2>7, TypedParts, DropUnreadDoes DEF others, histVars, Bare, Unborn
  <2>. QED BY <2>1, <2>2, <2>3, <2>4, <2>5, <2>6, <2>7, <1>7 DEF EngineSteps
<1>. QED BY <1>1, <1>2, <1>3, <1>4, <1>5, <1>6, <1>7, NextCases


\* A mark on a session without a row belongs to a call that will find out.
LEMMA PendingBegins ==
    ASSUME Typed, [Next]_vars
    PROVE  \/ (mem.mark /\ ~row) \/ ~mem'.mark \/ row'
           \/ \E r \in Request : Pending(r)'
<1>1. CASE UNCHANGED vars
  BY <1>1, TypedParts DEF vars, histVars, Pending, Early, Late, Captured
<1>2. CASE StartSteps
  <2>1. CASE StartCalled
    BY <2>1, TypedParts, StartCalledDoes DEF elsewhere, Begun, Pending, Early, Late, Captured
  <2>2. CASE HookDone
    BY <2>2, TypedParts, HookDoneDoes DEF elsewhere, Registered, histVars, Pending, Early, Late, Captured
  <2>3. CASE ReapEnds
    BY <2>3, TypedParts, ReapEndsDoes DEF elsewhere, histVars, Pending, Early, Late, Captured
  <2>. QED BY <2>1, <2>2, <2>3, <1>2 DEF StartSteps
<1>3. ASSUME NEW l \in Launcher, LaunchSteps(l)
      PROVE  \/ (mem.mark /\ ~row) \/ ~mem'.mark \/ row'
             \/ \E r \in Request : Pending(r)'
  <2>1. CASE FenceOpens(l)
    <3>1. CASE l = Start
      BY <2>1, <3>1, TypedParts, FenceOpensDoes DEF elsewhere, histVars
    <3>2. CASE l # Start
      BY <2>1, <3>2, TypedParts, FenceOpensDoes DEF Registered, elsewhere, histVars
    <3>. QED BY <3>1, <3>2
  <2>2. CASE FenceRefuses(l)
    BY <2>2, TypedParts, FenceRefusesDoes DEF elsewhere, Pending, Early, Late, Captured
  <2>3. CASE WriteSettles(l)
    BY <2>3, TypedParts, WriteSettlesDoes DEF elsewhere, histVars, Pending, Early, Late, Captured
  <2>4. CASE WriteFails(l)
    BY <2>4, TypedParts, WriteFailsDoes DEF elsewhere, Pending, Early, Late, Captured
  <2>5. CASE InitResolves(l)
    BY <2>5, TypedParts, InitResolvesDoes DEF elsewhere, histVars, Pending, Early, Late, Captured
  <2>6. CASE InitRejects(l)
    BY <2>6, TypedParts, InitRejectsDoes DEF elsewhere, Pending, Early, Late, Captured
  <2>7. CASE InitTimesOut(l)
    BY <2>7, TypedParts, InitTimesOutDoes DEF elsewhere, histVars, Pending, Early, Late, Captured
  <2>8. CASE LateKillEnds(l)
    BY <2>8, TypedParts, LateKillEndsDoes DEF elsewhere, Pending, Early, Late, Captured
  <2>9. CASE RowRead(l)
    BY <2>9, TypedParts, RowReadDoes DEF elsewhere, Pending, Early, Late, Captured
  <2>10. CASE RetireEnds(l) \/ RetireTimesOut(l)
    BY <2>10, TypedParts, RetireEndsDoes DEF elsewhere, histVars, Pending, Early, Late, Captured
  <2>11. CASE Repurged(l)
    BY <2>11, TypedParts, RepurgedDoes DEF elsewhere, histVars, Pending, Early, Late, Captured
  <2>12. CASE OldEngineGone(l)
    BY <2>12, TypedParts, OldEngineGoneDoes DEF elsewhere, histVars, Pending, Early, Late, Captured
  <2>13. CASE DestroyTimesOut(l)
    BY <2>13, TypedParts, DestroyTimesOutDoes DEF elsewhere, histVars, Pending, Early, Late, Captured
  <2>. QED BY <2>1, <2>2, <2>3, <2>4, <2>5, <2>6, <2>7, <2>8, <2>9, <2>10, <2>11, <2>12, <2>13, <1>3 DEF LaunchSteps
<1>4. ASSUME NEW l \in Attempt, TimerFires(l)
      PROVE  \/ (mem.mark /\ ~row) \/ ~mem'.mark \/ row'
             \/ \E r \in Request : Pending(r)'
  BY <1>4, TypedParts, TimerFiresDoes DEF elsewhere, Begun, Registered, Pending, Early, Late, Captured
<1>5. ASSUME NEW q \in Request, NEW kind \in Kinds, CallMade(q, kind)
      PROVE  \/ (mem.mark /\ ~row) \/ ~mem'.mark \/ row'
             \/ \E r \in Request : Pending(r)'
  <2>1. CASE kind \in {"stop", "delete"} /\ Called(q, kind)
    BY <1>5, <2>1, TypedParts, CalledDoes DEF CallMade, Pending, Early, Late, Captured
  <2>2. CASE kind \in {"logout", "kill"} /\ EngineCalled(q, kind)
    BY <1>5, <2>2, TypedParts, EngineCalledDoes DEF CallMade, Pending, Early, Late, Captured
  <2>. QED BY <2>1, <2>2, <1>5 DEF CallMade
<1>6. ASSUME NEW q \in Request, RequestSteps(q)
      PROVE  \/ (mem.mark /\ ~row) \/ ~mem'.mark \/ row'
             \/ \E r \in Request : Pending(r)'
  <2>1. CASE StopCaptures(q)
    BY <2>1, TypedParts, StopCapturesDoes DEF histVars, Pending, Early, Late, Captured
  <2>2. CASE WaitEnds(q)
    BY <2>2, TypedParts, WaitEndsDoes DEF histVars, Pending, Early, Late, Captured
  <2>3. CASE StopCloses(q) \/ LogoutReturns(q) \/ KillEnds(q)
    BY <2>3, TypedParts, ClosesDoes DEF histVars, Pending, Early, Late, Captured
  <2>4. CASE LogoutOverruns(q)
    BY <2>4, TypedParts, LogoutOverrunsDoes DEF histVars, Pending, Early, Late, Captured
  <2>5. CASE StopEscalates(q)
    BY <2>5, TypedParts, StopEscalatesDoes DEF histVars, Pending, Early, Late, Captured
  <2>6. CASE DeleteEnters(q)
    BY <2>6, TypedParts, DeleteEntersDoes DEF DeleteStarts, histVars, Pending, Early, Late, Captured
  <2>7. CASE DeleteFenceOpens(q)
    BY <2>7, TypedParts, DeleteFenceOpensDoes DEF DeleteStarts, histVars, Pending, Early, Late, Captured
  <2>8. CASE DeleteRefused(q)
    BY <2>8, TypedParts, DeleteRefusedDoes DEF Pending, Early, Late, Captured
  <2>9. CASE RowDeleted(q)
    BY <2>9, TypedParts, RowDeletedDoes DEF histVars, Pending, Early, Late, Captured
  <2>10. CASE NotFound(q) \/ DeleteFails(q) \/ Purged(q)
    BY <2>10, TypedParts, UnmarksDoes DEF histVars, Pending, Early, Late, Captured
  <2>. QED BY <2>1, <2>2, <2>3, <2>4, <2>5, <2>6, <2>7, <2>8, <2>9, <2>10, <1>6 DEF RequestSteps
<1>7. ASSUME NEW e \in Engine, EngineSteps(e)
      PROVE  \/ (mem.mark /\ ~row) \/ ~mem'.mark \/ row'
             \/ \E r \in Request : Pending(r)'
  <2>1. CASE KillLands(e) \/ LeakEnds(e)
    BY <2>1, TypedParts, KillLandsDoes DEF others, histVars, Pending, Early, Late, Captured
  <2>2. CASE RemovalSettles(e)
    BY <2>2, TypedParts DEF RemovalSettles, others, histVars, Pending, Early, Late, Captured
  <2>3. CASE EngineReady(e) \/ EngineWedges(e)
    BY <2>3, TypedParts, EngineRunsDoes DEF others, histVars, Pending, Early, Late, Captured
  <2>4. CASE EngineDrops(e) \/ EngineUnlinked(e) \/ EngineFails(e) \/ StuckAuth(e) \/ WipeLands(e)
    BY <2>4, TypedParts, EngineEndsDoes DEF others, histVars, Pending, Early, Late, Captured
  <2>5. CASE ProbeFails(e) \/ ProbePasses
    BY <2>5, TypedParts, ProbesDoes DEF others, histVars, Pending, Early, Late, Captured
  <2>6. CASE DropHandled(e)
    BY <2>6, TypedParts, DropHandledDoes DEF Pending, Early, Late, Captured
  <2>7. CASE DropUnread(e)
    BY <2>7, TypedParts, DropUnreadDoes DEF others, histVars, Pending, Early, Late, Captured
  <2>. QED BY <2>1, <2>2, <2>3, <2>4, <2>5, <2>6, <2>7, <1>7 DEF EngineSteps
<1>. QED BY <1>1, <1>2, <1>3, <1>4, <1>5, <1>6, <1>7, NextCases


\* It ends by taking the mark back.
LEMMA PendingGoes ==
    ASSUME Typed, [Next]_vars, NEW r \in Request
    PROVE  \/ ~Pending(r) \/ Pending(r)' \/ ~mem'.mark \/ refused' \/ row
<1>1. CASE UNCHANGED vars
  BY <1>1 DEF vars, histVars, Pending, Early, Late, Captured
<1>5. ASSUME NEW q \in Request, NEW kind \in Kinds, CallMade(q, kind)
      PROVE  \/ ~Pending(r) \/ Pending(r)' \/ ~mem'.mark \/ refused' \/ row
  <2>1. CASE kind \in {"stop", "delete"} /\ Called(q, kind)
    <3>1. CASE r # q
      <4>1. request'[r] = request[r]
        BY <3>1, <1>5, <2>1, CalledDoes
      <4>. QED BY <4>1 DEF Pending, Early, Late, Captured
    <3>2. CASE r = q
      BY <3>2, <1>5, <2>1, CalledDoes, TypedParts, ReconConstants DEF Pending, Early, Late, Captured
    <3>. QED BY <3>1, <3>2
  <2>2. CASE kind \in {"logout", "kill"} /\ EngineCalled(q, kind)
    <3>1. CASE r # q
      <4>1. request'[r] = request[r]
        BY <3>1, <1>5, <2>2, EngineCalledDoes
      <4>. QED BY <4>1 DEF Pending, Early, Late, Captured
    <3>2. CASE r = q
      BY <3>2, <1>5, <2>2, EngineCalledDoes, TypedParts, ReconConstants DEF Pending, Early, Late, Captured
    <3>. QED BY <3>1, <3>2
  <2>. QED BY <2>1, <2>2, <1>5 DEF CallMade
<1>6. ASSUME NEW q \in Request, RequestSteps(q)
      PROVE  \/ ~Pending(r) \/ Pending(r)' \/ ~mem'.mark \/ refused' \/ row
  <2>1. CASE StopCaptures(q)
    <3>1. CASE r # q
      <4>1. request'[r] = request[r]
        BY <3>1, <2>1, StopCapturesDoes
      <4>. QED BY <4>1 DEF Pending, Early, Late, Captured
    <3>2. CASE r = q
      BY <3>2, <2>1, StopCapturesDoes, TypedParts, ReconConstants DEF Pending, Early, Late, Captured
    <3>. QED BY <3>1, <3>2
  <2>2. CASE WaitEnds(q)
    <3>1. CASE r # q
      <4>1. request'[r] = request[r]
        BY <3>1, <2>2, WaitEndsDoes
      <4>. QED BY <4>1 DEF Pending, Early, Late, Captured
    <3>2. CASE r = q
      BY <3>2, <2>2, WaitEndsDoes, TypedParts, ReconConstants DEF Pending, Early, Late, Captured
    <3>. QED BY <3>1, <3>2
  <2>3. CASE StopCloses(q) \/ LogoutReturns(q) \/ KillEnds(q)
    <3>1. CASE r # q
      <4>1. request'[r] = request[r]
        BY <3>1, <2>3, ClosesDoes
      <4>. QED BY <4>1 DEF Pending, Early, Late, Captured
    <3>2. CASE r = q
      BY <3>2, <2>3, ClosesDoes, TypedParts, ReconConstants DEF Pending, Early, Late, Captured
    <3>. QED BY <3>1, <3>2
  <2>4. CASE LogoutOverruns(q)
    <3>1. CASE r # q
      <4>1. request'[r] = request[r]
        BY <3>1, <2>4, LogoutOverrunsDoes
      <4>. QED BY <4>1 DEF Pending, Early, Late, Captured
    <3>2. CASE r = q
      BY <3>2, <2>4, LogoutOverrunsDoes, TypedParts, ReconConstants DEF Pending, Early, Late, Captured
    <3>. QED BY <3>1, <3>2
  <2>5. CASE StopEscalates(q)
    <3>1. CASE r # q
      <4>1. request'[r] = request[r]
        BY <3>1, <2>5, StopEscalatesDoes
      <4>. QED BY <4>1 DEF Pending, Early, Late, Captured
    <3>2. CASE r = q
      BY <3>2, <2>5, StopEscalatesDoes, TypedParts, ReconConstants DEF Pending, Early, Late, Captured
    <3>. QED BY <3>1, <3>2
  <2>6. CASE DeleteEnters(q)
    <3>1. CASE r # q
      <4>1. request'[r] = request[r]
        BY <3>1, <2>6, DeleteEntersDoes DEF DeleteStarts
      <4>. QED BY <4>1 DEF Pending, Early, Late, Captured
    <3>2. CASE r = q
      BY <3>2, <2>6, DeleteEntersDoes, TypedParts, ReconConstants DEF DeleteStarts, Pending, Early, Late, Captured
    <3>. QED BY <3>1, <3>2
  <2>7. CASE DeleteFenceOpens(q)
    <3>1. CASE r # q
      <4>1. request'[r] = request[r]
        BY <3>1, <2>7, DeleteFenceOpensDoes DEF DeleteStarts
      <4>. QED BY <4>1 DEF Pending, Early, Late, Captured
    <3>2. CASE r = q
      BY <3>2, <2>7, DeleteFenceOpensDoes, TypedParts, ReconConstants DEF DeleteStarts, Pending, Early, Late, Captured
    <3>. QED BY <3>1, <3>2
  <2>8. CASE DeleteRefused(q)
    <3>1. CASE r # q
      <4>1. request'[r] = request[r]
        BY <3>1, <2>8, DeleteRefusedDoes
      <4>. QED BY <4>1 DEF Pending, Early, Late, Captured
    <3>2. CASE r = q
      BY <3>2, <2>8, DeleteRefusedDoes, TypedParts, ReconConstants DEF Pending, Early, Late, Captured
    <3>. QED BY <3>1, <3>2
  <2>9. CASE RowDeleted(q)
    <3>1. CASE r # q
      <4>1. request'[r] = request[r]
        BY <3>1, <2>9, RowDeletedDoes
      <4>. QED BY <4>1 DEF Pending, Early, Late, Captured
    <3>2. CASE r = q
      BY <3>2, <2>9, RowDeletedDoes, TypedParts, ReconConstants DEF Pending, Early, Late, Captured
    <3>. QED BY <3>1, <3>2
  <2>10. CASE NotFound(q) \/ DeleteFails(q) \/ Purged(q)
    <3>1. CASE r # q
      <4>1. request'[r] = request[r]
        BY <3>1, <2>10, UnmarksDoes
      <4>. QED BY <4>1 DEF Pending, Early, Late, Captured
    <3>2. CASE r = q
      BY <3>2, <2>10, UnmarksDoes, TypedParts, ReconConstants DEF Pending, Early, Late, Captured
    <3>. QED BY <3>1, <3>2
  <2>. QED BY <2>1, <2>2, <2>3, <2>4, <2>5, <2>6, <2>7, <2>8, <2>9, <2>10, <1>6 DEF RequestSteps
<1>7. CASE StartSteps \/ (\E l \in Launcher : LaunchSteps(l)) \/ (\E l \in Attempt : TimerFires(l)) \/ (\E e \in Engine : EngineSteps(e))
  <2>1. request' = request
    BY <1>7, StartStepsLeave, LaunchStepsLeave, EngineStepsLeave DEF elsewhere, TimerFires
  <2>. QED BY <2>1 DEF Pending, Early, Late, Captured
<1>. QED BY <1>1, <1>5, <1>6, <1>7, NextCases

\* The last call to be answered writes DISCONNECTED if there is a row.
LEMMA AnswerWrites ==
    ASSUME Typed, [Next]_vars
    PROVE  \/ ~Asked \/ Asked' \/ ~mem'.mark \/ refused'
           \/ mem'.status \in {"DISCONNECTED", "FAILED"}
           \/ ~row /\ mem.mark /\ \A r \in Request : ~Pending(r)
<1>1. CASE UNCHANGED vars
  BY <1>1 DEF vars, Asked
<1>5. ASSUME NEW q \in Request, NEW kind \in Kinds, CallMade(q, kind)
      PROVE  \/ ~Asked \/ Asked' \/ ~mem'.mark \/ refused'
             \/ mem'.status \in {"DISCONNECTED", "FAILED"}
             \/ ~row /\ mem.mark /\ \A r \in Request : ~Pending(r)
  <2>1. CASE kind \in {"stop", "delete"} /\ Called(q, kind)
    BY <1>5, <2>1, TypedParts, CalledDoes DEF CallMade, Asked, Pending, Early, Late, Captured
  <2>2. CASE kind \in {"logout", "kill"} /\ EngineCalled(q, kind)
    BY <1>5, <2>2, TypedParts, EngineCalledDoes DEF CallMade, Asked, Pending, Early, Late, Captured
  <2>. QED BY <2>1, <2>2, <1>5 DEF CallMade
<1>6. ASSUME NEW q \in Request, RequestSteps(q)
      PROVE  \/ ~Asked \/ Asked' \/ ~mem'.mark \/ refused'
             \/ mem'.status \in {"DISCONNECTED", "FAILED"}
             \/ ~row /\ mem.mark /\ \A r \in Request : ~Pending(r)
  <2>1. CASE StopCaptures(q)
    BY <2>1, TypedParts, StopCapturesDoes DEF histVars, Asked, Pending, Early, Late, Captured
  <2>2. CASE WaitEnds(q)
    BY <2>2, TypedParts, WaitEndsDoes DEF histVars, Asked, Pending, Early, Late, Captured
  <2>3. CASE StopCloses(q) \/ LogoutReturns(q) \/ KillEnds(q)
    BY <2>3, TypedParts, ClosesDoes DEF histVars, Asked, Pending, Early, Late, Captured
  <2>4. CASE LogoutOverruns(q)
    BY <2>4, TypedParts, LogoutOverrunsDoes DEF histVars, Asked, Pending, Early, Late, Captured
  <2>5. CASE StopEscalates(q)
    BY <2>5, TypedParts, StopEscalatesDoes DEF histVars, Asked, Pending, Early, Late, Captured
  <2>6. CASE DeleteEnters(q)
    BY <2>6, TypedParts, DeleteEntersDoes DEF DeleteStarts, histVars, Asked, Pending, Early, Late, Captured
  <2>7. CASE DeleteFenceOpens(q)
    BY <2>7, TypedParts, DeleteFenceOpensDoes DEF DeleteStarts, histVars, Asked, Pending, Early, Late, Captured
  <2>8. CASE DeleteRefused(q)
    BY <2>8, TypedParts, DeleteRefusedDoes DEF Asked, Pending, Early, Late, Captured
  <2>9. CASE RowDeleted(q)
    BY <2>9, TypedParts, RowDeletedDoes DEF histVars, Asked, Pending, Early, Late, Captured
  <2>10. CASE NotFound(q) \/ DeleteFails(q) \/ Purged(q)
    BY <2>10, TypedParts, UnmarksDoes DEF histVars, Asked, Pending, Early, Late, Captured
  <2>. QED BY <2>1, <2>2, <2>3, <2>4, <2>5, <2>6, <2>7, <2>8, <2>9, <2>10, <1>6 DEF RequestSteps
<1>7. CASE StartSteps \/ (\E l \in Launcher : LaunchSteps(l)) \/ (\E l \in Attempt : TimerFires(l)) \/ (\E e \in Engine : EngineSteps(e))
  <2>1. request' = request
    BY <1>7, StartStepsLeave, LaunchStepsLeave, EngineStepsLeave DEF elsewhere, TimerFires
  <2>. QED BY <2>1 DEF Asked
<1>. QED BY <1>1, <1>5, <1>6, <1>7, NextCases

\* Another status is written for a launch or by a running engine.
LEMMA StatusMoves ==
    ASSUME Typed, [Next]_vars
    PROVE  \/ mem'.status \in {mem.status, "DISCONNECTED", "FAILED"}
           \/ \E k \in Launcher : launch[k].at = "writing"
           \/ \E f \in Engine : mem.eng[f] \in Alive
<1>1. CASE UNCHANGED vars
  BY <1>1, TypedParts DEF vars, histVars, Alive
<1>2. CASE StartSteps
  <2>1. CASE StartCalled
    BY <2>1, TypedParts, StartCalledDoes DEF elsewhere, Begun, Alive
  <2>2. CASE HookDone
    BY <2>2, TypedParts, HookDoneDoes DEF elsewhere, Registered, histVars, Alive
  <2>3. CASE ReapEnds
    BY <2>3, TypedParts, ReapEndsDoes DEF elsewhere, histVars, Alive
  <2>. QED BY <2>1, <2>2, <2>3, <1>2 DEF StartSteps
<1>3. ASSUME NEW l \in Launcher, LaunchSteps(l)
      PROVE  \/ mem'.status \in {mem.status, "DISCONNECTED", "FAILED"}
             \/ \E k \in Launcher : launch[k].at = "writing"
             \/ \E f \in Engine : mem.eng[f] \in Alive
  <2>1. CASE FenceOpens(l)
    <3>1. CASE l = Start
      BY <2>1, <3>1, TypedParts, FenceOpensDoes DEF elsewhere, histVars
    <3>2. CASE l # Start
      BY <2>1, <3>2, TypedParts, FenceOpensDoes DEF Registered, elsewhere, histVars
    <3>. QED BY <3>1, <3>2
  <2>2. CASE FenceRefuses(l)
    BY <2>2, TypedParts, FenceRefusesDoes DEF elsewhere, Alive
  <2>3. CASE WriteSettles(l)
    BY <2>3, TypedParts, WriteSettlesDoes DEF elsewhere, histVars, Alive
  <2>4. CASE WriteFails(l)
    BY <2>4, TypedParts, WriteFailsDoes DEF elsewhere, Alive
  <2>5. CASE InitResolves(l)
    BY <2>5, TypedParts, InitResolvesDoes DEF elsewhere, histVars, Alive
  <2>6. CASE InitRejects(l)
    BY <2>6, TypedParts, InitRejectsDoes DEF elsewhere, Alive
  <2>7. CASE InitTimesOut(l)
    BY <2>7, TypedParts, InitTimesOutDoes DEF elsewhere, histVars, Alive
  <2>8. CASE LateKillEnds(l)
    BY <2>8, TypedParts, LateKillEndsDoes DEF elsewhere, Alive
  <2>9. CASE RowRead(l)
    BY <2>9, TypedParts, RowReadDoes DEF elsewhere, Alive
  <2>10. CASE RetireEnds(l) \/ RetireTimesOut(l)
    BY <2>10, TypedParts, RetireEndsDoes DEF elsewhere, histVars, Alive
  <2>11. CASE Repurged(l)
    BY <2>11, TypedParts, RepurgedDoes DEF elsewhere, histVars, Alive
  <2>12. CASE OldEngineGone(l)
    BY <2>12, TypedParts, OldEngineGoneDoes DEF elsewhere, histVars, Alive
  <2>13. CASE DestroyTimesOut(l)
    BY <2>13, TypedParts, DestroyTimesOutDoes DEF elsewhere, histVars, Alive
  <2>. QED BY <2>1, <2>2, <2>3, <2>4, <2>5, <2>6, <2>7, <2>8, <2>9, <2>10, <2>11, <2>12, <2>13, <1>3 DEF LaunchSteps
<1>4. ASSUME NEW l \in Attempt, TimerFires(l)
      PROVE  \/ mem'.status \in {mem.status, "DISCONNECTED", "FAILED"}
             \/ \E k \in Launcher : launch[k].at = "writing"
             \/ \E f \in Engine : mem.eng[f] \in Alive
  BY <1>4, TypedParts, TimerFiresDoes DEF elsewhere, Begun, Registered, Alive
<1>5. ASSUME NEW q \in Request, NEW kind \in Kinds, CallMade(q, kind)
      PROVE  \/ mem'.status \in {mem.status, "DISCONNECTED", "FAILED"}
             \/ \E k \in Launcher : launch[k].at = "writing"
             \/ \E f \in Engine : mem.eng[f] \in Alive
  <2>1. CASE kind \in {"stop", "delete"} /\ Called(q, kind)
    BY <1>5, <2>1, TypedParts, CalledDoes DEF CallMade, Alive
  <2>2. CASE kind \in {"logout", "kill"} /\ EngineCalled(q, kind)
    BY <1>5, <2>2, TypedParts, EngineCalledDoes DEF CallMade, Alive
  <2>. QED BY <2>1, <2>2, <1>5 DEF CallMade
<1>6. ASSUME NEW q \in Request, RequestSteps(q)
      PROVE  \/ mem'.status \in {mem.status, "DISCONNECTED", "FAILED"}
             \/ \E k \in Launcher : launch[k].at = "writing"
             \/ \E f \in Engine : mem.eng[f] \in Alive
  <2>1. CASE StopCaptures(q)
    BY <2>1, TypedParts, StopCapturesDoes DEF histVars, Alive
  <2>2. CASE WaitEnds(q)
    BY <2>2, TypedParts, WaitEndsDoes DEF histVars, Alive
  <2>3. CASE StopCloses(q) \/ LogoutReturns(q) \/ KillEnds(q)
    BY <2>3, TypedParts, ClosesDoes DEF histVars, Alive
  <2>4. CASE LogoutOverruns(q)
    BY <2>4, TypedParts, LogoutOverrunsDoes DEF histVars, Alive
  <2>5. CASE StopEscalates(q)
    BY <2>5, TypedParts, StopEscalatesDoes DEF histVars, Alive
  <2>6. CASE DeleteEnters(q)
    BY <2>6, TypedParts, DeleteEntersDoes DEF DeleteStarts, histVars, Alive
  <2>7. CASE DeleteFenceOpens(q)
    BY <2>7, TypedParts, DeleteFenceOpensDoes DEF DeleteStarts, histVars, Alive
  <2>8. CASE DeleteRefused(q)
    BY <2>8, TypedParts, DeleteRefusedDoes DEF Alive
  <2>9. CASE RowDeleted(q)
    BY <2>9, TypedParts, RowDeletedDoes DEF histVars, Alive
  <2>10. CASE NotFound(q) \/ DeleteFails(q) \/ Purged(q)
    BY <2>10, TypedParts, UnmarksDoes DEF histVars, Alive
  <2>. QED BY <2>1, <2>2, <2>3, <2>4, <2>5, <2>6, <2>7, <2>8, <2>9, <2>10, <1>6 DEF RequestSteps
<1>7. ASSUME NEW e \in Engine, EngineSteps(e)
      PROVE  \/ mem'.status \in {mem.status, "DISCONNECTED", "FAILED"}
             \/ \E k \in Launcher : launch[k].at = "writing"
             \/ \E f \in Engine : mem.eng[f] \in Alive
  <2>1. CASE KillLands(e) \/ LeakEnds(e)
    BY <2>1, TypedParts, KillLandsDoes DEF others, histVars, Alive
  <2>2. CASE RemovalSettles(e)
    BY <2>2, TypedParts DEF RemovalSettles, others, histVars, Alive
  <2>3. CASE EngineReady(e) \/ EngineWedges(e)
    BY <2>3, TypedParts, EngineRunsDoes DEF others, histVars, Alive
  <2>4. CASE EngineDrops(e) \/ EngineUnlinked(e) \/ EngineFails(e) \/ StuckAuth(e) \/ WipeLands(e)
    BY <2>4, TypedParts, EngineEndsDoes DEF others, histVars, Alive
  <2>5. CASE ProbeFails(e) \/ ProbePasses
    BY <2>5, TypedParts, ProbesDoes DEF others, histVars, Alive
  <2>6. CASE DropHandled(e)
    BY <2>6, TypedParts, DropHandledDoes DEF Alive
  <2>7. CASE DropUnread(e)
    BY <2>7, TypedParts, DropUnreadDoes DEF others, histVars, Alive
  <2>. QED BY <2>1, <2>2, <2>3, <2>4, <2>5, <2>6, <2>7, <1>7 DEF EngineSteps
<1>. QED BY <1>1, <1>2, <1>3, <1>4, <1>5, <1>6, <1>7, NextCases

\* An INITIALIZING write pending on a marked session is awaited or will be.
Owed == mem.mark /\ (\E l \in Launcher : launch[l].at = "writing") => Asking \/ Awaiting

\* An engine of a marked session runs only until the call has captured it.
Halted == mem.mark /\ (\E e \in Engine : mem.eng[e] \in Alive) => Asking

\* A mark without a row belongs to a call that will take it back.
Unfinished == mem.mark /\ ~row => \E q \in Request : Pending(q)

\* A marked session with no call under way says that it is stopped.
SaysStopped == mem.mark /\ ~Asked => mem.status \in {"DISCONNECTED", "FAILED"}

Written == Owed /\ Halted /\ Unfinished /\ SaysStopped

\* Every step keeps Owed.
LEMMA OwedStep ==
    ASSUME Typed, Apart, Kept, Unmarked, \A l \in Launcher : Fresh(l), Owed, [Next]_vars,
           ~crossed', ~refused'
    PROVE  Owed'
<1> SUFFICES ASSUME mem'.mark, NEW l \in Launcher, launch'[l].at = "writing"
             PROVE  Asking' \/ Awaiting'
  BY DEF Owed
<1>1. launch'[l] = launch[l]
  <2> SUFFICES ASSUME launch'[l] # launch[l]
               PROVE  FALSE
    OBVIOUS
  <2>1. PICK k \in Launcher : Registers(k)
    BY WritingBegins
  <2>2. mem.mark
    BY <2>1 DEF Registers
  <2>. QED BY <2>2, WritingUnmarked DEF Unmarked
<1>2. /\ launch[l].at = "writing" /\ mem.registry = launch[l].eng /\ mem.writing = mem.registry
      /\ mem.registry # NoEngine
  BY <1>1, TypedShapes, TypedParts DEF Fresh, LaunchShape, LaunchFits
<1>3. CASE ~mem.mark
  BY <1>2, <1>3, MarkShuts
<1>4. ASSUME NEW r \in Request, Early(r)
      PROVE  Early(r)' \/ request'[r].at = "waiting"
  BY <1>2, <1>4, EarlyShuts
<1>5. ASSUME NEW r \in Request, request[r].at = "waiting"
      PROVE  request'[r].at = "waiting"
  <2>1. mem.writing = request[r].eng
    BY <1>2, <1>5 DEF Apart
  <2>. QED BY <1>5, <2>1, WaitingGoes
<1>. QED BY <1>2, <1>3, <1>4, <1>5 DEF Owed, Asking, Awaiting

\* Every step keeps Halted.
LEMMA HaltedStep ==
    ASSUME Typed, Kept, Sole, Halted, [Next]_vars, ~refused'
    PROVE  Halted'
<1> SUFFICES ASSUME mem'.mark, NEW e \in Engine, mem'.eng[e] \in Alive
             PROVE  Asking'
  BY DEF Halted
<1>1. mem.eng[e] \in Alive
  BY NewlyAlive DEF Opens
<1>2. mem.registry = e /\ e # NoEngine
  BY <1>1, TypedParts DEF Sole, Usable
<1>3. mem.writing # mem.registry
  BY <1>1, <1>2 DEF Kept, Alive
<1>4. CASE ~mem.mark
  BY <1>2, <1>3, <1>4, MarkShuts
<1>5. CASE mem.mark
  <2>1. PICK r \in Request : Early(r)
    BY <1>1, <1>5 DEF Halted, Asking
  <2>2. Early(r)'
    BY <1>2, <1>3, <2>1, EarlyShuts
  <2>. QED BY <2>2 DEF Asking
<1>. QED BY <1>4, <1>5

\* Every step keeps Unfinished.
LEMMA UnfinishedStep ==
    ASSUME Typed, Unfinished, [Next]_vars, ~refused'
    PROVE  Unfinished'
<1> SUFFICES ASSUME mem'.mark, ~row'
             PROVE  \E r \in Request : Pending(r)'
  BY DEF Unfinished
<1>1. CASE mem.mark /\ ~row
  <2>1. PICK r \in Request : Pending(r)
    BY <1>1 DEF Unfinished
  <2>. QED BY <1>1, <2>1, PendingGoes
<1>. QED BY <1>1, PendingBegins

\* Every step keeps SaysStopped.
LEMMA SaysStoppedStep ==
    ASSUME Typed, Owed, Halted, Unfinished, SaysStopped, [Next]_vars, ~refused'
    PROVE  SaysStopped'
<1> SUFFICES ASSUME mem'.mark, ~Asked'
             PROVE  mem'.status \in {"DISCONNECTED", "FAILED"}
  BY DEF SaysStopped
<1>1. CASE Asked
  BY <1>1, AnswerWrites DEF Unfinished
<1>2. CASE ~Asked
  <2>1. mem.mark
    BY <1>2, MarkRises
  <2>2. ~Asking /\ ~Awaiting
    BY <1>2 DEF Asked, Asking, Awaiting, Early
  <2>3. mem'.status \in {mem.status, "DISCONNECTED", "FAILED"}
    BY <2>1, <2>2, StatusMoves DEF Owed, Halted
  <2>. QED BY <1>2, <2>1, <2>3 DEF SaysStopped
<1>. QED BY <1>1, <1>2

\* The invariant behind StopIsTheLastWriter.
Closing == Tended /\ (~overlapped /\ ~crossed /\ ~refused => Written)

\* It holds at the start.
LEMMA ClosingInit == Init => Closing
<1> SUFFICES ASSUME Init PROVE Closing
  OBVIOUS
<1>1. ~mem.mark
  BY DEF Init
<1>. QED BY <1>1, TendedInit DEF Closing, Written, Owed, Halted, Unfinished, SaysStopped

\* Every step keeps it.
LEMMA ClosingStep ==
    ASSUME Closing, [Next]_vars
    PROVE  Closing'
<1>1. Tended' /\ Tended /\ Freed /\ Kept /\ Fenced /\ Reached /\ Typed
  BY TendedStep DEF Closing, Tended, Freed, Fenced, Reached
<1>2. ASSUME ~overlapped', ~crossed', ~refused'
      PROVE  Written'
  <2>1. ~overlapped /\ ~crossed /\ ~refused
    BY <1>1, <1>2, OverlapStays, RefusalStays
  <2>2. Apart /\ Sole /\ Unmarked /\ (\A l \in Launcher : Fresh(l)) /\ Written
    BY <1>1, <2>1 DEF Closing, Tended, Freed, Fenced
  <2>3. Owed'
    BY <1>1, <1>2, <2>2, OwedStep DEF Written
  <2>4. Halted'
    BY <1>1, <1>2, <2>2, HaltedStep DEF Written
  <2>5. Unfinished'
    BY <1>1, <1>2, <2>2, UnfinishedStep DEF Written
  <2>6. SaysStopped'
    BY <1>1, <1>2, <2>2, SaysStoppedStep DEF Written
  <2>. QED BY <2>3, <2>4, <2>5, <2>6 DEF Written
<1>. QED BY <1>1, <1>2 DEF Closing

\* A stopped session's row says so: the stop wrote after the launch's
\* INITIALIZING, or the launch failed (awaitInitialStatus()).
THEOREM LifecycleStopWritesLast == Spec => []StopIsTheLastWriter
<1>1. Closing => StopIsTheLastWriter
  <2> SUFFICES ASSUME Closing, Answered, mem.mark, ~overlapped, ~refused, ~crossed
               PROVE  mem.status \in {"DISCONNECTED", "FAILED"}
    BY DEF StopIsTheLastWriter, Quiet
  <2>1. ~Asked
    BY DEF Answered, Asked
  <2>. QED BY <2>1 DEF Closing, Written, SaysStopped
<1>. QED BY <1>1, ClosingInit, ClosingStep, PTL DEF Spec

-----------------------------------------------------------------------------
(* What a deleted session leaves behind.                                   *)

\* A launch whose end looks at the row and purges what it wrote.
Purges(l) == launch[l].at \in {"initializing", "killing", "checking", "retiring", "repurging"}

Launching == \E l \in Launcher : InFlight(l)

\* History is not forgotten.
LEMMA EscapeStays ==
    ASSUME Typed, [Next]_vars
    PROVE  escaped => escaped'
<1>1. CASE UNCHANGED vars
  BY <1>1, TypedParts DEF vars, histVars
<1>2. CASE StartSteps
  <2>1. CASE StartCalled
    BY <2>1, TypedParts, StartCalledDoes DEF elsewhere, Begun
  <2>2. CASE HookDone
    BY <2>2, TypedParts, HookDoneDoes DEF elsewhere, Registered, histVars
  <2>3. CASE ReapEnds
    BY <2>3, TypedParts, ReapEndsDoes DEF elsewhere, histVars
  <2>. QED BY <2>1, <2>2, <2>3, <1>2 DEF StartSteps
<1>3. ASSUME NEW l \in Launcher, LaunchSteps(l)
      PROVE  escaped => escaped'
  <2>1. CASE FenceOpens(l)
    <3>1. CASE l = Start
      BY <2>1, <3>1, TypedParts, FenceOpensDoes DEF elsewhere, histVars
    <3>2. CASE l # Start
      BY <2>1, <3>2, TypedParts, FenceOpensDoes DEF Registered, elsewhere, histVars
    <3>. QED BY <3>1, <3>2
  <2>2. CASE FenceRefuses(l)
    BY <2>2, TypedParts, FenceRefusesDoes DEF elsewhere
  <2>3. CASE WriteSettles(l)
    BY <2>3, TypedParts, WriteSettlesDoes DEF elsewhere, histVars
  <2>4. CASE WriteFails(l)
    BY <2>4, TypedParts, WriteFailsDoes DEF elsewhere
  <2>5. CASE InitResolves(l)
    BY <2>5, TypedParts, InitResolvesDoes DEF elsewhere, histVars
  <2>6. CASE InitRejects(l)
    BY <2>6, TypedParts, InitRejectsDoes DEF elsewhere
  <2>7. CASE InitTimesOut(l)
    BY <2>7, TypedParts, InitTimesOutDoes DEF elsewhere, histVars
  <2>8. CASE LateKillEnds(l)
    BY <2>8, TypedParts, LateKillEndsDoes DEF elsewhere
  <2>9. CASE RowRead(l)
    BY <2>9, TypedParts, RowReadDoes DEF elsewhere
  <2>10. CASE RetireEnds(l) \/ RetireTimesOut(l)
    BY <2>10, TypedParts, RetireEndsDoes DEF elsewhere, histVars
  <2>11. CASE Repurged(l)
    BY <2>11, TypedParts, RepurgedDoes DEF elsewhere, histVars
  <2>12. CASE OldEngineGone(l)
    BY <2>12, TypedParts, OldEngineGoneDoes DEF elsewhere, histVars
  <2>13. CASE DestroyTimesOut(l)
    BY <2>13, TypedParts, DestroyTimesOutDoes DEF elsewhere, histVars
  <2>. QED BY <2>1, <2>2, <2>3, <2>4, <2>5, <2>6, <2>7, <2>8, <2>9, <2>10, <2>11, <2>12, <2>13, <1>3 DEF LaunchSteps
<1>4. ASSUME NEW l \in Attempt, TimerFires(l)
      PROVE  escaped => escaped'
  BY <1>4, TypedParts, TimerFiresDoes DEF elsewhere, Begun, Registered
<1>5. ASSUME NEW q \in Request, NEW kind \in Kinds, CallMade(q, kind)
      PROVE  escaped => escaped'
  <2>1. CASE kind \in {"stop", "delete"} /\ Called(q, kind)
    BY <1>5, <2>1, TypedParts, CalledDoes DEF CallMade
  <2>2. CASE kind \in {"logout", "kill"} /\ EngineCalled(q, kind)
    BY <1>5, <2>2, TypedParts, EngineCalledDoes DEF CallMade
  <2>. QED BY <2>1, <2>2, <1>5 DEF CallMade
<1>6. ASSUME NEW q \in Request, RequestSteps(q)
      PROVE  escaped => escaped'
  <2>1. CASE StopCaptures(q)
    BY <2>1, TypedParts, StopCapturesDoes DEF histVars
  <2>2. CASE WaitEnds(q)
    BY <2>2, TypedParts, WaitEndsDoes DEF histVars
  <2>3. CASE StopCloses(q) \/ LogoutReturns(q) \/ KillEnds(q)
    BY <2>3, TypedParts, ClosesDoes DEF histVars
  <2>4. CASE LogoutOverruns(q)
    BY <2>4, TypedParts, LogoutOverrunsDoes DEF histVars
  <2>5. CASE StopEscalates(q)
    BY <2>5, TypedParts, StopEscalatesDoes DEF histVars
  <2>6. CASE DeleteEnters(q)
    BY <2>6, TypedParts, DeleteEntersDoes DEF DeleteStarts, histVars
  <2>7. CASE DeleteFenceOpens(q)
    BY <2>7, TypedParts, DeleteFenceOpensDoes DEF DeleteStarts, histVars
  <2>8. CASE DeleteRefused(q)
    BY <2>8, TypedParts, DeleteRefusedDoes
  <2>9. CASE RowDeleted(q)
    BY <2>9, TypedParts, RowDeletedDoes DEF histVars
  <2>10. CASE NotFound(q) \/ DeleteFails(q) \/ Purged(q)
    BY <2>10, TypedParts, UnmarksDoes DEF histVars
  <2>. QED BY <2>1, <2>2, <2>3, <2>4, <2>5, <2>6, <2>7, <2>8, <2>9, <2>10, <1>6 DEF RequestSteps
<1>7. ASSUME NEW e \in Engine, EngineSteps(e)
      PROVE  escaped => escaped'
  <2>1. CASE KillLands(e) \/ LeakEnds(e)
    BY <2>1, TypedParts, KillLandsDoes DEF others, histVars
  <2>2. CASE RemovalSettles(e)
    BY <2>2, TypedParts DEF RemovalSettles, others, histVars
  <2>3. CASE EngineReady(e) \/ EngineWedges(e)
    BY <2>3, TypedParts, EngineRunsDoes DEF others, histVars
  <2>4. CASE EngineDrops(e) \/ EngineUnlinked(e) \/ EngineFails(e) \/ StuckAuth(e) \/ WipeLands(e)
    BY <2>4, TypedParts, EngineEndsDoes DEF others, histVars
  <2>5. CASE ProbeFails(e) \/ ProbePasses
    BY <2>5, TypedParts, ProbesDoes DEF others, histVars
  <2>6. CASE DropHandled(e)
    BY <2>6, DropHandledDoes
  <2>7. CASE DropUnread(e)
    BY <2>7, TypedParts, DropUnreadDoes DEF others, histVars
  <2>. QED BY <2>1, <2>2, <2>3, <2>4, <2>5, <2>6, <2>7, <1>7 DEF EngineSteps
<1>. QED BY <1>1, <1>2, <1>3, <1>4, <1>5, <1>6, <1>7, NextCases


\* A row goes with a delete(), whose purge is next; none comes back.
LEMMA RowGoes ==
    ASSUME Typed, [Next]_vars
    PROVE  \/ row' = row
           \/ ~row' /\ mem' = mem /\ launch' = launch /\ \E r \in Request : request'[r].at = "purging"
<1>1. CASE UNCHANGED vars
  BY <1>1, TypedParts DEF vars, histVars
<1>2. CASE StartSteps
  <2>1. CASE StartCalled
    BY <2>1, TypedParts, StartCalledDoes DEF elsewhere, Begun
  <2>2. CASE HookDone
    BY <2>2, TypedParts, HookDoneDoes DEF elsewhere, Registered, histVars
  <2>3. CASE ReapEnds
    BY <2>3, TypedParts, ReapEndsDoes DEF elsewhere, histVars
  <2>. QED BY <2>1, <2>2, <2>3, <1>2 DEF StartSteps
<1>3. ASSUME NEW l \in Launcher, LaunchSteps(l)
      PROVE  \/ row' = row
             \/ ~row' /\ mem' = mem /\ launch' = launch /\ \E r \in Request : request'[r].at = "purging"
  <2>1. CASE FenceOpens(l)
    <3>1. CASE l = Start
      BY <2>1, <3>1, TypedParts, FenceOpensDoes DEF elsewhere, histVars
    <3>2. CASE l # Start
      BY <2>1, <3>2, TypedParts, FenceOpensDoes DEF Registered, elsewhere, histVars
    <3>. QED BY <3>1, <3>2
  <2>2. CASE FenceRefuses(l)
    BY <2>2, TypedParts, FenceRefusesDoes DEF elsewhere
  <2>3. CASE WriteSettles(l)
    BY <2>3, TypedParts, WriteSettlesDoes DEF elsewhere, histVars
  <2>4. CASE WriteFails(l)
    BY <2>4, TypedParts, WriteFailsDoes DEF elsewhere
  <2>5. CASE InitResolves(l)
    BY <2>5, TypedParts, InitResolvesDoes DEF elsewhere, histVars
  <2>6. CASE InitRejects(l)
    BY <2>6, TypedParts, InitRejectsDoes DEF elsewhere
  <2>7. CASE InitTimesOut(l)
    BY <2>7, TypedParts, InitTimesOutDoes DEF elsewhere, histVars
  <2>8. CASE LateKillEnds(l)
    BY <2>8, TypedParts, LateKillEndsDoes DEF elsewhere
  <2>9. CASE RowRead(l)
    BY <2>9, TypedParts, RowReadDoes DEF elsewhere
  <2>10. CASE RetireEnds(l) \/ RetireTimesOut(l)
    BY <2>10, TypedParts, RetireEndsDoes DEF elsewhere, histVars
  <2>11. CASE Repurged(l)
    BY <2>11, TypedParts, RepurgedDoes DEF elsewhere, histVars
  <2>12. CASE OldEngineGone(l)
    BY <2>12, TypedParts, OldEngineGoneDoes DEF elsewhere, histVars
  <2>13. CASE DestroyTimesOut(l)
    BY <2>13, TypedParts, DestroyTimesOutDoes DEF elsewhere, histVars
  <2>. QED BY <2>1, <2>2, <2>3, <2>4, <2>5, <2>6, <2>7, <2>8, <2>9, <2>10, <2>11, <2>12, <2>13, <1>3 DEF LaunchSteps
<1>4. ASSUME NEW l \in Attempt, TimerFires(l)
      PROVE  \/ row' = row
             \/ ~row' /\ mem' = mem /\ launch' = launch /\ \E r \in Request : request'[r].at = "purging"
  BY <1>4, TypedParts, TimerFiresDoes DEF elsewhere, Begun, Registered
<1>5. ASSUME NEW q \in Request, NEW kind \in Kinds, CallMade(q, kind)
      PROVE  \/ row' = row
             \/ ~row' /\ mem' = mem /\ launch' = launch /\ \E r \in Request : request'[r].at = "purging"
  <2>1. CASE kind \in {"stop", "delete"} /\ Called(q, kind)
    BY <1>5, <2>1, TypedParts, CalledDoes DEF CallMade
  <2>2. CASE kind \in {"logout", "kill"} /\ EngineCalled(q, kind)
    BY <1>5, <2>2, TypedParts, EngineCalledDoes DEF CallMade
  <2>. QED BY <2>1, <2>2, <1>5 DEF CallMade
<1>6. ASSUME NEW q \in Request, RequestSteps(q)
      PROVE  \/ row' = row
             \/ ~row' /\ mem' = mem /\ launch' = launch /\ \E r \in Request : request'[r].at = "purging"
  <2>1. CASE StopCaptures(q)
    BY <2>1, TypedParts, StopCapturesDoes DEF histVars
  <2>2. CASE WaitEnds(q)
    BY <2>2, TypedParts, WaitEndsDoes DEF histVars
  <2>3. CASE StopCloses(q) \/ LogoutReturns(q) \/ KillEnds(q)
    BY <2>3, TypedParts, ClosesDoes DEF histVars
  <2>4. CASE LogoutOverruns(q)
    BY <2>4, TypedParts, LogoutOverrunsDoes DEF histVars
  <2>5. CASE StopEscalates(q)
    BY <2>5, TypedParts, StopEscalatesDoes DEF histVars
  <2>6. CASE DeleteEnters(q)
    BY <2>6, TypedParts, DeleteEntersDoes DEF DeleteStarts, histVars
  <2>7. CASE DeleteFenceOpens(q)
    BY <2>7, TypedParts, DeleteFenceOpensDoes DEF DeleteStarts, histVars
  <2>8. CASE DeleteRefused(q)
    BY <2>8, TypedParts, DeleteRefusedDoes
  <2>9. CASE RowDeleted(q)
    BY <2>9, TypedParts, RowDeletedDoes DEF histVars
  <2>10. CASE NotFound(q) \/ DeleteFails(q) \/ Purged(q)
    BY <2>10, TypedParts, UnmarksDoes DEF histVars
  <2>. QED BY <2>1, <2>2, <2>3, <2>4, <2>5, <2>6, <2>7, <2>8, <2>9, <2>10, <1>6 DEF RequestSteps
<1>7. ASSUME NEW e \in Engine, EngineSteps(e)
      PROVE  \/ row' = row
             \/ ~row' /\ mem' = mem /\ launch' = launch /\ \E r \in Request : request'[r].at = "purging"
  <2>1. CASE KillLands(e) \/ LeakEnds(e)
    BY <2>1, TypedParts, KillLandsDoes DEF others, histVars
  <2>2. CASE RemovalSettles(e)
    BY <2>2, TypedParts DEF RemovalSettles, others, histVars
  <2>3. CASE EngineReady(e) \/ EngineWedges(e)
    BY <2>3, TypedParts, EngineRunsDoes DEF others, histVars
  <2>4. CASE EngineDrops(e) \/ EngineUnlinked(e) \/ EngineFails(e) \/ StuckAuth(e) \/ WipeLands(e)
    BY <2>4, TypedParts, EngineEndsDoes DEF others, histVars
  <2>5. CASE ProbeFails(e) \/ ProbePasses
    BY <2>5, TypedParts, ProbesDoes DEF others, histVars
  <2>6. CASE DropHandled(e)
    BY <2>6, TypedParts, DropHandledDoes
  <2>7. CASE DropUnread(e)
    BY <2>7, TypedParts, DropUnreadDoes DEF others, histVars
  <2>. QED BY <2>1, <2>2, <2>3, <2>4, <2>5, <2>6, <2>7, <1>7 DEF EngineSteps
<1>. QED BY <1>1, <1>2, <1>3, <1>4, <1>5, <1>6, <1>7, NextCases


\* Credentials are written by an engine that a launch opens.
LEMMA ProfileRises ==
    ASSUME Typed, [Next]_vars
    PROVE  \/ profile \/ ~profile' \/ \E k \in Launcher : launch'[k].at = "initializing"
<1>1. CASE UNCHANGED vars
  BY <1>1, TypedParts DEF vars, histVars
<1>2. CASE StartSteps
  <2>1. CASE StartCalled
    BY <2>1, TypedParts, StartCalledDoes DEF elsewhere, Begun
  <2>2. CASE HookDone
    BY <2>2, TypedParts, HookDoneDoes DEF elsewhere, Registered, histVars
  <2>3. CASE ReapEnds
    BY <2>3, TypedParts, ReapEndsDoes DEF elsewhere, histVars
  <2>. QED BY <2>1, <2>2, <2>3, <1>2 DEF StartSteps
<1>3. ASSUME NEW l \in Launcher, LaunchSteps(l)
      PROVE  \/ profile \/ ~profile' \/ \E k \in Launcher : launch'[k].at = "initializing"
  <2>1. CASE FenceOpens(l)
    <3>1. CASE l = Start
      BY <2>1, <3>1, TypedParts, FenceOpensDoes DEF elsewhere, histVars
    <3>2. CASE l # Start
      BY <2>1, <3>2, TypedParts, FenceOpensDoes DEF Registered, elsewhere, histVars
    <3>. QED BY <3>1, <3>2
  <2>2. CASE FenceRefuses(l)
    BY <2>2, TypedParts, FenceRefusesDoes DEF elsewhere
  <2>3. CASE WriteSettles(l)
    BY <2>3, TypedParts, WriteSettlesDoes DEF elsewhere, histVars
  <2>4. CASE WriteFails(l)
    BY <2>4, TypedParts, WriteFailsDoes DEF elsewhere
  <2>5. CASE InitResolves(l)
    BY <2>5, TypedParts, InitResolvesDoes DEF elsewhere, histVars
  <2>6. CASE InitRejects(l)
    BY <2>6, TypedParts, InitRejectsDoes DEF elsewhere
  <2>7. CASE InitTimesOut(l)
    BY <2>7, TypedParts, InitTimesOutDoes DEF elsewhere, histVars
  <2>8. CASE LateKillEnds(l)
    BY <2>8, TypedParts, LateKillEndsDoes DEF elsewhere
  <2>9. CASE RowRead(l)
    BY <2>9, TypedParts, RowReadDoes DEF elsewhere
  <2>10. CASE RetireEnds(l) \/ RetireTimesOut(l)
    BY <2>10, TypedParts, RetireEndsDoes DEF elsewhere, histVars
  <2>11. CASE Repurged(l)
    BY <2>11, TypedParts, RepurgedDoes DEF elsewhere, histVars
  <2>12. CASE OldEngineGone(l)
    BY <2>12, TypedParts, OldEngineGoneDoes DEF elsewhere, histVars
  <2>13. CASE DestroyTimesOut(l)
    BY <2>13, TypedParts, DestroyTimesOutDoes DEF elsewhere, histVars
  <2>. QED BY <2>1, <2>2, <2>3, <2>4, <2>5, <2>6, <2>7, <2>8, <2>9, <2>10, <2>11, <2>12, <2>13, <1>3 DEF LaunchSteps
<1>4. ASSUME NEW l \in Attempt, TimerFires(l)
      PROVE  \/ profile \/ ~profile' \/ \E k \in Launcher : launch'[k].at = "initializing"
  BY <1>4, TypedParts, TimerFiresDoes DEF elsewhere, Begun, Registered
<1>5. ASSUME NEW q \in Request, NEW kind \in Kinds, CallMade(q, kind)
      PROVE  \/ profile \/ ~profile' \/ \E k \in Launcher : launch'[k].at = "initializing"
  <2>1. CASE kind \in {"stop", "delete"} /\ Called(q, kind)
    BY <1>5, <2>1, TypedParts, CalledDoes DEF CallMade
  <2>2. CASE kind \in {"logout", "kill"} /\ EngineCalled(q, kind)
    BY <1>5, <2>2, TypedParts, EngineCalledDoes DEF CallMade
  <2>. QED BY <2>1, <2>2, <1>5 DEF CallMade
<1>6. ASSUME NEW q \in Request, RequestSteps(q)
      PROVE  \/ profile \/ ~profile' \/ \E k \in Launcher : launch'[k].at = "initializing"
  <2>1. CASE StopCaptures(q)
    BY <2>1, TypedParts, StopCapturesDoes DEF histVars
  <2>2. CASE WaitEnds(q)
    BY <2>2, TypedParts, WaitEndsDoes DEF histVars
  <2>3. CASE StopCloses(q) \/ LogoutReturns(q) \/ KillEnds(q)
    BY <2>3, TypedParts, ClosesDoes DEF histVars
  <2>4. CASE LogoutOverruns(q)
    BY <2>4, TypedParts, LogoutOverrunsDoes DEF histVars
  <2>5. CASE StopEscalates(q)
    BY <2>5, TypedParts, StopEscalatesDoes DEF histVars
  <2>6. CASE DeleteEnters(q)
    BY <2>6, TypedParts, DeleteEntersDoes DEF DeleteStarts, histVars
  <2>7. CASE DeleteFenceOpens(q)
    BY <2>7, TypedParts, DeleteFenceOpensDoes DEF DeleteStarts, histVars
  <2>8. CASE DeleteRefused(q)
    BY <2>8, TypedParts, DeleteRefusedDoes
  <2>9. CASE RowDeleted(q)
    BY <2>9, TypedParts, RowDeletedDoes DEF histVars
  <2>10. CASE NotFound(q) \/ DeleteFails(q) \/ Purged(q)
    BY <2>10, TypedParts, UnmarksDoes DEF histVars
  <2>. QED BY <2>1, <2>2, <2>3, <2>4, <2>5, <2>6, <2>7, <2>8, <2>9, <2>10, <1>6 DEF RequestSteps
<1>7. ASSUME NEW e \in Engine, EngineSteps(e)
      PROVE  \/ profile \/ ~profile' \/ \E k \in Launcher : launch'[k].at = "initializing"
  <2>1. CASE KillLands(e) \/ LeakEnds(e)
    BY <2>1, TypedParts, KillLandsDoes DEF others, histVars
  <2>2. CASE RemovalSettles(e)
    BY <2>2, TypedParts DEF RemovalSettles, others, histVars
  <2>3. CASE EngineReady(e) \/ EngineWedges(e)
    BY <2>3, TypedParts, EngineRunsDoes DEF others, histVars
  <2>4. CASE EngineDrops(e) \/ EngineUnlinked(e) \/ EngineFails(e) \/ StuckAuth(e) \/ WipeLands(e)
    BY <2>4, TypedParts, EngineEndsDoes DEF others, histVars
  <2>5. CASE ProbeFails(e) \/ ProbePasses
    BY <2>5, TypedParts, ProbesDoes DEF others, histVars
  <2>6. CASE DropHandled(e)
    BY <2>6, TypedParts, DropHandledDoes
  <2>7. CASE DropUnread(e)
    BY <2>7, TypedParts, DropUnreadDoes DEF others, histVars
  <2>. QED BY <2>1, <2>2, <2>3, <2>4, <2>5, <2>6, <2>7, <1>7 DEF EngineSteps
<1>. QED BY <1>1, <1>2, <1>3, <1>4, <1>5, <1>6, <1>7, NextCases


\* A launch that finds no row purges.
LEMMA LaunchPurges ==
    ASSUME Typed, NEW k \in Launcher, [Next]_vars
    PROVE  \/ ~Purges(k) \/ Purges(k)' \/ ~profile' \/ row \/ escaped'
<1>1. CASE UNCHANGED vars
  BY <1>1, TypedParts DEF vars, histVars, Purges
<1>2. CASE StartSteps
  <2>1. CASE StartCalled
    BY <2>1, TypedParts, StartCalledDoes DEF elsewhere, Begun, Purges
  <2>2. CASE HookDone
    BY <2>2, TypedParts, HookDoneDoes DEF elsewhere, Registered, histVars, Purges
  <2>3. CASE ReapEnds
    BY <2>3, TypedParts, ReapEndsDoes DEF elsewhere, histVars, Purges
  <2>. QED BY <2>1, <2>2, <2>3, <1>2 DEF StartSteps
<1>3. ASSUME NEW l \in Launcher, LaunchSteps(l)
      PROVE  \/ ~Purges(k) \/ Purges(k)' \/ ~profile' \/ row \/ escaped'
  <2>1. CASE FenceOpens(l)
    <3>1. CASE l = Start
      BY <2>1, <3>1, TypedParts, FenceOpensDoes DEF elsewhere, histVars, Purges
    <3>2. CASE l # Start
      BY <2>1, <3>2, TypedParts, FenceOpensDoes DEF Registered, elsewhere, histVars, Purges
    <3>. QED BY <3>1, <3>2
  <2>2. CASE FenceRefuses(l)
    BY <2>2, TypedParts, FenceRefusesDoes DEF elsewhere, Purges
  <2>3. CASE WriteSettles(l)
    BY <2>3, TypedParts, WriteSettlesDoes DEF elsewhere, histVars, Purges
  <2>4. CASE WriteFails(l)
    BY <2>4, TypedParts, WriteFailsDoes DEF elsewhere, Purges
  <2>5. CASE InitResolves(l)
    BY <2>5, TypedParts, InitResolvesDoes DEF elsewhere, histVars, Purges
  <2>6. CASE InitRejects(l)
    BY <2>6, TypedParts, InitRejectsDoes DEF elsewhere, Purges
  <2>7. CASE InitTimesOut(l)
    BY <2>7, TypedParts, InitTimesOutDoes DEF elsewhere, histVars, Purges
  <2>8. CASE LateKillEnds(l)
    BY <2>8, TypedParts, LateKillEndsDoes DEF elsewhere, Purges
  <2>9. CASE RowRead(l)
    BY <2>9, TypedParts, RowReadDoes DEF elsewhere, Purges
  <2>10. CASE RetireEnds(l) \/ RetireTimesOut(l)
    BY <2>10, TypedParts, RetireEndsDoes DEF elsewhere, histVars, Purges
  <2>11. CASE Repurged(l)
    BY <2>11, TypedParts, RepurgedDoes DEF elsewhere, histVars, Purges
  <2>12. CASE OldEngineGone(l)
    BY <2>12, TypedParts, OldEngineGoneDoes DEF elsewhere, histVars, Purges
  <2>13. CASE DestroyTimesOut(l)
    BY <2>13, TypedParts, DestroyTimesOutDoes DEF elsewhere, histVars, Purges
  <2>. QED BY <2>1, <2>2, <2>3, <2>4, <2>5, <2>6, <2>7, <2>8, <2>9, <2>10, <2>11, <2>12, <2>13, <1>3 DEF LaunchSteps
<1>4. ASSUME NEW l \in Attempt, TimerFires(l)
      PROVE  \/ ~Purges(k) \/ Purges(k)' \/ ~profile' \/ row \/ escaped'
  BY <1>4, TypedParts, TimerFiresDoes DEF elsewhere, Begun, Registered, Purges
<1>5. ASSUME NEW q \in Request, NEW kind \in Kinds, CallMade(q, kind)
      PROVE  \/ ~Purges(k) \/ Purges(k)' \/ ~profile' \/ row \/ escaped'
  <2>1. CASE kind \in {"stop", "delete"} /\ Called(q, kind)
    BY <1>5, <2>1, TypedParts, CalledDoes DEF CallMade, Purges
  <2>2. CASE kind \in {"logout", "kill"} /\ EngineCalled(q, kind)
    BY <1>5, <2>2, TypedParts, EngineCalledDoes DEF CallMade, Purges
  <2>. QED BY <2>1, <2>2, <1>5 DEF CallMade
<1>6. ASSUME NEW q \in Request, RequestSteps(q)
      PROVE  \/ ~Purges(k) \/ Purges(k)' \/ ~profile' \/ row \/ escaped'
  <2>1. CASE StopCaptures(q)
    BY <2>1, TypedParts, StopCapturesDoes DEF histVars, Purges
  <2>2. CASE WaitEnds(q)
    BY <2>2, TypedParts, WaitEndsDoes DEF histVars, Purges
  <2>3. CASE StopCloses(q) \/ LogoutReturns(q) \/ KillEnds(q)
    BY <2>3, TypedParts, ClosesDoes DEF histVars, Purges
  <2>4. CASE LogoutOverruns(q)
    BY <2>4, TypedParts, LogoutOverrunsDoes DEF histVars, Purges
  <2>5. CASE StopEscalates(q)
    BY <2>5, TypedParts, StopEscalatesDoes DEF histVars, Purges
  <2>6. CASE DeleteEnters(q)
    BY <2>6, TypedParts, DeleteEntersDoes DEF DeleteStarts, histVars, Purges
  <2>7. CASE DeleteFenceOpens(q)
    BY <2>7, TypedParts, DeleteFenceOpensDoes DEF DeleteStarts, histVars, Purges
  <2>8. CASE DeleteRefused(q)
    BY <2>8, TypedParts, DeleteRefusedDoes DEF Purges
  <2>9. CASE RowDeleted(q)
    BY <2>9, TypedParts, RowDeletedDoes DEF histVars, Purges
  <2>10. CASE NotFound(q) \/ DeleteFails(q) \/ Purged(q)
    BY <2>10, TypedParts, UnmarksDoes DEF histVars, Purges
  <2>. QED BY <2>1, <2>2, <2>3, <2>4, <2>5, <2>6, <2>7, <2>8, <2>9, <2>10, <1>6 DEF RequestSteps
<1>7. ASSUME NEW e \in Engine, EngineSteps(e)
      PROVE  \/ ~Purges(k) \/ Purges(k)' \/ ~profile' \/ row \/ escaped'
  <2>1. CASE KillLands(e) \/ LeakEnds(e)
    BY <2>1, TypedParts, KillLandsDoes DEF others, histVars, Purges
  <2>2. CASE RemovalSettles(e)
    BY <2>2, TypedParts DEF RemovalSettles, others, histVars, Purges
  <2>3. CASE EngineReady(e) \/ EngineWedges(e)
    BY <2>3, TypedParts, EngineRunsDoes DEF others, histVars, Purges
  <2>4. CASE EngineDrops(e) \/ EngineUnlinked(e) \/ EngineFails(e) \/ StuckAuth(e) \/ WipeLands(e)
    BY <2>4, TypedParts, EngineEndsDoes DEF others, histVars, Purges
  <2>5. CASE ProbeFails(e) \/ ProbePasses
    BY <2>5, TypedParts, ProbesDoes DEF others, histVars, Purges
  <2>6. CASE DropHandled(e)
    BY <2>6, TypedParts, DropHandledDoes DEF Purges
  <2>7. CASE DropUnread(e)
    BY <2>7, TypedParts, DropUnreadDoes DEF others, histVars, Purges
  <2>. QED BY <2>1, <2>2, <2>3, <2>4, <2>5, <2>6, <2>7, <1>7 DEF EngineSteps
<1>. QED BY <1>1, <1>2, <1>3, <1>4, <1>5, <1>6, <1>7, NextCases


\* A launch ends with an engine only where it saw the row.
LEMMA LaunchEnds ==
    ASSUME Typed, NEW k \in Launcher, [Next]_vars
    PROVE  \/ ~InFlight(k) \/ InFlight(k)' \/ mem'.registry = NoEngine
           \/ mem'.registry = mem.registry /\ launch[k].at \in {"fenced", "reaping", "repurging"}
           \/ /\ row' = row /\ mem' = mem /\ request' = request
              /\ row /\ escaped' = (escaped \/ DeleteUnderWay)
<1>1. CASE UNCHANGED vars
  BY <1>1, TypedParts DEF vars, histVars, InFlight
<1>2. CASE StartSteps
  <2>1. CASE StartCalled
    BY <2>1, TypedParts, StartCalledDoes DEF elsewhere, Begun, InFlight
  <2>2. CASE HookDone
    BY <2>2, TypedParts, HookDoneDoes DEF elsewhere, Registered, histVars, InFlight
  <2>3. CASE ReapEnds
    BY <2>3, TypedParts, ReapEndsDoes DEF elsewhere, histVars, InFlight
  <2>. QED BY <2>1, <2>2, <2>3, <1>2 DEF StartSteps
<1>3. ASSUME NEW l \in Launcher, LaunchSteps(l)
      PROVE  \/ ~InFlight(k) \/ InFlight(k)' \/ mem'.registry = NoEngine
             \/ mem'.registry = mem.registry /\ launch[k].at \in {"fenced", "reaping", "repurging"}
             \/ /\ row' = row /\ mem' = mem /\ request' = request
                /\ row /\ escaped' = (escaped \/ DeleteUnderWay)
  <2>1. CASE FenceOpens(l)
    <3>1. CASE l = Start
      BY <2>1, <3>1, TypedParts, FenceOpensDoes DEF elsewhere, histVars, InFlight
    <3>2. CASE l # Start
      BY <2>1, <3>2, TypedParts, FenceOpensDoes DEF Registered, elsewhere, histVars, InFlight
    <3>. QED BY <3>1, <3>2
  <2>2. CASE FenceRefuses(l)
    BY <2>2, TypedParts, FenceRefusesDoes DEF elsewhere, InFlight
  <2>3. CASE WriteSettles(l)
    BY <2>3, TypedParts, WriteSettlesDoes DEF elsewhere, histVars, InFlight
  <2>4. CASE WriteFails(l)
    BY <2>4, TypedParts, WriteFailsDoes DEF elsewhere, InFlight
  <2>5. CASE InitResolves(l)
    BY <2>5, TypedParts, InitResolvesDoes DEF elsewhere, histVars, InFlight
  <2>6. CASE InitRejects(l)
    BY <2>6, TypedParts, InitRejectsDoes DEF elsewhere, InFlight
  <2>7. CASE InitTimesOut(l)
    BY <2>7, TypedParts, InitTimesOutDoes DEF elsewhere, histVars, InFlight
  <2>8. CASE LateKillEnds(l)
    BY <2>8, TypedParts, LateKillEndsDoes DEF elsewhere, InFlight
  <2>9. CASE RowRead(l)
    BY <2>9, TypedParts, RowReadDoes DEF elsewhere, InFlight
  <2>10. CASE RetireEnds(l) \/ RetireTimesOut(l)
    BY <2>10, TypedParts, RetireEndsDoes DEF elsewhere, histVars, InFlight
  <2>11. CASE Repurged(l)
    BY <2>11, TypedParts, RepurgedDoes DEF elsewhere, histVars, InFlight
  <2>12. CASE OldEngineGone(l)
    BY <2>12, TypedParts, OldEngineGoneDoes DEF elsewhere, histVars, InFlight
  <2>13. CASE DestroyTimesOut(l)
    BY <2>13, TypedParts, DestroyTimesOutDoes DEF elsewhere, histVars, InFlight
  <2>. QED BY <2>1, <2>2, <2>3, <2>4, <2>5, <2>6, <2>7, <2>8, <2>9, <2>10, <2>11, <2>12, <2>13, <1>3 DEF LaunchSteps
<1>4. ASSUME NEW l \in Attempt, TimerFires(l)
      PROVE  \/ ~InFlight(k) \/ InFlight(k)' \/ mem'.registry = NoEngine
             \/ mem'.registry = mem.registry /\ launch[k].at \in {"fenced", "reaping", "repurging"}
             \/ /\ row' = row /\ mem' = mem /\ request' = request
                /\ row /\ escaped' = (escaped \/ DeleteUnderWay)
  BY <1>4, TypedParts, TimerFiresDoes DEF elsewhere, Begun, Registered, InFlight
<1>5. ASSUME NEW q \in Request, NEW kind \in Kinds, CallMade(q, kind)
      PROVE  \/ ~InFlight(k) \/ InFlight(k)' \/ mem'.registry = NoEngine
             \/ mem'.registry = mem.registry /\ launch[k].at \in {"fenced", "reaping", "repurging"}
             \/ /\ row' = row /\ mem' = mem /\ request' = request
                /\ row /\ escaped' = (escaped \/ DeleteUnderWay)
  <2>1. CASE kind \in {"stop", "delete"} /\ Called(q, kind)
    BY <1>5, <2>1, TypedParts, CalledDoes DEF CallMade, InFlight
  <2>2. CASE kind \in {"logout", "kill"} /\ EngineCalled(q, kind)
    BY <1>5, <2>2, TypedParts, EngineCalledDoes DEF CallMade, InFlight
  <2>. QED BY <2>1, <2>2, <1>5 DEF CallMade
<1>6. ASSUME NEW q \in Request, RequestSteps(q)
      PROVE  \/ ~InFlight(k) \/ InFlight(k)' \/ mem'.registry = NoEngine
             \/ mem'.registry = mem.registry /\ launch[k].at \in {"fenced", "reaping", "repurging"}
             \/ /\ row' = row /\ mem' = mem /\ request' = request
                /\ row /\ escaped' = (escaped \/ DeleteUnderWay)
  <2>1. CASE StopCaptures(q)
    BY <2>1, TypedParts, StopCapturesDoes DEF histVars, InFlight
  <2>2. CASE WaitEnds(q)
    BY <2>2, TypedParts, WaitEndsDoes DEF histVars, InFlight
  <2>3. CASE StopCloses(q) \/ LogoutReturns(q) \/ KillEnds(q)
    BY <2>3, TypedParts, ClosesDoes DEF histVars, InFlight
  <2>4. CASE LogoutOverruns(q)
    BY <2>4, TypedParts, LogoutOverrunsDoes DEF histVars, InFlight
  <2>5. CASE StopEscalates(q)
    BY <2>5, TypedParts, StopEscalatesDoes DEF histVars, InFlight
  <2>6. CASE DeleteEnters(q)
    BY <2>6, TypedParts, DeleteEntersDoes DEF DeleteStarts, histVars, InFlight
  <2>7. CASE DeleteFenceOpens(q)
    BY <2>7, TypedParts, DeleteFenceOpensDoes DEF DeleteStarts, histVars, InFlight
  <2>8. CASE DeleteRefused(q)
    BY <2>8, TypedParts, DeleteRefusedDoes DEF InFlight
  <2>9. CASE RowDeleted(q)
    BY <2>9, TypedParts, RowDeletedDoes DEF histVars, InFlight
  <2>10. CASE NotFound(q) \/ DeleteFails(q) \/ Purged(q)
    BY <2>10, TypedParts, UnmarksDoes DEF histVars, InFlight
  <2>. QED BY <2>1, <2>2, <2>3, <2>4, <2>5, <2>6, <2>7, <2>8, <2>9, <2>10, <1>6 DEF RequestSteps
<1>7. ASSUME NEW e \in Engine, EngineSteps(e)
      PROVE  \/ ~InFlight(k) \/ InFlight(k)' \/ mem'.registry = NoEngine
             \/ mem'.registry = mem.registry /\ launch[k].at \in {"fenced", "reaping", "repurging"}
             \/ /\ row' = row /\ mem' = mem /\ request' = request
                /\ row /\ escaped' = (escaped \/ DeleteUnderWay)
  <2>1. CASE KillLands(e) \/ LeakEnds(e)
    BY <2>1, TypedParts, KillLandsDoes DEF others, histVars, InFlight
  <2>2. CASE RemovalSettles(e)
    BY <2>2, TypedParts DEF RemovalSettles, others, histVars, InFlight
  <2>3. CASE EngineReady(e) \/ EngineWedges(e)
    BY <2>3, TypedParts, EngineRunsDoes DEF others, histVars, InFlight
  <2>4. CASE EngineDrops(e) \/ EngineUnlinked(e) \/ EngineFails(e) \/ StuckAuth(e) \/ WipeLands(e)
    BY <2>4, TypedParts, EngineEndsDoes DEF others, histVars, InFlight
  <2>5. CASE ProbeFails(e) \/ ProbePasses
    BY <2>5, TypedParts, ProbesDoes DEF others, histVars, InFlight
  <2>6. CASE DropHandled(e)
    BY <2>6, TypedParts, DropHandledDoes DEF InFlight
  <2>7. CASE DropUnread(e)
    BY <2>7, TypedParts, DropUnreadDoes DEF others, histVars, InFlight
  <2>. QED BY <2>1, <2>2, <2>3, <2>4, <2>5, <2>6, <2>7, <1>7 DEF EngineSteps
<1>. QED BY <1>1, <1>2, <1>3, <1>4, <1>5, <1>6, <1>7, NextCases


\* A delete() purges the credentials.
LEMMA PurgeEnds ==
    ASSUME Typed, [Next]_vars, NEW r \in Request
    PROVE  \/ request[r].at # "purging" \/ request'[r].at = "purging" \/ ~profile'
<1>1. CASE UNCHANGED vars
  BY <1>1 DEF vars, histVars
<1>5. ASSUME NEW q \in Request, NEW kind \in Kinds, CallMade(q, kind)
      PROVE  \/ request[r].at # "purging" \/ request'[r].at = "purging" \/ ~profile'
  <2>1. CASE kind \in {"stop", "delete"} /\ Called(q, kind)
    <3>1. CASE r # q
      <4>1. request'[r] = request[r]
        BY <3>1, <1>5, <2>1, CalledDoes
      <4>. QED BY <4>1
    <3>2. CASE r = q
      BY <3>2, <1>5, <2>1, CalledDoes, TypedParts, ReconConstants DEF CallMade
    <3>. QED BY <3>1, <3>2
  <2>2. CASE kind \in {"logout", "kill"} /\ EngineCalled(q, kind)
    <3>1. CASE r # q
      <4>1. request'[r] = request[r]
        BY <3>1, <1>5, <2>2, EngineCalledDoes
      <4>. QED BY <4>1
    <3>2. CASE r = q
      BY <3>2, <1>5, <2>2, EngineCalledDoes, TypedParts, ReconConstants DEF CallMade
    <3>. QED BY <3>1, <3>2
  <2>. QED BY <2>1, <2>2, <1>5 DEF CallMade
<1>6. ASSUME NEW q \in Request, RequestSteps(q)
      PROVE  \/ request[r].at # "purging" \/ request'[r].at = "purging" \/ ~profile'
  <2>1. CASE StopCaptures(q)
    <3>1. CASE r # q
      <4>1. request'[r] = request[r]
        BY <3>1, <2>1, StopCapturesDoes
      <4>. QED BY <4>1
    <3>2. CASE r = q
      BY <3>2, <2>1, StopCapturesDoes, TypedParts, ReconConstants
    <3>. QED BY <3>1, <3>2
  <2>2. CASE WaitEnds(q)
    <3>1. CASE r # q
      <4>1. request'[r] = request[r]
        BY <3>1, <2>2, WaitEndsDoes
      <4>. QED BY <4>1
    <3>2. CASE r = q
      BY <3>2, <2>2, WaitEndsDoes, TypedParts, ReconConstants
    <3>. QED BY <3>1, <3>2
  <2>3. CASE StopCloses(q) \/ LogoutReturns(q) \/ KillEnds(q)
    <3>1. CASE r # q
      <4>1. request'[r] = request[r]
        BY <3>1, <2>3, ClosesDoes
      <4>. QED BY <4>1
    <3>2. CASE r = q
      BY <3>2, <2>3, ClosesDoes, TypedParts, ReconConstants
    <3>. QED BY <3>1, <3>2
  <2>4. CASE LogoutOverruns(q)
    <3>1. CASE r # q
      <4>1. request'[r] = request[r]
        BY <3>1, <2>4, LogoutOverrunsDoes
      <4>. QED BY <4>1
    <3>2. CASE r = q
      BY <3>2, <2>4, LogoutOverrunsDoes, TypedParts, ReconConstants
    <3>. QED BY <3>1, <3>2
  <2>5. CASE StopEscalates(q)
    <3>1. CASE r # q
      <4>1. request'[r] = request[r]
        BY <3>1, <2>5, StopEscalatesDoes
      <4>. QED BY <4>1
    <3>2. CASE r = q
      BY <3>2, <2>5, StopEscalatesDoes, TypedParts, ReconConstants
    <3>. QED BY <3>1, <3>2
  <2>6. CASE DeleteEnters(q)
    <3>1. CASE r # q
      <4>1. request'[r] = request[r]
        BY <3>1, <2>6, DeleteEntersDoes DEF DeleteStarts
      <4>. QED BY <4>1
    <3>2. CASE r = q
      BY <3>2, <2>6, DeleteEntersDoes, TypedParts, ReconConstants DEF DeleteStarts
    <3>. QED BY <3>1, <3>2
  <2>7. CASE DeleteFenceOpens(q)
    <3>1. CASE r # q
      <4>1. request'[r] = request[r]
        BY <3>1, <2>7, DeleteFenceOpensDoes DEF DeleteStarts
      <4>. QED BY <4>1
    <3>2. CASE r = q
      BY <3>2, <2>7, DeleteFenceOpensDoes, TypedParts, ReconConstants DEF DeleteStarts
    <3>. QED BY <3>1, <3>2
  <2>8. CASE DeleteRefused(q)
    <3>1. CASE r # q
      <4>1. request'[r] = request[r]
        BY <3>1, <2>8, DeleteRefusedDoes
      <4>. QED BY <4>1
    <3>2. CASE r = q
      BY <3>2, <2>8, DeleteRefusedDoes, TypedParts, ReconConstants
    <3>. QED BY <3>1, <3>2
  <2>9. CASE RowDeleted(q)
    <3>1. CASE r # q
      <4>1. request'[r] = request[r]
        BY <3>1, <2>9, RowDeletedDoes
      <4>. QED BY <4>1
    <3>2. CASE r = q
      BY <3>2, <2>9, RowDeletedDoes, TypedParts, ReconConstants
    <3>. QED BY <3>1, <3>2
  <2>10. CASE NotFound(q) \/ DeleteFails(q) \/ Purged(q)
    <3>1. CASE r # q
      <4>1. request'[r] = request[r]
        BY <3>1, <2>10, UnmarksDoes
      <4>. QED BY <4>1
    <3>2. CASE r = q
      BY <3>2, <2>10, UnmarksDoes, TypedParts, ReconConstants
    <3>. QED BY <3>1, <3>2
  <2>. QED BY <2>1, <2>2, <2>3, <2>4, <2>5, <2>6, <2>7, <2>8, <2>9, <2>10, <1>6 DEF RequestSteps
<1>7. CASE StartSteps \/ (\E l \in Launcher : LaunchSteps(l)) \/ (\E l \in Attempt : TimerFires(l)) \/ (\E e \in Engine : EngineSteps(e))
  <2>1. request' = request
    BY <1>7, StartStepsLeave, LaunchStepsLeave, EngineStepsLeave DEF elsewhere, TimerFires
  <2>. QED BY <2>1
<1>. QED BY <1>1, <1>5, <1>6, <1>7, NextCases

\* The purge comes after the transaction.
LEMMA PurgeBegins ==
    ASSUME Typed, [Next]_vars, NEW r \in Request
    PROVE  \/ request'[r].at # "purging" \/ request[r].at = "purging" \/ ~row'
<1>1. CASE UNCHANGED vars
  BY <1>1 DEF vars, histVars
<1>5. ASSUME NEW q \in Request, NEW kind \in Kinds, CallMade(q, kind)
      PROVE  \/ request'[r].at # "purging" \/ request[r].at = "purging" \/ ~row'
  <2>1. CASE kind \in {"stop", "delete"} /\ Called(q, kind)
    <3>1. CASE r # q
      <4>1. request'[r] = request[r]
        BY <3>1, <1>5, <2>1, CalledDoes
      <4>. QED BY <4>1
    <3>2. CASE r = q
      BY <3>2, <1>5, <2>1, CalledDoes, TypedParts, ReconConstants DEF CallMade
    <3>. QED BY <3>1, <3>2
  <2>2. CASE kind \in {"logout", "kill"} /\ EngineCalled(q, kind)
    <3>1. CASE r # q
      <4>1. request'[r] = request[r]
        BY <3>1, <1>5, <2>2, EngineCalledDoes
      <4>. QED BY <4>1
    <3>2. CASE r = q
      BY <3>2, <1>5, <2>2, EngineCalledDoes, TypedParts, ReconConstants DEF CallMade
    <3>. QED BY <3>1, <3>2
  <2>. QED BY <2>1, <2>2, <1>5 DEF CallMade
<1>6. ASSUME NEW q \in Request, RequestSteps(q)
      PROVE  \/ request'[r].at # "purging" \/ request[r].at = "purging" \/ ~row'
  <2>1. CASE StopCaptures(q)
    <3>1. CASE r # q
      <4>1. request'[r] = request[r]
        BY <3>1, <2>1, StopCapturesDoes
      <4>. QED BY <4>1
    <3>2. CASE r = q
      BY <3>2, <2>1, StopCapturesDoes, TypedParts, ReconConstants
    <3>. QED BY <3>1, <3>2
  <2>2. CASE WaitEnds(q)
    <3>1. CASE r # q
      <4>1. request'[r] = request[r]
        BY <3>1, <2>2, WaitEndsDoes
      <4>. QED BY <4>1
    <3>2. CASE r = q
      BY <3>2, <2>2, WaitEndsDoes, TypedParts, ReconConstants
    <3>. QED BY <3>1, <3>2
  <2>3. CASE StopCloses(q) \/ LogoutReturns(q) \/ KillEnds(q)
    <3>1. CASE r # q
      <4>1. request'[r] = request[r]
        BY <3>1, <2>3, ClosesDoes
      <4>. QED BY <4>1
    <3>2. CASE r = q
      BY <3>2, <2>3, ClosesDoes, TypedParts, ReconConstants
    <3>. QED BY <3>1, <3>2
  <2>4. CASE LogoutOverruns(q)
    <3>1. CASE r # q
      <4>1. request'[r] = request[r]
        BY <3>1, <2>4, LogoutOverrunsDoes
      <4>. QED BY <4>1
    <3>2. CASE r = q
      BY <3>2, <2>4, LogoutOverrunsDoes, TypedParts, ReconConstants
    <3>. QED BY <3>1, <3>2
  <2>5. CASE StopEscalates(q)
    <3>1. CASE r # q
      <4>1. request'[r] = request[r]
        BY <3>1, <2>5, StopEscalatesDoes
      <4>. QED BY <4>1
    <3>2. CASE r = q
      BY <3>2, <2>5, StopEscalatesDoes, TypedParts, ReconConstants
    <3>. QED BY <3>1, <3>2
  <2>6. CASE DeleteEnters(q)
    <3>1. CASE r # q
      <4>1. request'[r] = request[r]
        BY <3>1, <2>6, DeleteEntersDoes DEF DeleteStarts
      <4>. QED BY <4>1
    <3>2. CASE r = q
      BY <3>2, <2>6, DeleteEntersDoes, TypedParts, ReconConstants DEF DeleteStarts
    <3>. QED BY <3>1, <3>2
  <2>7. CASE DeleteFenceOpens(q)
    <3>1. CASE r # q
      <4>1. request'[r] = request[r]
        BY <3>1, <2>7, DeleteFenceOpensDoes DEF DeleteStarts
      <4>. QED BY <4>1
    <3>2. CASE r = q
      BY <3>2, <2>7, DeleteFenceOpensDoes, TypedParts, ReconConstants DEF DeleteStarts
    <3>. QED BY <3>1, <3>2
  <2>8. CASE DeleteRefused(q)
    <3>1. CASE r # q
      <4>1. request'[r] = request[r]
        BY <3>1, <2>8, DeleteRefusedDoes
      <4>. QED BY <4>1
    <3>2. CASE r = q
      BY <3>2, <2>8, DeleteRefusedDoes, TypedParts, ReconConstants
    <3>. QED BY <3>1, <3>2
  <2>9. CASE RowDeleted(q)
    <3>1. CASE r # q
      <4>1. request'[r] = request[r]
        BY <3>1, <2>9, RowDeletedDoes
      <4>. QED BY <4>1
    <3>2. CASE r = q
      BY <3>2, <2>9, RowDeletedDoes, TypedParts, ReconConstants
    <3>. QED BY <3>1, <3>2
  <2>10. CASE NotFound(q) \/ DeleteFails(q) \/ Purged(q)
    <3>1. CASE r # q
      <4>1. request'[r] = request[r]
        BY <3>1, <2>10, UnmarksDoes
      <4>. QED BY <4>1
    <3>2. CASE r = q
      BY <3>2, <2>10, UnmarksDoes, TypedParts, ReconConstants
    <3>. QED BY <3>1, <3>2
  <2>. QED BY <2>1, <2>2, <2>3, <2>4, <2>5, <2>6, <2>7, <2>8, <2>9, <2>10, <1>6 DEF RequestSteps
<1>7. CASE StartSteps \/ (\E l \in Launcher : LaunchSteps(l)) \/ (\E l \in Attempt : TimerFires(l)) \/ (\E e \in Engine : EngineSteps(e))
  <2>1. request' = request
    BY <1>7, StartStepsLeave, LaunchStepsLeave, EngineStepsLeave DEF elsewhere, TimerFires
  <2>. QED BY <2>1
<1>. QED BY <1>1, <1>5, <1>6, <1>7, NextCases

\* A call stays what it is.
LEMMA KindStays ==
    ASSUME Typed, [Next]_vars, NEW r \in Request
    PROVE  \/ ~Captured(r) \/ request'[r].at = "idle" \/ request'[r].kind = request[r].kind
<1>1. CASE UNCHANGED vars
  BY <1>1 DEF vars, histVars, Captured
<1>5. ASSUME NEW q \in Request, NEW kind \in Kinds, CallMade(q, kind)
      PROVE  \/ ~Captured(r) \/ request'[r].at = "idle" \/ request'[r].kind = request[r].kind
  <2>1. CASE kind \in {"stop", "delete"} /\ Called(q, kind)
    <3>1. CASE r # q
      <4>1. request'[r] = request[r]
        BY <3>1, <1>5, <2>1, CalledDoes
      <4>. QED BY <4>1 DEF Captured
    <3>2. CASE r = q
      BY <3>2, <1>5, <2>1, CalledDoes, TypedParts, ReconConstants DEF CallMade, Captured
    <3>. QED BY <3>1, <3>2
  <2>2. CASE kind \in {"logout", "kill"} /\ EngineCalled(q, kind)
    <3>1. CASE r # q
      <4>1. request'[r] = request[r]
        BY <3>1, <1>5, <2>2, EngineCalledDoes
      <4>. QED BY <4>1 DEF Captured
    <3>2. CASE r = q
      BY <3>2, <1>5, <2>2, EngineCalledDoes, TypedParts, ReconConstants DEF CallMade, Captured
    <3>. QED BY <3>1, <3>2
  <2>. QED BY <2>1, <2>2, <1>5 DEF CallMade
<1>6. ASSUME NEW q \in Request, RequestSteps(q)
      PROVE  \/ ~Captured(r) \/ request'[r].at = "idle" \/ request'[r].kind = request[r].kind
  <2>1. CASE StopCaptures(q)
    <3>1. CASE r # q
      <4>1. request'[r] = request[r]
        BY <3>1, <2>1, StopCapturesDoes
      <4>. QED BY <4>1 DEF Captured
    <3>2. CASE r = q
      BY <3>2, <2>1, StopCapturesDoes, TypedParts, ReconConstants DEF Captured
    <3>. QED BY <3>1, <3>2
  <2>2. CASE WaitEnds(q)
    <3>1. CASE r # q
      <4>1. request'[r] = request[r]
        BY <3>1, <2>2, WaitEndsDoes
      <4>. QED BY <4>1 DEF Captured
    <3>2. CASE r = q
      BY <3>2, <2>2, WaitEndsDoes, TypedParts, ReconConstants DEF Captured
    <3>. QED BY <3>1, <3>2
  <2>3. CASE StopCloses(q) \/ LogoutReturns(q) \/ KillEnds(q)
    <3>1. CASE r # q
      <4>1. request'[r] = request[r]
        BY <3>1, <2>3, ClosesDoes
      <4>. QED BY <4>1 DEF Captured
    <3>2. CASE r = q
      BY <3>2, <2>3, ClosesDoes, TypedParts, ReconConstants DEF Captured
    <3>. QED BY <3>1, <3>2
  <2>4. CASE LogoutOverruns(q)
    <3>1. CASE r # q
      <4>1. request'[r] = request[r]
        BY <3>1, <2>4, LogoutOverrunsDoes
      <4>. QED BY <4>1 DEF Captured
    <3>2. CASE r = q
      BY <3>2, <2>4, LogoutOverrunsDoes, TypedParts, ReconConstants DEF Captured
    <3>. QED BY <3>1, <3>2
  <2>5. CASE StopEscalates(q)
    <3>1. CASE r # q
      <4>1. request'[r] = request[r]
        BY <3>1, <2>5, StopEscalatesDoes
      <4>. QED BY <4>1 DEF Captured
    <3>2. CASE r = q
      BY <3>2, <2>5, StopEscalatesDoes, TypedParts, ReconConstants DEF Captured
    <3>. QED BY <3>1, <3>2
  <2>6. CASE DeleteEnters(q)
    <3>1. CASE r # q
      <4>1. request'[r] = request[r]
        BY <3>1, <2>6, DeleteEntersDoes DEF DeleteStarts
      <4>. QED BY <4>1 DEF Captured
    <3>2. CASE r = q
      BY <3>2, <2>6, DeleteEntersDoes, TypedParts, ReconConstants DEF DeleteStarts, Captured
    <3>. QED BY <3>1, <3>2
  <2>7. CASE DeleteFenceOpens(q)
    <3>1. CASE r # q
      <4>1. request'[r] = request[r]
        BY <3>1, <2>7, DeleteFenceOpensDoes DEF DeleteStarts
      <4>. QED BY <4>1 DEF Captured
    <3>2. CASE r = q
      BY <3>2, <2>7, DeleteFenceOpensDoes, TypedParts, ReconConstants DEF DeleteStarts, Captured
    <3>. QED BY <3>1, <3>2
  <2>8. CASE DeleteRefused(q)
    <3>1. CASE r # q
      <4>1. request'[r] = request[r]
        BY <3>1, <2>8, DeleteRefusedDoes
      <4>. QED BY <4>1 DEF Captured
    <3>2. CASE r = q
      BY <3>2, <2>8, DeleteRefusedDoes, TypedParts, ReconConstants DEF Captured
    <3>. QED BY <3>1, <3>2
  <2>9. CASE RowDeleted(q)
    <3>1. CASE r # q
      <4>1. request'[r] = request[r]
        BY <3>1, <2>9, RowDeletedDoes
      <4>. QED BY <4>1 DEF Captured
    <3>2. CASE r = q
      BY <3>2, <2>9, RowDeletedDoes, TypedParts, ReconConstants DEF Captured
    <3>. QED BY <3>1, <3>2
  <2>10. CASE NotFound(q) \/ DeleteFails(q) \/ Purged(q)
    <3>1. CASE r # q
      <4>1. request'[r] = request[r]
        BY <3>1, <2>10, UnmarksDoes
      <4>. QED BY <4>1 DEF Captured
    <3>2. CASE r = q
      BY <3>2, <2>10, UnmarksDoes, TypedParts, ReconConstants DEF Captured
    <3>. QED BY <3>1, <3>2
  <2>. QED BY <2>1, <2>2, <2>3, <2>4, <2>5, <2>6, <2>7, <2>8, <2>9, <2>10, <1>6 DEF RequestSteps
<1>7. CASE StartSteps \/ (\E l \in Launcher : LaunchSteps(l)) \/ (\E l \in Attempt : TimerFires(l)) \/ (\E e \in Engine : EngineSteps(e))
  <2>1. request' = request
    BY <1>7, StartStepsLeave, LaunchStepsLeave, EngineStepsLeave DEF elsewhere, TimerFires
  <2>. QED BY <2>1 DEF Captured
<1>. QED BY <1>1, <1>5, <1>6, <1>7, NextCases

\* Credentials without a row are still to be purged.
Purging ==
    profile /\ ~row => (\E q \in Request : request[q].at = "purging") \/ \E l \in Launcher : Purges(l)

\* A purge comes after the transaction.
RowIsGone == \A q \in Request : request[q].at = "purging" => ~row

\* An engine without a row, or beside a delete() that has looked for one, is
\* registered by a launch that is still to look at the row.
Watched ==
    \/ Launching
    \/ mem.registry = NoEngine
    \/ /\ row
       /\ \A q \in Request : ~Late(q)
       /\ \A q \in Request : Captured(q) /\ request[q].kind = "delete" => mem.registry = request[q].eng

\* Every step keeps Purging.
LEMMA PurgingStep ==
    ASSUME Typed, Purging, [Next]_vars, ~escaped'
    PROVE  Purging'
<1> SUFFICES ASSUME profile', ~row'
             PROVE  (\E q \in Request : request'[q].at = "purging") \/ \E l \in Launcher : Purges(l)'
  BY DEF Purging
<1>1. CASE row
  BY <1>1, RowGoes
<1>2. CASE ~profile
  BY <1>2, ProfileRises DEF Purges
<1>3. CASE profile /\ ~row
  BY <1>3, PurgeEnds, LaunchPurges DEF Purging
<1>. QED BY <1>1, <1>2, <1>3, TypedParts

\* Every step keeps RowIsGone.
LEMMA RowIsGoneStep ==
    ASSUME Typed, RowIsGone, [Next]_vars
    PROVE  RowIsGone'
<1> SUFFICES ASSUME NEW q \in Request, request'[q].at = "purging", row'
             PROVE  FALSE
  BY DEF RowIsGone
<1>. QED BY PurgeBegins, RowGoes DEF RowIsGone

\* Every step keeps Watched.
LEMMA WatchedStep ==
    ASSUME Typed, Typed', \A l \in Launcher : Placed(l), RowIsGone, Watched, [Next]_vars, ~escaped'
    PROVE  Watched'
<1> SUFFICES ASSUME ~Launching', mem'.registry # NoEngine
             PROVE  /\ row'
                    /\ \A q \in Request : ~Late(q)'
                    /\ \A q \in Request : Captured(q)' /\ request'[q].kind = "delete" => mem'.registry = request'[q].eng
  BY DEF Watched
<1>1. mem'.registry = mem.registry
  BY RegistryMoves DEF Registers, Launching, InFlight
<1>2. CASE Launching
  <2>1. PICK k \in Launcher : InFlight(k)
    BY <1>2 DEF Launching
  <2>2. launch[k].at \notin {"fenced", "reaping", "repurging"}
    BY <1>1, <2>1 DEF Placed
  <2>3. /\ row' = row /\ mem' = mem /\ request' = request
        /\ row /\ ~DeleteUnderWay
    BY <2>1, <2>2, LaunchEnds DEF Launching
  <2>4. \A q \in Request : RequestFits(q)
    BY TypedShapes DEF RequestShape
  <2>5. \A q \in Request : ~Late(q)
    BY <2>3, <2>4 DEF RequestFits, DeleteUnderWay, Late, RowIsGone
  <2>6. \A q \in Request : Captured(q) => request[q].kind # "delete"
    BY <2>3, <2>4 DEF RequestFits, DeleteUnderWay, Captured
  <2>. QED BY <2>3, <2>5, <2>6 DEF Late, Captured
<1>3. CASE ~Launching
  <2>1. /\ row
        /\ \A q \in Request : ~Late(q)
        /\ \A q \in Request : Captured(q) /\ request[q].kind = "delete" => mem.registry = request[q].eng
    BY <1>1, <1>3 DEF Watched
  <2>2. ASSUME NEW q \in Request, Late(q)'
        PROVE  FALSE
    <3>1. Captured(q) /\ mem'.registry = IF mem.registry = request[q].eng THEN NoEngine ELSE mem.registry
      BY <2>1, <2>2, LateBegins DEF Late
    <3>2. request'[q].at # "idle" /\ request'[q].kind = "delete"
      BY <2>2 DEF Late, Typed, RequestShape, RequestFits
    <3>3. request[q].kind = "delete"
      BY <3>1, <3>2, KindStays
    <3>. QED BY <1>1, <2>1, <3>1, <3>3
  <2>3. ASSUME NEW q \in Request, Captured(q)', request'[q].kind = "delete"
        PROVE  mem'.registry = request'[q].eng
    <3>1. CASE Captured(q) /\ request'[q].eng = request[q].eng
      <4>1. request[q].kind = "delete"
        BY <2>3, <3>1, KindStays DEF Captured
      <4>. QED BY <1>1, <2>1, <3>1, <4>1
    <3>. QED BY <2>3, <3>1, CapturedBegins
  <2>4. row'
    <3>1. \A q \in Request : request'[q].at # "purging"
      BY <2>2 DEF Late
    <3>. QED BY <2>1, <3>1, RowGoes
  <2>. QED BY <2>2, <2>3, <2>4
<1>. QED BY <1>2, <1>3

\* The invariant behind DeletedLeavesNothing.
Cleared ==
    /\ Reached /\ RowIsGone
    /\ ~escaped => Purging
    /\ ~escaped /\ ~overlapped => Watched

\* It holds at the start.
LEMMA ClearedInit == Init => Cleared
<1> SUFFICES ASSUME Init PROVE Cleared
  OBVIOUS
<1>1. /\ row /\ ~profile /\ mem.registry = NoEngine
      /\ \A q \in Request : request[q].at = "idle"
  BY DEF Init, IdleRequest
<1>. QED BY <1>1, ReachedInit DEF Cleared, RowIsGone, Purging, Watched

\* Every step keeps it.
LEMMA ClearedStep ==
    ASSUME Cleared, [Next]_vars
    PROVE  Cleared'
<1>1. Reached' /\ Typed /\ Typed'
  BY ReachedStep DEF Cleared, Reached
<1>2. RowIsGone'
  BY <1>1, RowIsGoneStep DEF Cleared
<1>3. ASSUME ~escaped'
      PROVE  ~escaped /\ Purging'
  BY <1>1, <1>3, EscapeStays, PurgingStep DEF Cleared
<1>4. ASSUME ~escaped', ~overlapped'
      PROVE  Watched'
  <2>1. ~overlapped /\ \A l \in Launcher : Placed(l)
    BY <1>1, <1>4, OverlapStays DEF Cleared, Reached
  <2>2. RowIsGone /\ Watched
    BY <1>3, <1>4, <2>1 DEF Cleared
  <2>. QED BY <1>1, <1>4, <2>1, <2>2, WatchedStep
<1>. QED BY <1>1, <1>2, <1>3, <1>4 DEF Cleared

\* A deleted session leaves no credentials and no engine that still runs,
\* unless a launch saw the row before it went (purgeAuthDirsIfDeleted()).
THEOREM LifecycleDeleted == Spec => []DeletedLeavesNothing
<1>1. Cleared => DeletedLeavesNothing
  <2> SUFFICES ASSUME Cleared, Quiet, ~row, ~escaped, ~overlapped
               PROVE  ~profile /\ \A e \in Engine : mem.eng[e] \notin Running \ {"leaked"}
    BY DEF DeletedLeavesNothing
  <2>1. /\ mem.dying = {} /\ Typed /\ NoOrphan /\ Purging /\ Watched
        /\ \A l \in Launcher : launch[l].at = "idle"
        /\ \A q \in Request : request[q].at = "idle"
    BY DEF Cleared, Reached, Quiet, Answered, InFlight
  <2>2. ~profile
    BY <2>1 DEF Purging, Purges
  <2>3. mem.registry = NoEngine
    BY <2>1 DEF Watched, Launching, InFlight
  <2>4. /\ \A l \in Launcher : launch[l].victim = NoEngine
        /\ \A q \in Request : request[q].eng = NoEngine
    BY <2>1, TypedShapes DEF LaunchShape, LaunchFits, TearsDown, RequestShape, RequestFits
  <2>5. ASSUME NEW e \in Engine, mem.eng[e] \in Running \ {"leaked"}
        PROVE  FALSE
    <3>1. Accounted(e)
      BY <2>1, <2>5 DEF NoOrphan
    <3>. QED BY <2>1, <2>3, <2>4, <2>5, <3>1, TypedParts DEF Accounted
  <2>. QED BY <2>2, <2>5
<1>. QED BY <1>1, ClearedInit, ClearedStep, PTL DEF Spec

-----------------------------------------------------------------------------
(* What decideReconnect() decides, of every state of a streak.             *)

\* What resolveReconnectConfig() leaves of a base delay.
LEMMA BaseInRange ==
  ASSUME NEW s \in AttemptState
  PROVE  /\ s.baseDelay \in Nat
         /\ s.baseDelay <= RECONNECT_STABILITY_RESET_MS
         /\ s.baseDelay <= RECONNECT_DELAY_CAP_MS
<1>1. s.baseDelay \in BaseDelay
  BY DEF AttemptState
<1> QED
  BY <1>1
   DEF BaseDelay, RECONNECT_BASE_DELAY_MIN_MS, RECONNECT_BASE_DELAY_MAX_MS,
       RECONNECT_STABILITY_RESET_MS, RECONNECT_DELAY_CAP_MS

\* decideReconnect() leaves a state of the same kind.
LEMMA AdvancedType ==
  ASSUME NEW s \in AttemptState, NEW now \in Nat
  PROVE  Advanced(s, now) \in AttemptState
<1>1. s.attempts \in Nat /\ s.limited \in BOOLEAN /\ s.maxAttempts \in Nat
      /\ s.baseDelay \in BaseDelay
      /\ s.scheduled \in BOOLEAN /\ s.lastAttemptAt \in Nat
  BY DEF AttemptState
<1>2. Attempts(s, now) \in Nat
  BY <1>1 DEF Attempts
<1>3. (s.scheduled \/ ~Exhausts(s, now)) \in BOOLEAN
  OBVIOUS
<1> QED
  BY <1>1, <1>2, <1>3 DEF AttemptState, Advanced

\* A delay is never shorter than the session's base delay, nor longer than
\* what the cap allows, however many attempts came before: the fallback of an
\* exponential that is no number any more does not fire at once either.
\* (clampReconnectDelay: "finite and within setTimeout's safe range".)
THEOREM DelayIsSafe ==
  ASSUME NEW s \in AttemptState, NEW now \in Nat, NEW jitter \in Nat,
         \A n \in Nat : 2 ^ n \in Nat \ {0}
  PROVE  DelayOf(s, now, jitter) \in s.baseDelay .. RECONNECT_DELAY_CAP_MS
<1> DEFINE p == 2 ^ Attempts(s, now)
           raw == s.baseDelay * p + jitter
<1>1. s.baseDelay \in Nat /\ s.baseDelay <= RECONNECT_DELAY_CAP_MS
  BY BaseInRange
<1>2. p \in Nat \ {0}
  BY DEF AttemptState, Attempts
<1> HIDE DEF p
<1>3. raw \in Nat /\ raw >= s.baseDelay
  BY <1>1, <1>2
<1> HIDE DEF raw
<1>4. RECONNECT_DELAY_CAP_MS \in Nat
  BY DEF RECONNECT_DELAY_CAP_MS
<1>5. clampReconnectDelay(raw, s.baseDelay) \in s.baseDelay .. RECONNECT_DELAY_CAP_MS
  BY <1>1, <1>3, <1>4 DEF clampReconnectDelay, clampNumber
<1> QED
  BY <1>5 DEF DelayOf, Exponential, p, raw

\* An exponential that the window bounds: within twice the window.
Short(s, now) == Exponential(s, now) <= 2 * RECONNECT_STABILITY_RESET_MS

\* The backoff of a session that comes back to decideReconnect() only after the
\* delay it was given never reaches the cap, and is never Infinity: once a
\* delay is as long as the stability window, the next decision starts from the
\* base again.  ("With the default unlimited budget the delay parks at
\* RECONNECT_DELAY_CAP_MS once the exponent outgrows it.")
THEOREM BackoffStaysShort ==
  ASSUME NEW s \in AttemptState, NEW now \in Nat, NEW later \in Nat,
         NEW jitter \in Nat, jitter < 1000,
         \A n \in Nat : 2 ^ n \in Nat \ {0} /\ 2 ^ (n + 1) = 2 * 2 ^ n,
         2 ^ 0 = 1, MaxNumber \in Nat, MaxNumber >= RECONNECT_DELAY_CAP_MS,
         ~Exhausts(s, now)
  PROVE  /\ Attempts(s, now) = 0 => Short(s, now)
         /\ Short(s, now) /\ later >= now + DelayOf(s, now, jitter) =>
              /\ DelayOf(s, now, jitter) = Exponential(s, now) + jitter
              /\ DelayOf(s, now, jitter) < RECONNECT_DELAY_CAP_MS
              /\ Short(Advanced(s, now), later)
<1> DEFINE t == Advanced(s, now)
           p == 2 ^ Attempts(s, now)
<1>1. /\ s.baseDelay \in Nat /\ s.baseDelay <= RECONNECT_STABILITY_RESET_MS
      /\ Attempts(s, now) \in Nat
  BY BaseInRange DEF AttemptState, Attempts
<1>2. p \in Nat /\ 2 ^ (Attempts(s, now) + 1) = 2 * p
  BY <1>1
<1>3. Exponential(s, now) = s.baseDelay * p
  BY DEF Exponential
<1>4. ASSUME Attempts(s, now) = 0 PROVE Short(s, now)
  <2>1. s.baseDelay * 1 <= 2 * RECONNECT_STABILITY_RESET_MS
    BY <1>1 DEF RECONNECT_STABILITY_RESET_MS
  <2>2. p = 1
    BY <1>4
  <2> QED BY <1>3, <2>1, <2>2 DEF Short
<1>5. ASSUME Short(s, now), later >= now + DelayOf(s, now, jitter)
      PROVE  /\ DelayOf(s, now, jitter) = Exponential(s, now) + jitter
             /\ DelayOf(s, now, jitter) < RECONNECT_DELAY_CAP_MS
             /\ Short(t, later)
  <2> DEFINE x == s.baseDelay * p
  <2>1. x \in Nat /\ x <= 600000
    BY <1>1, <1>2, <1>3, <1>5 DEF Short, RECONNECT_STABILITY_RESET_MS
  <2> HIDE DEF x
  <2>2. DelayOf(s, now, jitter) = x + jitter /\ x + jitter < RECONNECT_DELAY_CAP_MS
    <3>1. DelayOf(s, now, jitter) = clampReconnectDelay(x + jitter, s.baseDelay)
      BY <1>3 DEF DelayOf, x
    <3>2. x + jitter < RECONNECT_DELAY_CAP_MS
      BY <2>1 DEF RECONNECT_DELAY_CAP_MS
    <3>3. x + jitter <= MaxNumber
      BY <2>1, <3>2 DEF RECONNECT_DELAY_CAP_MS
    <3>4. clampReconnectDelay(x + jitter, s.baseDelay) = x + jitter
      BY <2>1, <3>2, <3>3 DEF clampReconnectDelay, clampNumber, isFinite, RECONNECT_DELAY_CAP_MS
    <3> QED BY <3>1, <3>2, <3>4
  <2>3. /\ t.attempts = Attempts(s, now) + 1 /\ t.baseDelay = s.baseDelay
        /\ t.scheduled /\ t.lastAttemptAt = now
    BY DEF Advanced
  <2> HIDE DEF t
  <2>4. ASSUME IsStable(t, later) PROVE Short(t, later)
    <3>1. 2 ^ Attempts(t, later) = 1
      BY <2>4 DEF Attempts
    <3>2. s.baseDelay * 1 <= 2 * RECONNECT_STABILITY_RESET_MS
      BY <1>1 DEF RECONNECT_STABILITY_RESET_MS
    <3> QED BY <2>3, <3>1, <3>2 DEF Short, Exponential
  <2>5. ASSUME ~IsStable(t, later) PROVE Short(t, later)
    <3>1. x < RECONNECT_STABILITY_RESET_MS
      BY <1>5, <2>1, <2>2, <2>3, <2>5, SMT DEF IsStable, RECONNECT_STABILITY_RESET_MS
    <3>2. 2 ^ Attempts(t, later) = 2 * p
      BY <1>2, <2>3, <2>5 DEF Attempts
    <3> HIDE DEF p
    <3>3. s.baseDelay * (2 * p) = 2 * x
      BY <1>1, <1>2 DEF x
    <3>4. 2 * x <= 2 * RECONNECT_STABILITY_RESET_MS
      BY <2>1, <3>1 DEF RECONNECT_STABILITY_RESET_MS
    <3> QED BY <2>3, <3>2, <3>3, <3>4 DEF Short, Exponential
  <2> QED BY <1>3, <2>2, <2>4, <2>5 DEF x
<1> QED
  BY <1>4, <1>5

\* A streak never counts more attempts than the session allows: a decision
\* taken inside the budget stays inside it.
THEOREM BudgetIsKept ==
  ASSUME NEW s \in AttemptState, NEW now \in Nat,
         s.limited, s.attempts <= s.maxAttempts
  PROVE  Advanced(s, now).attempts <= s.maxAttempts
BY DEF AttemptState, Advanced, Exhausts, Attempts

\* An attempt that comes inside the window counts against the budget: nothing
\* but the window gives attempts back.
THEOREM BudgetIsSpent ==
  ASSUME NEW s \in AttemptState, NEW now \in Nat,
         ~IsStable(s, now), ~Exhausts(s, now)
  PROVE  Advanced(s, now).attempts = s.attempts + 1
BY DEF AttemptState, Advanced, Attempts

\* The window is measured from when the last attempt was scheduled, its own
\* delay included.  Once the delay is as long as the window, the attempt it
\* announces cannot run before the budget is whole again: a session that is
\* allowed any attempt at all is never given up on, however long it fails.
\* ("A reconnect-attempt budget covers one CONTINUOUS bad stretch.")
THEOREM LongDelayRestoresBudget ==
  ASSUME NEW s \in AttemptState, NEW now \in Nat, NEW delay \in Nat, NEW later \in Nat,
         ~Exhausts(s, now),
         delay >= RECONNECT_STABILITY_RESET_MS,
         later >= now + delay
  PROVE  /\ IsStable(Advanced(s, now), later)
         /\ ~Exhausts(Advanced(s, now), later)
         /\ Advanced(Advanced(s, now), later).attempts = 1
<1> DEFINE t == Advanced(s, now)
<1>1. t.scheduled /\ t.lastAttemptAt = now /\ t.limited = s.limited /\ t.maxAttempts = s.maxAttempts
  BY DEF Advanced
<1> HIDE DEF t
<1>2. IsStable(t, later)
  BY <1>1, SMT DEF IsStable, RECONNECT_STABILITY_RESET_MS
<1>3. Attempts(t, later) = 0
  BY <1>2 DEF Attempts
<1>4. Attempts(s, now) \in Nat /\ s.maxAttempts \in Nat
  BY DEF AttemptState, Attempts
<1>5. ~Exhausts(t, later)
  BY <1>1, <1>3, <1>4 DEF Exhausts
<1>6. Advanced(t, later).attempts = 1
  BY <1>3, <1>5 DEF Advanced
<1> QED
  BY <1>2, <1>5, <1>6 DEF t

\* scheduleReconnect() of SessionLifecycle decides as decideReconnect() does,
\* and the stability reset that is free there is the one of the clock: it gives
\* up exactly when the budget is exhausted, and otherwise arms the timer of the
\* same attempt.
THEOREM RescheduleDecides ==
  ASSUME NEW m \in Memory, m.recon.kept,
         NEW s \in AttemptState, NEW now \in Nat,
         s.attempts = m.recon.attempts, s.limited, s.maxAttempts = MaxAttempts
  PROVE  LET x == Reschedule(m, IsStable(s, now))
         IN  IF Exhausts(s, now)
             THEN x.recon = NoRecon /\ x.registry = NoEngine
             ELSE /\ x.recon.kept /\ x.recon.armed
                  /\ x.recon.attempts = Advanced(s, now).attempts
                  /\ x.registry = m.registry
<1>1. Spent(m, IsStable(s, now)) = Attempts(s, now)
  BY DEF Spent, Attempts
<1>2. Exhausts(s, now) <=> Spent(m, IsStable(s, now)) >= MaxAttempts
  BY <1>1 DEF Exhausts
<1>3. CASE Exhausts(s, now)
  <2>1. Reschedule(m, IsStable(s, now)) = CancelReconnect(EvictRegistered(Report(m, "FAILED")))
    BY <1>2, <1>3 DEF Reschedule
  <2>2. Report(m, "FAILED") \in Memory
    BY ReportDoes DEF Statuses
  <2>3. /\ EvictRegistered(Report(m, "FAILED")) \in Memory
        /\ EvictRegistered(Report(m, "FAILED")).registry = NoEngine
    BY <2>2, EvictRegisteredDoes
  <2>. QED BY <1>3, <2>1, <2>3, CancelDoes
<1>4. CASE ~Exhausts(s, now)
  <2>1. Reschedule(m, IsStable(s, now)) =
          [m EXCEPT !.recon.armed = TRUE, !.recon.attempts = Attempts(s, now) + 1]
    BY <1>1, <1>2, <1>4 DEF Reschedule
  <2>2. Advanced(s, now).attempts = Attempts(s, now) + 1
    BY <1>4 DEF Advanced
  <2> DEFINE n == Attempts(s, now) + 1
             c == [m.recon EXCEPT !.armed = TRUE, !.attempts = n]
  <2>3. m.recon \in Recon
    BY MemoryFields
  <2>4. c.kept = m.recon.kept /\ c.armed = TRUE /\ c.attempts = n
    BY <2>3 DEF Recon
  <2>5. [m EXCEPT !.recon.armed = TRUE, !.recon.attempts = n] = [m EXCEPT !.recon = c]
    BY <2>3 DEF Memory, Recon
  <2> HIDE DEF c
  <2>6. LET x == [m EXCEPT !.recon = c]
        IN  x.recon = c /\ x.registry = m.registry
    BY DEF Memory
  <2>. QED BY <1>4, <2>1, <2>2, <2>4, <2>5, <2>6
<1>. QED BY <1>3, <1>4
=============================================================================
