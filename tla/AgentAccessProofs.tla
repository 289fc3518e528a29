-------------------------- MODULE AgentAccessProofs --------------------------
(***************************************************************************)
(* What holds of reads, mutations and removals in every instance of the    *)
(* runtime: WorkInv of AgentRuntimeInv is inductive relative to LockInv,   *)
(* and the action properties follow from the two.                          *)
(***************************************************************************)
EXTENDS AgentLockProofs

USE DEF gates, permits, lifecycle, request, history, Frame, Quiet

\* Registration sees an earlier cancel frame; releasing the lock hides no abort.
LEMMA WorkDispatch ==
    ASSUME TypeOK, LockInv, WorkInv, NEW r \in Requests, Dispatch(r)
    PROVE  WorkInv'
<1> USE ThreadAssumption
    DEF TypeOK, Return, Goto, Pend, Handlers, Registered, ShouldAbort, PreSecret, Respects,
        CoreIsGuarded, CancelIsSeen, RemovalHoldsCommitGate, AbortHasACause, WorkInv
<1>0. DropGuards(r) => /\ Respects(commitGate, commitGate', r)
                       /\ Respects(vault, vault', r)
  BY DEF DropGuards, Drop
<1>1. CASE Reject(r)
  BY <1>1 DEF Reject, Leave
<1>2. CASE Register(r)
  <2>1. CASE Leave(r, "done")
    BY <1>2, <2>1 DEF Register, Leave
  <2>2. CASE Goto(r, "execute") /\ flag' = [flag EXCEPT ![r] = conn[r] = "Cancelled"]
    <3>1. UNCHANGED <<conn, reqEpoch, expired, outcome>>
      BY <1>2, <2>2 DEF Register, Leave
    <3>2. /\ flag'[r] = (conn[r] = "Cancelled")
          /\ \A q \in Requests \ {r} : flag'[q] = flag[q]
      BY <2>2
    <3>3. conn[r] = "Cancelled" => flag'[r]
      BY <3>2
    <3>4. /\ pc[r] = "register" /\ pc' = [pc EXCEPT ![r] = "execute"]
          /\ UNCHANGED <<lifecycle, gates>>
      BY <1>2, <2>2 DEF Register
    <3>5. CancelIsSeen'
      BY <3>1, <3>2, <3>3, <3>4
    <3>6. CoreIsGuarded' /\ RemovalHoldsCommitGate' /\ AbortHasACause'
      BY <3>1, <3>2, <3>4
    <3> QED
      BY <3>5, <3>6
  <2> QED
    BY <1>2, <2>1, <2>2 DEF Register
<1>3. CASE Execute(r)
  BY <1>0, <1>3 DEF Execute, Entry, AllOps
<1>4. CASE Finish(r)
  BY <1>4 DEF Finish, Leave
<1>5. CASE ReleaseLock(r)
  BY <1>5 DEF ReleaseLock, LockInv, CoreWorkIsCurrent
<1> QED
  BY <1>1, <1>2, <1>3, <1>4, <1>5 DEF Dispatch

\* Reads and mutations keep the vault mutex for as long as they use the core.
LEMMA WorkAccess ==
    ASSUME TypeOK, LockInv, WorkInv, NEW r \in Requests, Access(r)
    PROVE  WorkInv'
<1> USE ThreadAssumption
    DEF TypeOK, Return, Goto, Pend, Handlers, Registered, ShouldAbort, PreSecret, Respects,
        CoreIsGuarded, CancelIsSeen, RemovalHoldsCommitGate, AbortHasACause, WorkInv
<1>0. DropGuards(r) => /\ Respects(commitGate, commitGate', r)
                       /\ Respects(vault, vault', r)
  BY DEF DropGuards, Drop
<1>1. CASE Pre(r)
  BY <1>0, <1>1 DEF Pre
<1>2. CASE Verify(r)
  BY <1>0, <1>2 DEF Verify
<1>3. CASE Mutate(r)
  BY <1>0, <1>3 DEF Mutate
<1>4. CASE TakeVault(r)
  BY <1>0, <1>4 DEF TakeVault
<1>5. CASE Core(r)
  BY <1>5 DEF Core, RequireOperation
<1>6. CASE CommitMutation(r)
  BY <1>0, <1>6 DEF CommitMutation, CommitAllowed
<1>7. CASE PostSecret(r)
  BY <1>0, <1>7 DEF PostSecret, PostOutcome, SetLocked, LostAuthority
<1>8. CASE FailAfterCore(r)
  BY <1>0, <1>8 DEF FailAfterCore, SetLocked, AdvanceEpoch, Registered
<1> QED
  BY <1>1, <1>2, <1>3, <1>4, <1>5, <1>6, <1>7, <1>8 DEF Access

\* Unlocks touch the session only with the vault mutex free or held.
LEMMA WorkUnlockSteps ==
    ASSUME TypeOK, LockInv, WorkInv, NEW r \in Requests, UnlockSteps(r)
    PROVE  WorkInv'
<1> USE ThreadAssumption
    DEF TypeOK, Return, Goto, Pend, Handlers, Registered, ShouldAbort, PreSecret, Respects,
        CoreIsGuarded, CancelIsSeen, RemovalHoldsCommitGate, AbortHasACause, WorkInv
<1>0. DropGuards(r) => /\ Respects(commitGate, commitGate', r)
                       /\ Respects(vault, vault', r)
  BY DEF DropGuards, Drop
<1>1. CASE Unlock(r)
  BY <1>0, <1>1 DEF Unlock
<1>2. CASE UnlockGate(r)
  BY <1>0, <1>2 DEF UnlockGate
<1>3. CASE Hello(r)
  BY <1>0, <1>3 DEF Hello
<1>4. CASE TakeHelloGate(r)
  BY <1>0, <1>4 DEF TakeHelloGate
<1>5. CASE HelloBegin(r)
  BY <1>0, <1>5 DEF HelloBegin
<1>6. CASE Ceremony(r)
  BY <1>6 DEF Ceremony
<1>7. CASE UnlockVault(r)
  BY <1>7 DEF UnlockVault
<1>8. CASE Kdf(r)
  BY <1>8 DEF Kdf
<1>9. CASE AfterCore(r)
  BY <1>9 DEF AfterCore
<1>10. CASE Relock(r)
  BY <1>10 DEF Relock
<1>11. CASE UnlockFailed(r)
  BY <1>0, <1>11 DEF UnlockFailed, SetLocked
<1>12. CASE Cleanup(r)
  BY <1>12 DEF Cleanup, CleanupOutcome
<1>13. CASE CleanupVault(r)
  BY <1>13 DEF CleanupVault, CleanupOutcome
<1>14. CASE CleanupGate(r)
  BY <1>14 DEF CleanupGate, CleanupOutcome
<1>15. CASE Publish(r)
  BY <1>15 DEF Publish, AdvanceEpochOnly
<1>16. CASE PublishCas(r)
  BY <1>0, <1>16 DEF PublishCas, LockInv, CoreWorkIsCurrent, LiveEpochIsNew
<1>17. CASE PublishAbort(r)
  BY <1>0, <1>17 DEF PublishAbort, SetLocked
<1> QED
  BY <1>1, <1>2, <1>3, <1>4, <1>5, <1>6, <1>7, <1>8, <1>9, <1>10, <1>11, <1>12, <1>13,
     <1>14, <1>15, <1>16, <1>17 DEF UnlockSteps

\* Removal keeps the commit gate from its check to its end.
LEMMA WorkRemoveSteps ==
    ASSUME TypeOK, LockInv, WorkInv, NEW r \in Requests, RemoveSteps(r)
    PROVE  WorkInv'
<1> USE ThreadAssumption
    DEF TypeOK, Return, Goto, Pend, Handlers, Registered, ShouldAbort, PreSecret, Respects,
        CoreIsGuarded, CancelIsSeen, RemovalHoldsCommitGate, AbortHasACause, WorkInv
<1>0. DropGuards(r) => /\ Respects(commitGate, commitGate', r)
                       /\ Respects(vault, vault', r)
  BY DEF DropGuards, Drop
<1>1. CASE Remove(r)
  BY <1>0, <1>1 DEF Remove
<1>2. CASE RemoveCheck(r)
  BY <1>0, <1>2 DEF RemoveCheck
<1>3. CASE RemoveGate(r)
  BY <1>0, <1>3 DEF RemoveGate
<1>4. CASE RemoveVault(r)
  BY <1>0, <1>4 DEF RemoveVault
<1> QED
  BY <1>1, <1>2, <1>3, <1>4 DEF RemoveSteps

\* Creation installs a session only when the vault mutex is free.
LEMMA WorkCreateSteps ==
    ASSUME TypeOK, LockInv, WorkInv, NEW r \in Requests, CreateSteps(r)
    PROVE  WorkInv'
<1> USE ThreadAssumption
    DEF TypeOK, Return, Goto, Pend, Handlers, Registered, ShouldAbort, PreSecret, Respects,
        CoreIsGuarded, CancelIsSeen, RemovalHoldsCommitGate, AbortHasACause, WorkInv
<1>0. DropGuards(r) => /\ Respects(commitGate, commitGate', r)
                       /\ Respects(vault, vault', r)
  BY DEF DropGuards, Drop
<1>1. CASE Create(r)
  BY <1>0, <1>1 DEF Create
<1>2. CASE CreateGate(r)
  BY <1>0, <1>2 DEF CreateGate
<1>3. CASE CreateStageFails(r)
  BY <1>0, <1>3 DEF CreateStageFails, CreateFailure
<1>4. CASE CreatePublish(r)
  BY <1>0, <1>4 DEF CreatePublish, CreateFailure
<1>5. CASE CreateInstall(r)
  BY <1>0, <1>5 DEF CreateInstall, AdvanceEpochOnly, LockInv, CoreWorkIsCurrent, CreationHoldsItsGates
<1> QED
  BY <1>1, <1>2, <1>3, <1>4, <1>5 DEF CreateSteps

\* A lock waits for the vault mutex and the commit gate.
LEMMA WorkLockSteps ==
    ASSUME TypeOK, LockInv, WorkInv, NEW r \in Requests, LockSteps(r)
    PROVE  WorkInv'
<1> USE ThreadAssumption
    DEF TypeOK, Return, Goto, Pend, Handlers, Registered, ShouldAbort, PreSecret, Respects,
        CoreIsGuarded, CancelIsSeen, RemovalHoldsCommitGate, AbortHasACause, WorkInv
<1>0. DropGuards(r) => /\ Respects(commitGate, commitGate', r)
                       /\ Respects(vault, vault', r)
  BY DEF DropGuards, Drop
<1>1. CASE LockBegin(r)
  BY <1>0, <1>1 DEF LockBegin, LockTarget, AdvanceEpoch, Registered
<1>2. CASE LockCreation(r)
  BY <1>2 DEF LockCreation
<1>3. CASE LockHello(r)
  BY <1>3 DEF LockHello
<1>4. CASE LockVault(r)
  BY <1>4 DEF LockVault
<1>5. CASE LockRead(r)
  BY <1>0, <1>5 DEF LockRead
<1>6. CASE LockStore(r)
  BY <1>0, <1>6 DEF LockStore
<1> QED
  BY <1>1, <1>2, <1>3, <1>4, <1>5, <1>6 DEF LockSteps

\* shutdown takes the commit gate, then waits for the vault mutex.
LEMMA WorkShutdown ==
    ASSUME TypeOK, LockInv, WorkInv, Shutdown
    PROVE  WorkInv'
<1> USE ThreadAssumption
       DEF TypeOK, Threads, Handlers, Registered, ShouldAbort, PreSecret,
           CoreIsGuarded, CancelIsSeen, RemovalHoldsCommitGate, AbortHasACause, WorkInv,
              LockInv, LiveEpochIsNew
<1>1. CASE ShutdownBegin
  BY <1>1 DEF ShutdownBegin, AdvanceEpoch, Registered
<1>2. CASE ShutdownCreation
  BY <1>2 DEF ShutdownCreation
<1>3. CASE ShutdownHello
  BY <1>3 DEF ShutdownHello
<1>4. CASE ShutdownVault
  BY <1>4 DEF ShutdownVault
<1>5. CASE ShutdownStore
  BY <1>5 DEF ShutdownStore
<1> QED
  BY <1>1, <1>2, <1>3, <1>4, <1>5 DEF Shutdown

\* Every step keeps WorkInv.
LEMMA WorkNext ==
    ASSUME TypeOK, LockInv, WorkInv, [Next]_vars
    PROVE  WorkInv'
<1>1. CASE UNCHANGED vars
  BY <1>1 DEF vars, CoreIsGuarded, CancelIsSeen, RemovalHoldsCommitGate, AbortHasACause,
     WorkInv, Registered, ShouldAbort, PreSecret
<1>2. CASE \E r \in Requests : Begin(r) \/ Cancel(r) \/ Expire(r)
  <2> USE DEF TypeOK, CoreIsGuarded, CancelIsSeen, RemovalHoldsCommitGate, AbortHasACause,
     WorkInv, Registered, ShouldAbort, PreSecret, Handlers
  <2>1. PICK r \in Requests : Begin(r) \/ Cancel(r) \/ Expire(r)
    BY <1>2
  <2>2. CASE Begin(r)
    BY <2>2 DEF Begin, Goto
  <2>3. CASE Cancel(r)
    <3>1. /\ UNCHANGED <<lifecycle, gates, pc, reqEpoch, expired, outcome>>
          /\ conn'[r] = "Cancelled"
          /\ pc[r] \in Handlers => flag'[r]
          /\ \A q \in Requests : flag[q] => flag'[q]
          /\ \A q \in Requests \ {r} : conn'[q] = conn[q]
      BY <2>3 DEF Cancel
    <3>2. CoreIsGuarded' /\ CancelIsSeen' /\ RemovalHoldsCommitGate'
      BY <3>1
    <3>3. AbortHasACause'
      BY <3>1
    <3> QED
      BY <3>2, <3>3
  <2>4. CASE Expire(r)
    BY <2>4 DEF Expire
  <2> QED
    BY <2>1, <2>2, <2>3, <2>4
<1>3. CASE \E r \in Requests : Worker(r)
  BY <1>3, WorkDispatch, WorkAccess, WorkUnlockSteps, WorkRemoveSteps,
     WorkCreateSteps, WorkLockSteps DEF Worker
<1>4. CASE Shutdown
  BY <1>4, WorkShutdown
<1> QED
  BY <1>1, <1>2, <1>3, <1>4 DEF Next, Rest

\* No request is registered at first.
LEMMA WorkInit == Init => WorkInv
  BY DEF Init, CoreIsGuarded, CancelIsSeen, RemovalHoldsCommitGate, AbortHasACause, WorkInv,
     Registered, Handlers

\* WorkInv holds in every reachable state of every instance.
THEOREM WorkInvariant == Spec => []WorkInv
  BY TypeCorrect, LockInvariant, WorkInit, WorkNext, PTL DEF Spec

\* An abort in the core never becomes a connection-fatal internal error.
THEOREM AbortsAreExplained == Spec => []AbortIsExplained
<1>1. WorkInv => AbortIsExplained
  BY DEF WorkInv, AbortHasACause, AbortIsExplained
<1> QED
  BY <1>1, WorkInvariant, PTL

-----------------------------------------------------------------------------
(***************************************************************************)
(* Action properties.  Only three steps matter to them: CommitMutation     *)
(* makes a mutation durable, Finish writes a response, RemoveVault removes *)
(* the Windows Hello credential.                                           *)
(***************************************************************************)
\* A step leaves the durable mutations alone unless it is a CommitMutation.
LEMMA OnlyCommitWrites ==
    ASSUME [Next]_vars
    PROVE  durable' = durable \/ \E q \in Requests : CommitMutation(q)
<1>1. CASE UNCHANGED vars
  BY <1>1 DEF vars
<1>2. ASSUME NEW q \in Requests, Begin(q) \/ Cancel(q) \/ Expire(q)
      PROVE  durable' = durable
  BY <1>2 DEF Begin, Cancel, Expire
<1>3. ASSUME NEW q \in Requests, Dispatch(q)
      PROVE  durable' = durable
  BY <1>3 DEF Dispatch, Reject, Register, Execute, Finish, ReleaseLock
<1>4. ASSUME NEW q \in Requests, Access(q), ~CommitMutation(q)
      PROVE  durable' = durable
  BY <1>4 DEF Access, Pre, Verify, Mutate, TakeVault, Core, PostSecret, FailAfterCore
<1>5. ASSUME NEW q \in Requests, UnlockSteps(q)
      PROVE  durable' = durable
  <2>1. CASE Unlock(q) \/ UnlockGate(q) \/ Hello(q) \/ TakeHelloGate(q) \/ HelloBegin(q)
             \/ Ceremony(q) \/ UnlockVault(q) \/ Kdf(q)
    BY <2>1 DEF Unlock, UnlockGate, Hello, TakeHelloGate, HelloBegin, Ceremony, UnlockVault, Kdf
  <2>2. CASE AfterCore(q) \/ Relock(q) \/ UnlockFailed(q) \/ Cleanup(q) \/ CleanupVault(q)
             \/ CleanupGate(q) \/ Publish(q) \/ PublishCas(q) \/ PublishAbort(q)
    BY <2>2 DEF AfterCore, Relock, UnlockFailed, Cleanup, CleanupVault, CleanupGate, Publish,
       PublishCas, PublishAbort
  <2> QED
    BY <1>5, <2>1, <2>2 DEF UnlockSteps
<1>6. ASSUME NEW q \in Requests, RemoveSteps(q) \/ CreateSteps(q)
      PROVE  durable' = durable
  BY <1>6 DEF RemoveSteps, Remove, RemoveCheck, RemoveGate, RemoveVault,
     CreateSteps, Create, CreateGate, CreateStageFails, CreatePublish, CreateInstall
<1>7. ASSUME NEW q \in Requests, LockSteps(q)
      PROVE  durable' = durable
  BY <1>7 DEF LockSteps, LockBegin, LockCreation, LockHello, LockVault, LockRead, LockStore
<1>8. CASE Shutdown
  BY <1>8 DEF Shutdown, ShutdownBegin, ShutdownCreation, ShutdownHello, ShutdownVault,
     ShutdownStore
<1> QED
  BY <1>1, <1>2, <1>3, <1>4, <1>5, <1>6, <1>7, <1>8 DEF Next, Worker, Rest

\* The only step that makes a mutation of r durable is r's CommitMutation, with
\* before_commit's checks passed.
LEMMA OnlyCommitIsDurable ==
    ASSUME [Next]_vars, NEW r, r \in durable' \ durable
    PROVE  r \in Requests /\ pc[r] = "gate" /\ CommitAllowed(r)
  BY OnlyCommitWrites DEF CommitMutation

\* finish_dispatch lets the answer to an epoch-bound request out only in the live epoch.
LEMMA EpochBoundAnswerIsAuthorized ==
    ASSUME NEW r \in Requests, op[r] \in EpochBound, Response(r) \in {"ok", "notFound"}
    PROVE  state = "Unlocked" /\ epoch = reqEpoch[r]
  BY DEF EpochBound, Response, StillAuthorized

\* Once a lock has been acknowledged, no request of an epoch up to that moment makes
\* a mutation durable or has data or not_found written.
THEOREM SealedEpochsStayDead == Spec => SealedEpochsAreDead
<1> DEFINE Dead == \A r \in Requests :
          \/ r \in durable' \ durable
          \/ Answered(r, {"ok", "notFound"}) /\ op[r] \in EpochBound
          => reqEpoch[r] > sealed
<1>1. TypeOK /\ LockInv /\ [Next]_vars => Dead
  <2> SUFFICES ASSUME TypeOK, LockInv, [Next]_vars, NEW r \in Requests,
                      \/ r \in durable' \ durable
                      \/ Answered(r, {"ok", "notFound"}) /\ op[r] \in EpochBound
               PROVE  reqEpoch[r] > sealed
    OBVIOUS
  <2>1. CASE r \in durable' \ durable
    BY <2>1, OnlyCommitIsDurable DEF TypeOK, LockInv, CoreWorkIsCurrent, CommitAllowed
  <2>2. CASE Answered(r, {"ok", "notFound"}) /\ op[r] \in EpochBound
    <3>1. state = "Unlocked" /\ epoch = reqEpoch[r]
      BY <2>2, EpochBoundAnswerIsAuthorized DEF Answered
    <3> QED
      BY <3>1 DEF TypeOK, LockInv, LiveEpochIsNew
  <2> QED
    BY <2>1, <2>2
<1> QED
  BY <1>1, TypeCorrect, LockInvariant, PTL DEF Spec, SealedEpochsAreDead

\* A mutation becomes durable only while the core holds the authenticated session.
THEOREM CommitsHaveSession == Spec => CommitNeedsSession
<1>1. TypeOK /\ WorkInv /\ [Next]_vars => (durable' # durable => core = "unlocked")
  <2> SUFFICES ASSUME TypeOK, WorkInv, [Next]_vars, durable' # durable
               PROVE  core = "unlocked"
    OBVIOUS
  <2>1. \E r \in Requests : CommitMutation(r)
    BY OnlyCommitWrites
  <2> QED
    BY <2>1 DEF CommitMutation, WorkInv, CoreIsGuarded
<1> QED
  BY <1>1, TypeCorrect, WorkInvariant, PTL DEF Spec, CommitNeedsSession

\* A cancel frame or disconnect accepted before the commit keeps the mutation out.
THEOREM CancelWins == Spec => CancelBeatsCommit
<1>1. TypeOK /\ WorkInv /\ [Next]_vars => \A r \in durable' \ durable : conn[r] = "Active"
  <2> SUFFICES ASSUME TypeOK, WorkInv, [Next]_vars, NEW r \in durable' \ durable
               PROVE  conn[r] = "Active"
    OBVIOUS
  <2>1. r \in Requests /\ pc[r] = "gate" /\ ~flag[r]
    BY OnlyCommitIsDurable DEF CommitAllowed
  <2> QED
    BY <2>1 DEF TypeOK, WorkInv, CancelIsSeen, Registered, Handlers
<1> QED
  BY <1>1, TypeCorrect, WorkInvariant, PTL DEF Spec, CancelBeatsCommit

\* Windows Hello credentials are removed only in the epoch that asked for it.
THEOREM RemovalsAreAuthorized == Spec => RemovalIsAuthorized
<1> DEFINE Authorized == \A r \in Requests :
          pc[r] = "removeVault" /\ outcome'[r] = "committed" =>
              epoch = reqEpoch[r] /\ ~lockActive
<1>1. WorkInv => Authorized
  BY DEF WorkInv, RemovalHoldsCommitGate
<1> QED
  BY <1>1, WorkInvariant, PTL DEF Spec, RemovalIsAuthorized
=============================================================================
