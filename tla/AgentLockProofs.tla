--------------------------- MODULE AgentLockProofs ---------------------------
(***************************************************************************)
(* An acknowledged lock is a lock, in every instance of the runtime:       *)
(* LockInv of AgentRuntimeInv is inductive, family of handlers by family   *)
(* of handlers, and implies what the runs check.                           *)
(***************************************************************************)
EXTENDS AgentLockSteps, AgentRuntimeProofs

USE DEF gates, permits, lifecycle, request, history, Frame, Quiet

\* Admission and finish_dispatch: only the lock's own response releases lock_active,
\* and it seals an epoch in which nothing is unlocked.
LEMMA LockDispatch ==
    ASSUME TypeOK, LockInv, NEW r \in Requests, Dispatch(r)
    PROVE  LockInv'
<1> USE DEF Return, Goto, Pend
<1>1. DropGuards(r) => /\ Respects(commitGate, commitGate', r)
                       /\ Respects(creationGate, creationGate', r)
  BY DEF DropGuards, Drop, Respects
<1>2. CASE Reject(r) \/ Register(r) \/ Execute(r)
  <2> USE DEF TypeOK, LockInv, LockRunsLockVault, Harmless, Respects, Critical, InCore
  <2>1. Reject(r) => Harmless(r)
    BY <1>1 DEF Reject, Leave
  <2>2. Register(r) => Harmless(r)
    BY <1>1 DEF Register, Leave, Registered
  <2>3. Execute(r) => Harmless(r)
    BY <1>1 DEF Execute, Entry, AllOps
  <2> HIDE DEF TypeOK, LockInv, Harmless
  <2> QED
    BY <1>2, <2>1, <2>2, <2>3, HarmlessKeepsLockInv
<1>3. CASE Finish(r)
  BY <1>3, LockFinish
<1>4. CASE ReleaseLock(r)
  BY <1>4, LockReleaseLock
<1> QED
  BY <1>2, <1>3, <1>4 DEF Dispatch

\* Reads and mutations enter the core only when no lock is active.
LEMMA LockAccess ==
    ASSUME TypeOK, LockInv, NEW r \in Requests, Access(r)
    PROVE  LockInv'
<1> USE DEF Return, Goto, Pend
<1>1. DropGuards(r) => /\ Respects(commitGate, commitGate', r)
                       /\ Respects(creationGate, creationGate', r)
  BY DEF DropGuards, Drop, Respects
<1>2. CASE Pre(r) \/ Verify(r) \/ Mutate(r) \/ Core(r) \/ CommitMutation(r) \/ PostSecret(r)
  <2> USE DEF TypeOK, LockInv, LockRunsLockVault, Harmless, Respects, Critical, InCore
  <2>1. Pre(r) => Harmless(r)
    BY <1>1 DEF Pre, PreSecret, ShouldAbort
  <2>2. Verify(r) => Harmless(r)
    BY <1>1 DEF Verify, PreSecret, ShouldAbort
  <2>3. Mutate(r) => Harmless(r)
    BY <1>1 DEF Mutate, PreSecret, ShouldAbort
  <2>4. Core(r) => Harmless(r)
    BY <1>1 DEF Core
  <2>5. CommitMutation(r) => Harmless(r)
    BY <1>1 DEF CommitMutation
  <2>6. PostSecret(r) => Harmless(r)
    BY <1>1 DEF PostSecret, PostOutcome, SetLocked
  <2> HIDE DEF TypeOK, LockInv, Harmless
  <2> QED
    BY <1>2, <2>1, <2>2, <2>3, <2>4, <2>5, <2>6, HarmlessKeepsLockInv
<1>3. CASE TakeVault(r)
  <2> USE LockInvOfOne DEF TypeOK, OwnStep, LockPart, HoldsTransition, Respects, InCore
  <2>1. TakeVault(r) => OwnStep(r) /\ LockPart(r)'
    BY <1>1 DEF TakeVault, PreSecret, ShouldAbort
  <2> HIDE DEF TypeOK, OwnStep, LockPart
  <2> QED
    BY <1>3, <2>1, OwnStepKeepsLockInv
<1>4. CASE FailAfterCore(r)
  BY <1>4, LockFailAfterCore
<1> QED
  BY <1>2, <1>3, <1>4 DEF Access

\* An unlock publishes nothing while a lock holds its transition.
LEMMA LockUnlockSteps ==
    ASSUME TypeOK, LockInv, NEW r \in Requests, UnlockSteps(r)
    PROVE  LockInv'
<1> USE DEF Return, Goto, Pend
<1>1. DropGuards(r) => /\ Respects(commitGate, commitGate', r)
                       /\ Respects(creationGate, creationGate', r)
  BY DEF DropGuards, Drop, Respects
<1>2. CASE Unlock(r) \/ Hello(r) \/ AfterCore(r) \/ Relock(r) \/ UnlockFailed(r)
           \/ Cleanup(r) \/ CleanupVault(r) \/ CleanupGate(r) \/ PublishAbort(r)
  <2> USE DEF TypeOK, LockInv, LockRunsLockVault, Harmless, Respects, Critical, InCore
  <2>1. Unlock(r) => Harmless(r)
    BY <1>1 DEF Unlock
  <2>2. Hello(r) => Harmless(r)
    BY <1>1 DEF Hello
  <2>3. AfterCore(r) => Harmless(r)
    BY <1>1 DEF AfterCore
  <2>4. Relock(r) => Harmless(r)
    BY <1>1 DEF Relock
  <2>5. UnlockFailed(r) => Harmless(r)
    BY <1>1 DEF UnlockFailed, SetLocked
  <2>6. Cleanup(r) => Harmless(r)
    BY <1>1 DEF Cleanup, CleanupOutcome
  <2>7. CleanupVault(r) => Harmless(r)
    BY <1>1 DEF CleanupVault, CleanupOutcome
  <2>8. CleanupGate(r) => Harmless(r)
    BY <1>1 DEF CleanupGate, CleanupOutcome
  <2>9. PublishAbort(r) => Harmless(r)
    BY <1>1 DEF PublishAbort, SetLocked
  <2> HIDE DEF TypeOK, LockInv, Harmless
  <2> QED
    BY <1>2, <2>1, <2>2, <2>3, <2>4, <2>5, <2>6, <2>7, <2>8, <2>9, HarmlessKeepsLockInv
<1>3. CASE UnlockGate(r) \/ TakeHelloGate(r) \/ HelloBegin(r) \/ Ceremony(r)
           \/ UnlockVault(r) \/ Kdf(r)
  <2> USE LockInvOfOne DEF TypeOK, OwnStep, LockPart, HoldsTransition, Respects, InCore
  <2>1. UnlockGate(r) => OwnStep(r) /\ LockPart(r)'
    BY <1>1 DEF UnlockGate
  <2>2. TakeHelloGate(r) => OwnStep(r) /\ LockPart(r)'
    BY <1>1 DEF TakeHelloGate
  <2>3. HelloBegin(r) => OwnStep(r) /\ LockPart(r)'
    BY <1>1 DEF HelloBegin, UnlockCancelled
  <2>4. Ceremony(r) => OwnStep(r) /\ LockPart(r)'
    BY <1>1 DEF Ceremony, UnlockCancelled
  <2>5. UnlockVault(r) => OwnStep(r) /\ LockPart(r)'
    BY <1>1 DEF UnlockVault
  <2>6. Kdf(r) => OwnStep(r) /\ LockPart(r)'
    BY <1>1 DEF Kdf
  <2> HIDE DEF TypeOK, OwnStep, LockPart
  <2> QED
    BY <1>3, <2>1, <2>2, <2>3, <2>4, <2>5, <2>6, OwnStepKeepsLockInv
<1>4. CASE Publish(r)
  BY <1>4, LockPublish
<1>5. CASE PublishCas(r)
  BY <1>5, LockPublishCas
<1> QED
  BY <1>2, <1>3, <1>4, <1>5 DEF UnlockSteps

\* Removal touches none of the lock's state.
LEMMA LockRemoveSteps ==
    ASSUME TypeOK, LockInv, NEW r \in Requests, RemoveSteps(r)
    PROVE  LockInv'
<1> USE DEF Return, Goto, Pend
<1>1. DropGuards(r) => /\ Respects(commitGate, commitGate', r)
                       /\ Respects(creationGate, creationGate', r)
  BY DEF DropGuards, Drop, Respects
<1>2. CASE Remove(r) \/ RemoveCheck(r) \/ RemoveGate(r) \/ RemoveVault(r)
  <2> USE DEF TypeOK, LockInv, LockRunsLockVault, Harmless, Respects, Critical, InCore
  <2>1. Remove(r) => Harmless(r)
    BY <1>1 DEF Remove, PreSecret, ShouldAbort
  <2>2. RemoveCheck(r) => Harmless(r)
    BY <1>1 DEF RemoveCheck, PreSecret, ShouldAbort
  <2>3. RemoveGate(r) => Harmless(r)
    BY <1>1 DEF RemoveGate, PreSecret, ShouldAbort
  <2>4. RemoveVault(r) => Harmless(r)
    BY <1>1 DEF RemoveVault
  <2> HIDE DEF TypeOK, LockInv, Harmless
  <2> QED
    BY <1>2, <2>1, <2>2, <2>3, <2>4, HarmlessKeepsLockInv
<1> QED
  BY <1>2 DEF RemoveSteps

\* A creation installs its session only under both gates.
LEMMA LockCreateSteps ==
    ASSUME TypeOK, LockInv, NEW r \in Requests, CreateSteps(r)
    PROVE  LockInv'
<1> USE DEF Return, Goto, Pend
<1>1. DropGuards(r) => /\ Respects(commitGate, commitGate', r)
                       /\ Respects(creationGate, creationGate', r)
  BY DEF DropGuards, Drop, Respects
<1>2. CASE Create(r) \/ CreateStageFails(r)
  <2> USE DEF TypeOK, LockInv, LockRunsLockVault, Harmless, Respects, Critical, InCore
  <2>1. Create(r) => Harmless(r)
    BY <1>1 DEF Create
  <2>2. CreateStageFails(r) => Harmless(r)
    BY <1>1 DEF CreateStageFails, CreateFailure
  <2> HIDE DEF TypeOK, LockInv, Harmless
  <2> QED
    BY <1>2, <2>1, <2>2, HarmlessKeepsLockInv
<1>3. CASE CreateGate(r) \/ CreatePublish(r)
  <2> USE LockInvOfOne DEF TypeOK, OwnStep, LockPart, HoldsTransition, Respects, InCore
  <2>1. CreateGate(r) => OwnStep(r) /\ LockPart(r)'
    BY <1>1 DEF CreateGate
  <2>2. CreatePublish(r) => OwnStep(r) /\ LockPart(r)'
    BY <1>1 DEF CreatePublish, CreateFailure, CommitAllowed
  <2> HIDE DEF TypeOK, OwnStep, LockPart
  <2> QED
    BY <1>3, <2>1, <2>2, OwnStepKeepsLockInv
<1>4. CASE CreateInstall(r)
  BY <1>4, LockCreateInstall
<1> QED
  BY <1>2, <1>3, <1>4 DEF CreateSteps

\* lock_vault establishes and keeps its transition.
LEMMA LockLockSteps ==
    ASSUME TypeOK, LockInv, NEW r \in Requests, LockSteps(r)
    PROVE  LockInv'
<1> USE DEF Return, Goto, Pend
<1>1. DropGuards(r) => /\ Respects(commitGate, commitGate', r)
                       /\ Respects(creationGate, creationGate', r)
  BY DEF DropGuards, Drop, Respects
<1>2. CASE LockCreation(r) \/ LockHello(r) \/ LockVault(r) \/ LockRead(r) \/ LockStore(r)
  <2> USE LockInvOfOne DEF TypeOK, OwnStep, LockPart, HoldsTransition, Respects, InCore
  <2>1. LockCreation(r) => OwnStep(r) /\ LockPart(r)'
    BY <1>1 DEF LockCreation
  <2>2. LockHello(r) => OwnStep(r) /\ LockPart(r)'
    BY <1>1 DEF LockHello
  <2>3. LockVault(r) => OwnStep(r) /\ LockPart(r)'
    BY <1>1 DEF LockVault
  <2>4. LockRead(r) => OwnStep(r) /\ LockPart(r)'
    BY <1>1 DEF LockRead
  <2>5. LockStore(r) => OwnStep(r) /\ LockPart(r)'
    BY <1>1 DEF LockStore
  <2> HIDE DEF TypeOK, OwnStep, LockPart
  <2> QED
    BY <1>2, <2>1, <2>2, <2>3, <2>4, <2>5, OwnStepKeepsLockInv
<1>3. CASE LockBegin(r)
  BY <1>3, LockLockBegin
<1> QED
  BY <1>2, <1>3 DEF LockSteps

\* shutdown takes the commit gate before it sets lock_active, and the creation gate
\* before it stores its state.
LEMMA LockShutdown ==
    ASSUME TypeOK, LockInv, Shutdown
    PROVE  LockInv'
<1> USE ThreadAssumption DEF TypeOK, LockInv
<1>1. CASE ShutdownBegin
  <2>1. /\ commitGate = NoOne /\ shut = "run"
        /\ lockActive' = TRUE
        /\ state' = "ShuttingDown"
        /\ epoch' = epoch + 1
        /\ flag' = [q \in Requests |-> flag[q] \/ pc[q] \in Handlers]
        /\ shut' = "creation"
        /\ UNCHANGED <<outcome, gates, core, op, pc, reqEpoch, sealed>>
    BY <1>1 DEF ShutdownBegin, AdvanceEpoch, Registered
  <2>2. \A q \in Requests : pc[q] # "createInstall" /\ pc[q] # "publishCas"
    BY <2>1 DEF CreationHoldsItsGates, LiveEpochIsNew
  <2>3. \A q \in Requests : HoldsTransition(q)' => HoldsTransition(q)
    BY <2>1 DEF HoldsTransition
  <2>4. LockRunsLockVault' /\ CeremoniesAreHello' /\ TransitionIsExclusive'
    BY <2>1, <2>3 DEF LockRunsLockVault, CeremoniesAreHello, TransitionIsExclusive
  <2>5. UnlocksAreCancelled'
    BY <2>1 DEF UnlocksAreCancelled, Handlers
  <2>6. CreationHoldsItsGates' /\ DrainersHoldCreationGate'
    BY <2>1, <2>2 DEF CreationHoldsItsGates, DrainersHoldCreationGate
  <2>7. LiveEpochIsNew' /\ CoreWorkIsCurrent'
    BY <2>1, <2>2 DEF LiveEpochIsNew, CoreWorkIsCurrent
  <2>8. AcknowledgedLockIsClear' /\ ShutdownIsFinal'
    BY <2>1, <2>3 DEF AcknowledgedLockIsClear, ShutdownIsFinal
  <2> QED
    BY <2>4, <2>5, <2>6, <2>7, <2>8
<1>2. CASE ShutdownCreation \/ ShutdownHello \/ ShutdownVault \/ ShutdownStore
  <2>1. /\ UNCHANGED <<epoch, lockActive, commitGate, outcome, op, pc, reqEpoch, flag, sealed>>
        /\ core' = core \/ core' = "locked"
        /\ \/ state' = state /\ shut # "done" /\ shut' # "done"
           \/ state' = "ShuttingDown" /\ shut = "store" /\ shut' = "done"
    BY <1>2 DEF ShutdownCreation, ShutdownHello, ShutdownVault, ShutdownStore
  <2>2. \A q \in Requests : HoldsTransition(q)' <=> HoldsTransition(q)
    BY <2>1 DEF HoldsTransition
  <2>3. /\ \A q \in Requests : creationGate = q => creationGate' = q
        /\ shut' \in {"hello", "vault", "store"} => creationGate' = MainThread
    BY <1>2 DEF ShutdownCreation, ShutdownHello, ShutdownVault, ShutdownStore,
       DrainersHoldCreationGate
  <2>4. shut = "store" => \A q \in Requests : pc[q] # "createInstall" /\ pc[q] # "lockStore"
    BY DEF DrainersHoldCreationGate, CreationHoldsItsGates
  <2>5. LockRunsLockVault' /\ CeremoniesAreHello' /\ TransitionIsExclusive'
    BY <2>1, <2>2 DEF LockRunsLockVault, CeremoniesAreHello, TransitionIsExclusive
  <2>6. UnlocksAreCancelled' /\ CreationHoldsItsGates'
    BY <2>1, <2>3, <2>4 DEF UnlocksAreCancelled, CreationHoldsItsGates
  <2>7. DrainersHoldCreationGate'
    BY <2>1, <2>3, <2>4 DEF DrainersHoldCreationGate
  <2>8. LiveEpochIsNew' /\ CoreWorkIsCurrent'
    BY <2>1 DEF LiveEpochIsNew, CoreWorkIsCurrent
  <2>9. AcknowledgedLockIsClear' /\ ShutdownIsFinal'
    BY <2>1, <2>2 DEF AcknowledgedLockIsClear, ShutdownIsFinal
  <2> QED
    BY <2>5, <2>6, <2>7, <2>8, <2>9
<1> QED
  BY <1>1, <1>2 DEF Shutdown

\* Every step keeps LockInv.
LEMMA LockNext ==
    ASSUME TypeOK, LockInv, [Next]_vars
    PROVE  LockInv'
<1>1. CASE UNCHANGED vars
  BY <1>1, StillKeepsLockInv DEF vars
<1>2. ASSUME NEW r \in Requests, Begin(r)
      PROVE  LockInv'
  <2>1. Harmless(r)
    BY <1>2 DEF TypeOK, Begin, Goto, EpochBound, Harmless, Respects, Critical, InCore
  <2> QED
    BY <2>1, HarmlessKeepsLockInv
<1>3. ASSUME NEW r \in Requests, Cancel(r)
      PROVE  LockInv'
  <2>1. \A q \in Requests : flag[q] => flag'[q]
    BY <1>3 DEF TypeOK, Cancel
  <2> QED
    BY <1>3, <2>1, StillKeepsLockInv DEF Cancel
<1>4. ASSUME NEW r \in Requests, Expire(r)
      PROVE  LockInv'
  BY <1>4, StillKeepsLockInv DEF Expire
<1>5. ASSUME NEW r \in Requests, Worker(r)
      PROVE  LockInv'
  BY <1>5, LockDispatch, LockAccess, LockUnlockSteps, LockRemoveSteps, LockCreateSteps,
     LockLockSteps DEF Worker
<1>6. CASE Shutdown
  BY <1>6, LockShutdown
<1> QED
  BY <1>1, <1>2, <1>3, <1>4, <1>5, <1>6 DEF Next, Rest

\* Init is clear: nothing is unlocked, no lock is active, no epoch is sealed.
LEMMA LockInit == Init => LockInv
<1> SUFFICES ASSUME Init PROVE LockInv
  OBVIOUS
<1>1. /\ \A r \in Requests : pc[r] = "idle"
      /\ ~lockActive /\ state \in {"NoVault", "Locked"}
      /\ epoch = 1 /\ sealed = 0 /\ shut = "run"
  BY DEF Init
<1>2. \A r \in Requests : ~HoldsTransition(r)
  BY <1>1 DEF HoldsTransition
<1>3. LockRunsLockVault /\ CeremoniesAreHello /\ TransitionIsExclusive /\ UnlocksAreCancelled
  BY <1>1, <1>2 DEF LockRunsLockVault, CeremoniesAreHello, TransitionIsExclusive,
     UnlocksAreCancelled
<1>4. CreationHoldsItsGates /\ DrainersHoldCreationGate /\ LiveEpochIsNew
  BY <1>1 DEF CreationHoldsItsGates, DrainersHoldCreationGate, LiveEpochIsNew
<1>5. CoreWorkIsCurrent /\ AcknowledgedLockIsClear /\ ShutdownIsFinal
  BY <1>1, <1>2 DEF CoreWorkIsCurrent, AcknowledgedLockIsClear, ShutdownIsFinal
<1> QED
  BY <1>3, <1>4, <1>5 DEF LockInv

\* LockInv holds in every reachable state of every instance.
THEOREM LockInvariant == Spec => []LockInv
  BY TypeCorrect, LockInit, LockNext, PTL DEF Spec

\* From the moment lock_vault has cleared the session until its response is written,
\* no key is in memory and no unlock is published, whatever else is running.
THEOREM LockIsClear == Spec => []AcknowledgedLockIsClear
<1>1. LockInv => AcknowledgedLockIsClear
  BY DEF LockInv
<1> QED
  BY <1>1, LockInvariant, PTL

\* Once shutdown has returned, no handler stores another state over ShuttingDown.
THEOREM ShutdownStays == Spec => []ShutdownIsFinal
<1>1. LockInv => ShutdownIsFinal
  BY DEF LockInv
<1> QED
  BY <1>1, LockInvariant, PTL

=============================================================================
