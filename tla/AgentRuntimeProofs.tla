------------------------- MODULE AgentRuntimeProofs -------------------------
(***************************************************************************)
(* The runtime keeps its types for every number of requests, every plan    *)
(* and every choice of events: one lemma per family of handlers, one step  *)
(* per action.                                                             *)
(***************************************************************************)
EXTENDS AgentRuntimeInv, TLAPS

USE DEF gates, permits, lifecycle, request, history, Frame, Quiet

\* Admission, execute and finish_dispatch keep the types.
LEMMA TypeDispatch ==
    ASSUME TypeOK, NEW r \in Requests, Dispatch(r)
    PROVE  TypeOK'
<1> USE InstanceAssumption DEF TypeOK, Return, DropGuards, Drop, Goto, Pend, Threads,
           Labels, Outside, Handlers, Outcomes, AgentStates
<1>1. CASE Reject(r)
  BY <1>1 DEF Reject, Leave
<1>2. CASE Register(r)
  <2>1. CASE Leave(r, "done")
    BY <1>2, <2>1 DEF Register, Leave
  <2>2. CASE flag' = [flag EXCEPT ![r] = conn[r] = "Cancelled"]
    <3>1. (conn[r] = "Cancelled") \in BOOLEAN
      OBVIOUS
    <3>2. flag' \in [Requests -> BOOLEAN]
      BY <2>2, <3>1
    <3> QED
      BY <1>2, <2>1, <3>2 DEF Register, Leave
  <2> QED
    BY <1>2, <2>1, <2>2 DEF Register
<1>3. CASE Execute(r)
  BY <1>3 DEF Execute, Entry, AllOps
<1>4. CASE Finish(r)
  BY <1>4 DEF Finish, Leave
<1>5. CASE ReleaseLock(r)
  <2>1. lockActive' \in BOOLEAN
    BY <1>5, Zenon DEF ReleaseLock
  <2> QED
    BY <1>5, <2>1 DEF ReleaseLock
<1> QED
  BY <1>1, <1>2, <1>3, <1>4, <1>5 DEF Dispatch

\* The handlers of reads and mutations keep the types.
LEMMA TypeAccess ==
    ASSUME TypeOK, NEW r \in Requests, Access(r)
    PROVE  TypeOK'
<1> USE InstanceAssumption DEF TypeOK, Return, DropGuards, Drop, Goto, Pend, Threads,
           Labels, Outside, Handlers, Outcomes, AgentStates
<1>1. CASE Pre(r)
  BY <1>1 DEF Pre, PreSecret, ShouldAbort
<1>2. CASE Verify(r)
  BY <1>2 DEF Verify, PreSecret, ShouldAbort
<1>3. CASE Mutate(r)
  BY <1>3 DEF Mutate, PreSecret, ShouldAbort
<1>4. CASE TakeVault(r)
  BY <1>4 DEF TakeVault, PreSecret, ShouldAbort
<1>5. CASE Core(r)
  BY <1>5 DEF Core
<1>6. CASE CommitMutation(r)
  BY <1>6 DEF CommitMutation
<1>7. CASE PostSecret(r)
  BY <1>7 DEF PostSecret, PostOutcome, SetLocked
<1>8. CASE FailAfterCore(r)
  BY <1>8 DEF FailAfterCore, SetLocked, AdvanceEpoch, Registered
<1> QED
  BY <1>1, <1>2, <1>3, <1>4, <1>5, <1>6, <1>7, <1>8 DEF Access

\* The unlock handlers keep the types.
LEMMA TypeUnlockSteps ==
    ASSUME TypeOK, NEW r \in Requests, UnlockSteps(r)
    PROVE  TypeOK'
<1> USE InstanceAssumption DEF TypeOK, Return, DropGuards, Drop, Goto, Pend, Threads,
           Labels, Outside, Handlers, Outcomes, AgentStates
<1>1. CASE Unlock(r)
  BY <1>1 DEF Unlock
<1>2. CASE UnlockGate(r)
  BY <1>2 DEF UnlockGate
<1>3. CASE Hello(r)
  BY <1>3 DEF Hello
<1>4. CASE TakeHelloGate(r)
  BY <1>4 DEF TakeHelloGate
<1>5. CASE HelloBegin(r)
  BY <1>5 DEF HelloBegin
<1>6. CASE Ceremony(r)
  BY <1>6 DEF Ceremony
<1>7. CASE UnlockVault(r)
  BY <1>7 DEF UnlockVault
<1>8. CASE Kdf(r)
  BY <1>8 DEF Kdf
<1>9. CASE AfterCore(r)
  BY <1>9 DEF AfterCore
<1>10. CASE Relock(r)
  BY <1>10 DEF Relock
<1>11. CASE UnlockFailed(r)
  BY <1>11 DEF UnlockFailed, SetLocked
<1>12. CASE Cleanup(r)
  BY <1>12 DEF Cleanup, CleanupOutcome
<1>13. CASE CleanupVault(r)
  BY <1>13 DEF CleanupVault, CleanupOutcome
<1>14. CASE CleanupGate(r)
  BY <1>14 DEF CleanupGate, CleanupOutcome
<1>15. CASE Publish(r)
  BY <1>15 DEF Publish, AdvanceEpochOnly
<1>16. CASE PublishCas(r)
  BY <1>16 DEF PublishCas
<1>17. CASE PublishAbort(r)
  BY <1>17 DEF PublishAbort, SetLocked
<1> QED
  BY <1>1, <1>2, <1>3, <1>4, <1>5, <1>6, <1>7, <1>8, <1>9, <1>10, <1>11, <1>12, <1>13,
     <1>14, <1>15, <1>16, <1>17 DEF UnlockSteps

\* remove_windows_hello keeps the types.
LEMMA TypeRemoveSteps ==
    ASSUME TypeOK, NEW r \in Requests, RemoveSteps(r)
    PROVE  TypeOK'
<1> USE InstanceAssumption DEF TypeOK, Return, DropGuards, Drop, Goto, Pend, Threads,
           Labels, Outside, Handlers, Outcomes, AgentStates
<1>1. CASE Remove(r)
  BY <1>1 DEF Remove, PreSecret, ShouldAbort
<1>2. CASE RemoveCheck(r)
  BY <1>2 DEF RemoveCheck, PreSecret, ShouldAbort
<1>3. CASE RemoveGate(r)
  BY <1>3 DEF RemoveGate, PreSecret, ShouldAbort
<1>4. CASE RemoveVault(r)
  BY <1>4 DEF RemoveVault
<1> QED
  BY <1>1, <1>2, <1>3, <1>4 DEF RemoveSteps

\* create_vault keeps the types.
LEMMA TypeCreateSteps ==
    ASSUME TypeOK, NEW r \in Requests, CreateSteps(r)
    PROVE  TypeOK'
<1> USE InstanceAssumption DEF TypeOK, Return, DropGuards, Drop, Goto, Pend, Threads,
           Labels, Outside, Handlers, Outcomes, AgentStates
<1>1. CASE Create(r)
  BY <1>1 DEF Create
<1>2. CASE CreateGate(r)
  BY <1>2 DEF CreateGate
<1>3. CASE CreateStageFails(r)
  BY <1>3 DEF CreateStageFails, CreateFailure
<1>4. CASE CreatePublish(r)
  BY <1>4 DEF CreatePublish, CreateFailure
<1>5. CASE CreateInstall(r)
  BY <1>5 DEF CreateInstall, AdvanceEpochOnly
<1> QED
  BY <1>1, <1>2, <1>3, <1>4, <1>5 DEF CreateSteps

\* lock_vault keeps the types.
LEMMA TypeLockSteps ==
    ASSUME TypeOK, NEW r \in Requests, LockSteps(r)
    PROVE  TypeOK'
<1> USE InstanceAssumption DEF TypeOK, Return, DropGuards, Drop, Goto, Pend, Threads,
           Labels, Outside, Handlers, Outcomes, AgentStates
<1>1. CASE LockBegin(r)
  <2>1. lockActive' = TRUE \/ lockActive' = lockActive
    BY <1>1, Zenon DEF LockBegin
  <2>2. lockActive' \in BOOLEAN
    BY <2>1, Zenon
  <2>3. AdvanceEpoch \/ flag' = flag
    BY <1>1, Zenon DEF LockBegin
  <2>4. flag' \in [Requests -> BOOLEAN]
    <3>1. CASE AdvanceEpoch
      BY <3>1 DEF AdvanceEpoch, Registered
    <3>2. CASE flag' = flag
      BY <3>2
    <3> QED
      BY <2>3, <3>1, <3>2
  <2> QED
    BY <1>1, <2>2, <2>4 DEF LockBegin, LockTarget, AdvanceEpoch
<1>2. CASE LockCreation(r)
  BY <1>2 DEF LockCreation
<1>3. CASE LockHello(r)
  BY <1>3 DEF LockHello
<1>4. CASE LockVault(r)
  BY <1>4 DEF LockVault
<1>5. CASE LockRead(r)
  BY <1>5 DEF LockRead
<1>6. CASE LockStore(r)
  BY <1>6 DEF LockStore
<1> QED
  BY <1>1, <1>2, <1>3, <1>4, <1>5, <1>6 DEF LockSteps


\* shutdown keeps the types.
LEMMA TypeShutdown ==
    ASSUME TypeOK, Shutdown
    PROVE  TypeOK'
<1> USE ThreadAssumption DEF TypeOK, Threads, AgentStates
<1>1. CASE ShutdownBegin
  BY <1>1 DEF ShutdownBegin, AdvanceEpoch, Registered
<1>2. CASE ShutdownCreation
  BY <1>2 DEF ShutdownCreation
<1>3. CASE ShutdownHello
  BY <1>3 DEF ShutdownHello
<1>4. CASE ShutdownVault
  BY <1>4 DEF ShutdownVault
<1>5. CASE ShutdownStore
  BY <1>5 DEF ShutdownStore
<1> QED
  BY <1>1, <1>2, <1>3, <1>4, <1>5 DEF Shutdown

\* Every step of the runtime keeps the types.
LEMMA TypeNext ==
    ASSUME TypeOK, [Next]_vars
    PROVE  TypeOK'
<1>1. CASE UNCHANGED vars
  BY <1>1 DEF TypeOK, vars
<1>2. CASE \E r \in Requests : Begin(r) \/ Cancel(r) \/ Expire(r)
  <2>1. PICK r \in Requests : Begin(r) \/ Cancel(r) \/ Expire(r)
    BY <1>2
  <2>2. CASE Begin(r)
    BY <2>2 DEF TypeOK, Begin, Goto, Labels, Outside
  <2>3. CASE Cancel(r)
    BY <2>3 DEF TypeOK, Cancel, Registered
  <2>4. CASE Expire(r)
    BY <2>4 DEF TypeOK, Expire
  <2> QED
    BY <2>1, <2>2, <2>3, <2>4
<1>3. CASE \E r \in Requests : Worker(r)
  BY <1>3, TypeDispatch, TypeAccess, TypeUnlockSteps, TypeRemoveSteps, TypeCreateSteps,
     TypeLockSteps DEF Worker
<1>4. CASE Shutdown
  BY <1>4, TypeShutdown
<1> QED
  BY <1>1, <1>2, <1>3, <1>4 DEF Next, Rest

\* The agent starts well typed.
LEMMA TypeInit == Init => TypeOK
<1> SUFFICES ASSUME Init PROVE TypeOK
  OBVIOUS
<1>1. lockActive \in BOOLEAN
  BY Zenon DEF Init
<1>2. /\ flag \in [Requests -> BOOLEAN]
      /\ expired \in [Requests -> BOOLEAN]
  BY DEF Init
<1> QED
  BY <1>1, <1>2 DEF Init, TypeOK, AgentStates, Threads, Labels, Outside, Outcomes

\* The variables keep their types in every instance.
THEOREM TypeCorrect == Spec => []TypeOK
  BY TypeInit, TypeNext, PTL DEF Spec

=============================================================================
