---------------------------- MODULE AgentLockSteps ----------------------------
(***************************************************************************)
(* What the proof that LockInv is inductive rests on: steps that are       *)
(* harmless to it, steps of one request that need a look at that request   *)
(* only, and one lemma for each of the steps that move the epoch,          *)
(* lock_active or the sealed epoch.                                        *)
(***************************************************************************)
EXTENDS AgentRuntimeInv, TLAPS

USE DEF gates, permits, lifecycle, request, history, Frame, Quiet

\* Labels that LockInv speaks of: a worker must earn its way there.
Critical == {"lockCreation", "lockHello", "lockVault", "lockRead", "lockStore", "release",
             "unlockVault", "kdf", "helloBegin", "ceremony", "publishCas",
             "createStage", "createInstall"}

\* The labels of a worker that uses the core.
InCore == {"core", "gate", "post"}

\* No gate of another thread is taken away or released.
Respects(gate, next, r) == next = gate \/ (gate \in {NoOne, r} /\ next \in {NoOne, r})

\* A step of r that LockInv does not notice: it takes r to no critical label, installs
\* no session, leaves epoch, lock_active and shutdown alone, and lets no lock succeed.
Harmless(r) ==
    /\ pc' = [pc EXCEPT ![r] = pc'[r]]
    /\ pc'[r] \notin Critical
    /\ pc'[r] \in InCore => pc[r] \in InCore /\ reqEpoch'[r] = reqEpoch[r]
    /\ op[r] = "Lock" => /\ pc'[r] \in {"register", "execute", "lock", "finish", "done"}
                         /\ pc'[r] = "finish" => outcome'[r] # "ok"
    /\ \A q \in Requests \ {r} :
          outcome'[q] = outcome[q] /\ reqEpoch'[q] = reqEpoch[q] /\ flag'[q] = flag[q]
    /\ UNCHANGED <<epoch, lockActive, op, shut, sealed>>
    /\ core' = core \/ core' = "locked"
    /\ state' = state \/ SetLocked
    /\ Respects(commitGate, commitGate', r)
    /\ Respects(creationGate, creationGate', r)

\* A harmless step keeps LockInv.
LEMMA HarmlessKeepsLockInv ==
    ASSUME TypeOK, LockInv, NEW r \in Requests, Harmless(r)
    PROVE  LockInv'
<1> USE ThreadAssumption DEF TypeOK, LockInv
<1>1. /\ pc'[r] \notin Critical
      /\ pc'[r] \in InCore => pc[r] \in InCore /\ reqEpoch'[r] = reqEpoch[r]
      /\ op[r] = "Lock" => /\ pc'[r] \in {"register", "execute", "lock", "finish", "done"}
                           /\ pc'[r] = "finish" => outcome'[r] # "ok"
  BY DEF Harmless
<1>2. /\ \A q \in Requests \ {r} : /\ pc'[q] = pc[q] /\ outcome'[q] = outcome[q]
                                   /\ reqEpoch'[q] = reqEpoch[q] /\ flag'[q] = flag[q]
      /\ UNCHANGED <<epoch, lockActive, op, shut, sealed>>
      /\ core' = core \/ core' = "locked"
  BY DEF Harmless
<1>3. /\ state' \in {"Unlocking", "Unlocked"} => state' = state
      /\ state = "ShuttingDown" => state' = state
  BY DEF Harmless, SetLocked
<1>4. /\ \A q \in Requests \ {r} : commitGate = q => commitGate' = q
      /\ \A q \in Threads \ {r} : creationGate = q => creationGate' = q
  BY DEF Harmless, Respects, Threads
<1>5. \A q \in Requests : HoldsTransition(q)' => q # r /\ HoldsTransition(q)
  BY <1>1, <1>2 DEF HoldsTransition, Critical
<1>6. LockRunsLockVault' /\ CeremoniesAreHello'
  BY <1>1, <1>2 DEF LockRunsLockVault, CeremoniesAreHello, Critical
<1>7. TransitionIsExclusive'
  BY <1>2, <1>3, <1>5 DEF TransitionIsExclusive
<1>8. UnlocksAreCancelled'
  BY <1>1, <1>2 DEF UnlocksAreCancelled, Critical
<1>9. CreationHoldsItsGates' /\ DrainersHoldCreationGate'
  BY <1>1, <1>2, <1>4 DEF CreationHoldsItsGates, DrainersHoldCreationGate, Critical, Threads
<1>10. LiveEpochIsNew'
  BY <1>1, <1>2, <1>3, <1>4 DEF LiveEpochIsNew, Critical
<1>11. CoreWorkIsCurrent'
  BY <1>1, <1>2 DEF CoreWorkIsCurrent, Critical, InCore
<1>12. AcknowledgedLockIsClear'
  BY <1>2, <1>3, <1>5 DEF AcknowledgedLockIsClear
<1>13. ShutdownIsFinal'
  BY <1>2, <1>3 DEF ShutdownIsFinal
<1> QED
  BY <1>6, <1>7, <1>8, <1>9, <1>10, <1>11, <1>12, <1>13

\* What LockInv says of one request.
LockPart(r) ==
    /\ op[r] = "Lock" =>
          \/ pc[r] \in {"idle", "register", "execute", "finish", "release", "done"}
          \/ pc[r] \in {"lock", "lockCreation", "lockHello", "lockVault", "lockRead", "lockStore"}
    /\ pc[r] \in {"helloBegin", "ceremony"} => op[r] = "UnlockWindowsHello"
    /\ lockActive /\ pc[r] \in {"unlockVault", "kdf"} => flag[r]
    /\ pc[r] = "createStage" => creationGate = r
    /\ pc[r] = "createInstall" =>
          creationGate = r /\ commitGate = r /\ ~lockActive /\ shut # "done"
    /\ pc[r] \in {"lockHello", "lockVault", "lockRead", "lockStore"} => creationGate = r
    /\ pc[r] = "lockStore" => shut # "done"
    /\ HoldsTransition(r) /\ pc[r] \notin {"lockCreation", "lockHello", "lockVault"} =>
          core = "locked"

\* A step of r alone, in the epoch and under the lock_active it finds: other requests
\* and their gates are left alone, r does not begin a transition or a publication,
\* it enters the core only with a live epoch, and the state and the session move only
\* where no lock is active.
OwnStep(r) ==
    /\ \A q \in Requests \ {r} : /\ pc'[q] = pc[q] /\ outcome'[q] = outcome[q]
                                 /\ reqEpoch'[q] = reqEpoch[q] /\ flag'[q] = flag[q]
    /\ UNCHANGED <<epoch, lockActive, op, shut, sealed>>
    /\ Respects(commitGate, commitGate', r)
    /\ Respects(creationGate, creationGate', r)
    /\ pc'[r] # "publishCas"
    /\ HoldsTransition(r)' => HoldsTransition(r)
    /\ pc'[r] \in InCore => reqEpoch'[r] = epoch /\ state = "Unlocked" /\ ~lockActive
    /\ core' \in {core, "locked"} \/ ~lockActive
    /\ state' \in {"Unlocking", "Unlocked"} =>
          state' = state \/ (state' = "Unlocking" /\ ~lockActive)
    /\ shut = "done" => state' = "ShuttingDown"

\* Such a step keeps LockInv if it keeps what LockInv says of r.
LEMMA OwnStepKeepsLockInv ==
    ASSUME TypeOK, LockInv, NEW r \in Requests, OwnStep(r), LockPart(r)'
    PROVE  LockInv'
<1> USE ThreadAssumption DEF TypeOK, LockInv
<1>1. /\ \A q \in Requests \ {r} : /\ pc'[q] = pc[q] /\ outcome'[q] = outcome[q]
                                   /\ reqEpoch'[q] = reqEpoch[q] /\ flag'[q] = flag[q]
      /\ UNCHANGED <<epoch, lockActive, op, shut, sealed>>
      /\ pc'[r] # "publishCas"
      /\ pc'[r] \in InCore => reqEpoch'[r] = epoch /\ state = "Unlocked" /\ ~lockActive
      /\ core' \in {core, "locked"} \/ ~lockActive
      /\ state' \in {"Unlocking", "Unlocked"} =>
            state' = state \/ (state' = "Unlocking" /\ ~lockActive)
      /\ shut = "done" => state' = "ShuttingDown"
  BY DEF OwnStep
<1>2. /\ \A q \in Requests \ {r} : commitGate = q => commitGate' = q
      /\ \A q \in Threads \ {r} : creationGate = q => creationGate' = q
  BY DEF OwnStep, Respects, Threads
<1>3. \A q \in Requests : HoldsTransition(q)' => HoldsTransition(q)
  <2>1. HoldsTransition(r)' => HoldsTransition(r)
    BY DEF OwnStep
  <2>2. \A q \in Requests \ {r} : HoldsTransition(q)' => HoldsTransition(q)
    BY <1>1 DEF HoldsTransition
  <2> QED
    BY <2>1, <2>2
<1>4. LockRunsLockVault' /\ CeremoniesAreHello'
  BY <1>1 DEF LockRunsLockVault, CeremoniesAreHello, LockPart
<1>5. TransitionIsExclusive'
  BY <1>1, <1>3 DEF TransitionIsExclusive
<1>6. UnlocksAreCancelled'
  BY <1>1 DEF UnlocksAreCancelled, LockPart
<1>7. CreationHoldsItsGates'
  BY <1>1, <1>2 DEF CreationHoldsItsGates, LockPart, Threads
<1>8. DrainersHoldCreationGate'
  BY <1>1, <1>2 DEF DrainersHoldCreationGate, LockPart, Threads
<1>9. LiveEpochIsNew'
  BY <1>1, <1>2 DEF LiveEpochIsNew
<1>10. CoreWorkIsCurrent'
  BY <1>1 DEF CoreWorkIsCurrent, LiveEpochIsNew, InCore
<1>11. AcknowledgedLockIsClear'
  <2>1. SUFFICES ASSUME NEW q \in Requests, HoldsTransition(q)',
                        pc'[q] \notin {"lockCreation", "lockHello", "lockVault"}
                 PROVE  core' = "locked" /\ state' \notin {"Unlocking", "Unlocked"}
    BY DEF AcknowledgedLockIsClear
  <2>2. HoldsTransition(q) /\ lockActive /\ state \notin {"Unlocking", "Unlocked"}
    BY <1>3, <2>1 DEF TransitionIsExclusive
  <2>3. CASE q = r
    BY <1>1, <2>1, <2>2, <2>3 DEF LockPart
  <2>4. CASE q # r
    BY <1>1, <2>1, <2>2, <2>4 DEF AcknowledgedLockIsClear
  <2> QED
    BY <2>3, <2>4
<1>12. ShutdownIsFinal'
  BY <1>1 DEF ShutdownIsFinal
<1> QED
  BY <1>4, <1>5, <1>6, <1>7, <1>8, <1>9, <1>10, <1>11, <1>12

\* A step that only raises cancellation flags keeps LockInv.
LEMMA StillKeepsLockInv ==
    ASSUME TypeOK, LockInv,
           UNCHANGED <<pc, outcome, op, reqEpoch, lifecycle, commitGate, creationGate, shut>>,
           sealed' = sealed,
           \A q \in Requests : flag[q] => flag'[q]
    PROVE  LockInv'
<1> USE DEF LockInv
<1>1. \A q \in Requests : HoldsTransition(q)' <=> HoldsTransition(q)
  BY DEF HoldsTransition
<1>2. LockRunsLockVault' /\ CeremoniesAreHello' /\ TransitionIsExclusive'
  BY <1>1 DEF LockRunsLockVault, CeremoniesAreHello, TransitionIsExclusive
<1>3. UnlocksAreCancelled' /\ CreationHoldsItsGates' /\ DrainersHoldCreationGate'
  BY DEF UnlocksAreCancelled, CreationHoldsItsGates, DrainersHoldCreationGate
<1>4. LiveEpochIsNew' /\ CoreWorkIsCurrent'
  BY DEF LiveEpochIsNew, CoreWorkIsCurrent
<1>5. AcknowledgedLockIsClear' /\ ShutdownIsFinal'
  BY <1>1 DEF AcknowledgedLockIsClear, ShutdownIsFinal
<1> QED
  BY <1>2, <1>3, <1>4, <1>5

\* What LockInv says of one request, and of its transition.
LEMMA LockInvOfOne ==
    ASSUME LockInv, NEW r \in Requests
    PROVE  /\ LockPart(r)
           /\ HoldsTransition(r) => lockActive /\ state \notin {"Unlocking", "Unlocked"}
           /\ shut = "done" => state = "ShuttingDown"
  BY DEF LockInv, LockPart, LockRunsLockVault, CeremoniesAreHello, TransitionIsExclusive,
     UnlocksAreCancelled, CreationHoldsItsGates, DrainersHoldCreationGate,
     AcknowledgedLockIsClear, ShutdownIsFinal

\* finish_dispatch seals an epoch only for the owner of the lock transition, while no
\* publication or installation is half way and nothing in the core is current.
LEMMA LockFinish ==
    ASSUME TypeOK, LockInv, NEW r \in Requests, Finish(r)
    PROVE  LockInv'
<1> USE ThreadAssumption DEF TypeOK, LockInv
<1>1. /\ pc[r] = "finish" /\ commitGate = NoOne
      /\ \A q \in Requests \ {r} : /\ pc'[q] = pc[q] /\ outcome'[q] = outcome[q]
                                   /\ reqEpoch'[q] = reqEpoch[q] /\ flag'[q] = flag[q]
      /\ UNCHANGED <<lifecycle, gates, op, shut>>
  BY DEF Finish, Leave
<1>2. \/ pc'[r] = "release" /\ HoldsTransition(r) /\ op[r] = "Lock"
      \/ pc'[r] = "done"
  BY <1>1 DEF Finish, Leave, HoldsTransition
<1>3. sealed' = sealed \/ (sealed' = epoch /\ HoldsTransition(r))
  BY <1>1 DEF Finish, Response, HoldsTransition
<1>4. \A q \in Requests : HoldsTransition(q)' => HoldsTransition(q)
  BY <1>1, <1>2 DEF HoldsTransition
<1>5. \A q \in Requests : pc[q] # "createInstall" /\ pc[q] # "publishCas"
  BY <1>1 DEF CreationHoldsItsGates, LiveEpochIsNew
<1>6. LockRunsLockVault' /\ CeremoniesAreHello' /\ TransitionIsExclusive'
  BY <1>1, <1>2, <1>4 DEF LockRunsLockVault, CeremoniesAreHello, TransitionIsExclusive
<1>7. UnlocksAreCancelled' /\ CreationHoldsItsGates' /\ DrainersHoldCreationGate'
  BY <1>1, <1>2 DEF UnlocksAreCancelled, CreationHoldsItsGates, DrainersHoldCreationGate
<1>8. HoldsTransition(r) => lockActive /\ state # "Unlocked"
  BY DEF TransitionIsExclusive
<1>9. LiveEpochIsNew'
  BY <1>1, <1>2, <1>3, <1>5, <1>8 DEF LiveEpochIsNew
<1>10. CoreWorkIsCurrent'
  BY <1>1, <1>2, <1>3, <1>5, <1>8 DEF CoreWorkIsCurrent
<1>11. AcknowledgedLockIsClear'
  BY <1>1, <1>2, <1>4 DEF AcknowledgedLockIsClear
<1>12. ShutdownIsFinal'
  BY <1>1 DEF ShutdownIsFinal
<1> QED
  BY <1>6, <1>7, <1>9, <1>10, <1>11, <1>12

\* The owner of the transition releases lock_active, and nobody else holds it.
LEMMA LockReleaseLock ==
    ASSUME TypeOK, LockInv, NEW r \in Requests, ReleaseLock(r)
    PROVE  LockInv'
<1> USE DEF TypeOK, LockInv
<1>1. /\ pc[r] = "release" /\ pc' = [pc EXCEPT ![r] = "done"]
      /\ ~lockActive'
      /\ UNCHANGED <<state, epoch, core, flag, gates, outcome, op, reqEpoch, shut, sealed>>
  BY DEF ReleaseLock, Goto
<1>2. \A q \in Requests : ~HoldsTransition(q)'
  <2>1. HoldsTransition(r) /\ ~HoldsTransition(r)'
    BY <1>1 DEF HoldsTransition
  <2>2. \A q \in Requests \ {r} : HoldsTransition(q)' => HoldsTransition(q)
    BY <1>1 DEF HoldsTransition
  <2> QED
    BY <2>1, <2>2 DEF TransitionIsExclusive
<1>3. LockRunsLockVault' /\ CeremoniesAreHello' /\ TransitionIsExclusive'
  BY <1>1, <1>2 DEF LockRunsLockVault, CeremoniesAreHello, TransitionIsExclusive
<1>4. UnlocksAreCancelled' /\ CreationHoldsItsGates' /\ DrainersHoldCreationGate'
  BY <1>1 DEF UnlocksAreCancelled, CreationHoldsItsGates, DrainersHoldCreationGate
<1>5. LiveEpochIsNew' /\ CoreWorkIsCurrent'
  BY <1>1 DEF LiveEpochIsNew, CoreWorkIsCurrent
<1>6. AcknowledgedLockIsClear' /\ ShutdownIsFinal'
  BY <1>1, <1>2 DEF AcknowledgedLockIsClear, ShutdownIsFinal
<1> QED
  BY <1>3, <1>4, <1>5, <1>6

\* A core failure ends the epoch under the commit gate and cancels everybody.
LEMMA LockFailAfterCore ==
    ASSUME TypeOK, LockInv, NEW r \in Requests, FailAfterCore(r)
    PROVE  LockInv'
<1> USE ThreadAssumption DEF TypeOK, LockInv
<1>1. /\ pc[r] = "fail" /\ commitGate = NoOne
      /\ pc' = [pc EXCEPT ![r] = "finish"]
      /\ outcome' = [outcome EXCEPT ![r] = "failed"]
      /\ epoch' = epoch + 1
      /\ \A q \in Requests : flag[q] => flag'[q]
      /\ UNCHANGED <<lockActive, core, op, reqEpoch, shut, sealed>>
  BY DEF FailAfterCore, AdvanceEpoch, Return
<1>2. \A q \in Threads \ {r} : creationGate = q => creationGate' = q
  BY DEF FailAfterCore, Return, DropGuards, Drop
<1>3. /\ state' \notin {"Unlocking", "Unlocked"}
      /\ state = "ShuttingDown" => state' = state
  BY DEF FailAfterCore, SetLocked
<1>4. \A q \in Requests : HoldsTransition(q)' => HoldsTransition(q)
  BY <1>1 DEF HoldsTransition
<1>5. \A q \in Requests : pc[q] # "createInstall" /\ pc[q] # "publishCas"
  BY <1>1 DEF CreationHoldsItsGates, LiveEpochIsNew
<1>6. LockRunsLockVault' /\ CeremoniesAreHello' /\ TransitionIsExclusive'
  BY <1>1, <1>3, <1>4 DEF LockRunsLockVault, CeremoniesAreHello, TransitionIsExclusive
<1>7. UnlocksAreCancelled'
  BY <1>1 DEF UnlocksAreCancelled
<1>8. CreationHoldsItsGates' /\ DrainersHoldCreationGate'
  BY <1>1, <1>2, <1>5 DEF CreationHoldsItsGates, DrainersHoldCreationGate, Threads
<1>9. LiveEpochIsNew' /\ CoreWorkIsCurrent'
  BY <1>1, <1>3, <1>5 DEF LiveEpochIsNew, CoreWorkIsCurrent
<1>10. AcknowledgedLockIsClear' /\ ShutdownIsFinal'
  BY <1>1, <1>3, <1>4 DEF AcknowledgedLockIsClear, ShutdownIsFinal
<1> QED
  BY <1>6, <1>7, <1>8, <1>9, <1>10

\* publish_authenticated_unlock opens a new epoch with the commit gate held.
LEMMA LockPublish ==
    ASSUME TypeOK, LockInv, NEW r \in Requests, Publish(r)
    PROVE  LockInv'
<1> USE ThreadAssumption DEF TypeOK, LockInv
<1>1. /\ pc[r] = "publish" /\ commitGate = NoOne /\ commitGate' = r
      /\ UNCHANGED <<state, lockActive, core, creationGate, op, reqEpoch, flag, shut, sealed>>
      /\ \A q \in Requests \ {r} : pc'[q] = pc[q] /\ outcome'[q] = outcome[q]
  BY DEF Publish, Pend, Goto, AdvanceEpochOnly
<1>2. \/ pc'[r] = "publishAbort" /\ epoch' = epoch
      \/ pc'[r] = "publishCas" /\ epoch' = epoch + 1 /\ state = "Unlocking" /\ ~lockActive
  BY DEF Publish, Pend, Goto, AdvanceEpochOnly
<1>3. \A q \in Requests : HoldsTransition(q)' => HoldsTransition(q)
  BY <1>1, <1>2 DEF HoldsTransition
<1>4. \A q \in Requests : pc[q] # "createInstall" /\ pc[q] # "publishCas"
  BY <1>1 DEF CreationHoldsItsGates, LiveEpochIsNew
<1>5. LockRunsLockVault' /\ CeremoniesAreHello' /\ TransitionIsExclusive'
  BY <1>1, <1>2, <1>3 DEF LockRunsLockVault, CeremoniesAreHello, TransitionIsExclusive
<1>6. UnlocksAreCancelled' /\ CreationHoldsItsGates' /\ DrainersHoldCreationGate'
  BY <1>1, <1>2, <1>4 DEF UnlocksAreCancelled, CreationHoldsItsGates, DrainersHoldCreationGate
<1>7. LiveEpochIsNew'
  BY <1>1, <1>2, <1>4 DEF LiveEpochIsNew
<1>8. CoreWorkIsCurrent'
  BY <1>1, <1>2, <1>4 DEF CoreWorkIsCurrent, LiveEpochIsNew
<1>9. AcknowledgedLockIsClear' /\ ShutdownIsFinal'
  BY <1>1, <1>2, <1>3 DEF AcknowledgedLockIsClear, ShutdownIsFinal
<1> QED
  BY <1>5, <1>6, <1>7, <1>8, <1>9

\* The compare_exchange succeeds from Unlocking only, when nobody holds a transition.
LEMMA LockPublishCas ==
    ASSUME TypeOK, LockInv, NEW r \in Requests, PublishCas(r)
    PROVE  LockInv'
<1> USE ThreadAssumption DEF TypeOK, LockInv
<1>1. /\ pc[r] = "publishCas"
      /\ UNCHANGED <<epoch, lockActive, core, op, reqEpoch, flag, shut, sealed>>
      /\ \A q \in Requests \ {r} : pc'[q] = pc[q] /\ outcome'[q] = outcome[q]
  BY DEF PublishCas, Return, Pend
<1>2. \/ pc'[r] = "finish" /\ state = "Unlocking" /\ state' = "Unlocked"
      \/ pc'[r] = "publishAbort" /\ state' = state
  BY DEF PublishCas, Return, Pend
<1>3. /\ \A q \in Requests \ {r} : commitGate = q => commitGate' = q
      /\ \A q \in Threads \ {r} : creationGate = q => creationGate' = q
  BY DEF PublishCas, Return, DropGuards, Drop
<1>4. op[r] # "Lock" /\ commitGate = r /\ sealed < epoch
  BY <1>1 DEF LockRunsLockVault, LiveEpochIsNew
<1>5. \A q \in Requests : HoldsTransition(q)' => q # r /\ HoldsTransition(q)
  BY <1>1, <1>2, <1>4 DEF HoldsTransition
<1>6. \A q \in Requests \ {r} : pc[q] # "createInstall" /\ pc[q] # "publishCas"
  BY <1>4 DEF CreationHoldsItsGates, LiveEpochIsNew
<1>7. state = "Unlocking" => \A q \in Requests : ~HoldsTransition(q)
  BY DEF TransitionIsExclusive
<1>8. LockRunsLockVault' /\ CeremoniesAreHello' /\ TransitionIsExclusive'
  BY <1>1, <1>2, <1>4, <1>5, <1>7
  DEF LockRunsLockVault, CeremoniesAreHello, TransitionIsExclusive
<1>9. UnlocksAreCancelled' /\ CreationHoldsItsGates'
  BY <1>1, <1>2, <1>3, <1>6 DEF UnlocksAreCancelled, CreationHoldsItsGates, Threads
<1>10. DrainersHoldCreationGate'
  BY <1>1, <1>2, <1>3 DEF DrainersHoldCreationGate, Threads
<1>11. LiveEpochIsNew' /\ CoreWorkIsCurrent'
  BY <1>1, <1>2, <1>4, <1>6 DEF LiveEpochIsNew, CoreWorkIsCurrent
<1>12. AcknowledgedLockIsClear' /\ ShutdownIsFinal'
  BY <1>1, <1>2, <1>5, <1>7 DEF AcknowledgedLockIsClear, ShutdownIsFinal
<1> QED
  BY <1>8, <1>9, <1>10, <1>11, <1>12

\* A creation installs its session in a new epoch; both its gates kept locks out.
LEMMA LockCreateInstall ==
    ASSUME TypeOK, LockInv, NEW r \in Requests, CreateInstall(r)
    PROVE  LockInv'
<1> USE ThreadAssumption DEF TypeOK, LockInv
<1>1. /\ pc[r] = "createInstall" /\ pc'[r] = "finish"
      /\ epoch' = epoch + 1 /\ state' = "Unlocked"
      /\ UNCHANGED <<lockActive, op, reqEpoch, flag, shut, sealed>>
      /\ \A q \in Requests \ {r} : pc'[q] = pc[q] /\ outcome'[q] = outcome[q]
  BY DEF CreateInstall, AdvanceEpochOnly, Return
<1>2. /\ \A q \in Requests \ {r} : commitGate = q => commitGate' = q
      /\ \A q \in Threads \ {r} : creationGate = q => creationGate' = q
  BY DEF CreateInstall, Return, DropGuards, Drop
<1>3. commitGate = r /\ ~lockActive /\ shut # "done" /\ op[r] # "Lock"
  BY <1>1 DEF CreationHoldsItsGates, LockRunsLockVault
<1>4. \A q \in Requests : ~HoldsTransition(q)'
  <2>1. \A q \in Requests : HoldsTransition(q)' => HoldsTransition(q)
    BY <1>1, <1>3 DEF HoldsTransition
  <2> QED
    BY <1>3, <2>1 DEF TransitionIsExclusive
<1>5. \A q \in Requests \ {r} : pc[q] # "createInstall" /\ pc[q] # "publishCas"
  BY <1>3 DEF CreationHoldsItsGates, LiveEpochIsNew
<1>6. LockRunsLockVault' /\ CeremoniesAreHello' /\ TransitionIsExclusive'
  BY <1>1, <1>3, <1>4 DEF LockRunsLockVault, CeremoniesAreHello, TransitionIsExclusive
<1>7. UnlocksAreCancelled' /\ CreationHoldsItsGates'
  BY <1>1, <1>2, <1>3, <1>5 DEF UnlocksAreCancelled, CreationHoldsItsGates, Threads
<1>8. DrainersHoldCreationGate'
  BY <1>1, <1>2 DEF DrainersHoldCreationGate, Threads
<1>9. LiveEpochIsNew' /\ CoreWorkIsCurrent'
  BY <1>1, <1>3, <1>5 DEF LiveEpochIsNew, CoreWorkIsCurrent
<1>10. AcknowledgedLockIsClear' /\ ShutdownIsFinal'
  BY <1>1, <1>3, <1>4 DEF AcknowledgedLockIsClear, ShutdownIsFinal
<1> QED
  BY <1>6, <1>7, <1>8, <1>9, <1>10

\* lock_vault's first step under the commit gate: no other transition, creation or
\* publication is in its critical part, and every unlock in the core is cancelled.
LEMMA LockLockBegin ==
    ASSUME TypeOK, LockInv, NEW r \in Requests, LockBegin(r)
    PROVE  LockInv'
<1> USE ThreadAssumption DEF TypeOK, LockInv
<1>1. CASE lockActive
  <2>1. Harmless(r)
    BY <1>1 DEF LockBegin, Return, DropGuards, Drop, Harmless, Respects, Critical, InCore
  <2> QED
    BY <2>1, HarmlessKeepsLockInv
<1>2. CASE ~lockActive
  <2>1. /\ pc[r] = "lock" /\ commitGate = NoOne
        /\ lockActive' = TRUE
        /\ state' = LockTarget
        /\ epoch' = epoch + 1
        /\ flag' = [q \in Requests |-> flag[q] \/ pc[q] \in Handlers]
        /\ pc' = [pc EXCEPT ![r] = "lockCreation"]
        /\ UNCHANGED <<outcome, gates, core, op, reqEpoch, shut, sealed>>
    BY <1>2 DEF LockBegin, AdvanceEpoch, Registered, Goto
  <2>2. state' \notin {"Unlocking", "Unlocked"}
    BY <2>1 DEF LockTarget, AgentStates
  <2>3. \A q \in Requests : ~HoldsTransition(q)
    BY <1>2 DEF TransitionIsExclusive
  <2>4. \A q \in Requests : HoldsTransition(q)' => q = r
    BY <2>1, <2>3 DEF HoldsTransition
  <2>5. \A q \in Requests : pc[q] # "createInstall" /\ pc[q] # "publishCas"
    BY <2>1 DEF CreationHoldsItsGates, LiveEpochIsNew
  <2>6. LockRunsLockVault' /\ CeremoniesAreHello'
    BY <2>1 DEF LockRunsLockVault, CeremoniesAreHello
  <2>7. TransitionIsExclusive'
    BY <2>1, <2>2, <2>4 DEF TransitionIsExclusive
  <2>8. UnlocksAreCancelled'
    BY <2>1 DEF UnlocksAreCancelled, Handlers
  <2>9. CreationHoldsItsGates' /\ DrainersHoldCreationGate'
    BY <2>1, <2>5 DEF CreationHoldsItsGates, DrainersHoldCreationGate
  <2>10. LiveEpochIsNew'
    BY <2>1, <2>5 DEF LiveEpochIsNew
  <2>11. CoreWorkIsCurrent'
    BY <2>1, <2>5 DEF CoreWorkIsCurrent, LiveEpochIsNew
  <2>12. AcknowledgedLockIsClear'
    BY <2>1, <2>4 DEF AcknowledgedLockIsClear
  <2>13. ShutdownIsFinal'
    BY <2>1 DEF ShutdownIsFinal, LockTarget
  <2> QED
    BY <2>6, <2>7, <2>8, <2>9, <2>10, <2>11, <2>12, <2>13
<1> QED
  BY <1>1, <1>2

=============================================================================
