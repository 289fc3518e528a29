-------------------------- MODULE AgentRuntimeInv --------------------------
(***************************************************************************)
(* The inductive invariant behind the theorems of AgentRuntimeProofs: why  *)
(* a lock that has been acknowledged stays a lock.                         *)
(***************************************************************************)
EXTENDS AgentRuntime

\* A lock request only ever runs lock_vault, so only lock_vault gives it "ok".
LockRunsLockVault ==
    \A r \in Requests : op[r] = "Lock" =>
        \/ pc[r] \in {"idle", "register", "execute", "finish", "release", "done"}
        \/ pc[r] \in {"lock", "lockCreation", "lockHello", "lockVault", "lockRead", "lockStore"}

\* Only unlock_windows_hello begins a ceremony: its checks look at lock_active.
CeremoniesAreHello ==
    \A r \in Requests :
        pc[r] \in {"helloBegin", "ceremony"} => op[r] = "UnlockWindowsHello"

\* The lock transition has one owner, who keeps lock_active set and the state out
\* of the unlocked ones.
TransitionIsExclusive ==
    /\ \A r \in Requests :
          HoldsTransition(r) => lockActive /\ state \notin {"Unlocking", "Unlocked"}
    /\ \A r, q \in Requests : HoldsTransition(r) /\ HoldsTransition(q) => r = q

\* An unlock that is in the core while a lock or shutdown is active is cancelled.
UnlocksAreCancelled ==
    \A r \in Requests : lockActive /\ pc[r] \in {"unlockVault", "kdf"} => flag[r]

\* A creation that passed its last check holds both its gates, so no lock and
\* no shutdown has got past it.
CreationHoldsItsGates ==
    \A r \in Requests :
        /\ pc[r] = "createStage" => creationGate = r
        /\ pc[r] = "createInstall" => /\ creationGate = r /\ commitGate = r
                                      /\ ~lockActive /\ shut # "done"

\* A lock past the creation gate holds it, and so does shutdown, so a lock about
\* to store its target state is not overtaken by the end of shutdown.
DrainersHoldCreationGate ==
    /\ \A r \in Requests :
          pc[r] \in {"lockHello", "lockVault", "lockRead", "lockStore"} => creationGate = r
    /\ \A r \in Requests : pc[r] = "lockStore" => shut # "done"
    /\ shut \in {"hello", "vault", "store"} => creationGate = MainThread

\* An epoch in which the vault is or becomes unlocked is newer than any sealed one.
LiveEpochIsNew ==
    /\ sealed <= epoch
    /\ state = "Unlocked" => sealed < epoch
    /\ \A r \in Requests : pc[r] = "publishCas" =>
          commitGate = r /\ sealed < epoch /\ state # "Unlocked"

\* A worker that reached the core with the current epoch did so after the last
\* acknowledged lock; a lock, a shutdown or an unlock that is being published has
\* made its epoch an old one.
CoreWorkIsCurrent ==
    \A r \in Requests : pc[r] \in {"core", "gate", "post"} =>
        /\ reqEpoch[r] <= epoch
        /\ reqEpoch[r] = epoch => sealed < epoch
        /\ lockActive => reqEpoch[r] < epoch
        /\ \A q \in Requests : pc[q] = "publishCas" => reqEpoch[r] < epoch

\* The inductive invariant: together its parts are kept by every step of the
\* runtime, and they imply that locks are clear, sealed and final.
LockInv ==
    /\ LockRunsLockVault
    /\ CeremoniesAreHello
    /\ TransitionIsExclusive
    /\ UnlocksAreCancelled
    /\ CreationHoldsItsGates
    /\ DrainersHoldCreationGate
    /\ LiveEpochIsNew
    /\ CoreWorkIsCurrent
    /\ AcknowledgedLockIsClear
    /\ ShutdownIsFinal

-----------------------------------------------------------------------------
(***************************************************************************)
(* What the accesses add: the vault mutex protects the session a mutation  *)
(* works with, and whatever stops a request stays visible to it.           *)
(***************************************************************************)
\* The core is used with the vault mutex held, and keeps the session it found.
CoreIsGuarded ==
    \A r \in Requests :
        /\ pc[r] \in {"core", "gate", "post", "kdf", "cleanupGate"} => vault = r
        /\ pc[r] = "gate" => core = "unlocked"

\* A cancel frame that the connection accepted has reached the worker.
CancelIsSeen ==
    \A r \in Requests :
        /\ pc[r] = "register" => conn[r] # "None"
        /\ Registered(r) => conn[r] # "None" /\ (conn[r] = "Cancelled" => flag[r])

\* A removal that passed its check holds the commit gate, so its epoch is live.
RemovalHoldsCommitGate ==
    \A r \in Requests : pc[r] = "removeVault" =>
        commitGate = r /\ epoch = reqEpoch[r] /\ ~lockActive

\* Only an abort of the core leaves "aborted", and its reason is still there.
AbortHasACause ==
    \A r \in Requests :
        /\ outcome[r] # "internal"
        /\ pc[r] = "post" /\ outcome[r] = "aborted" => ShouldAbort(r)

\* The inductive invariant of the accesses, relative to LockInv.
WorkInv ==
    /\ CoreIsGuarded
    /\ CancelIsSeen
    /\ RemovalHoldsCommitGate
    /\ AbortHasACause
=============================================================================
