---------------------------- MODULE AgentRuntime ----------------------------
(***************************************************************************)
(* The coordination core of the vault agent                                *)
(* (crates/vault-agent/src/runtime.rs): request workers, the gates and     *)
(* permits they share, the unlock epoch, and the lock, unlock, create,     *)
(* read, mutation, Windows Hello and shutdown handlers.                    *)
(*                                                                         *)
(* A request is served by one worker thread.  pc[r] is the next point at   *)
(* which that thread touches shared state: blocks between two such points  *)
(* are one step.  A mutex is its owner or NoOne.  A thread that returns    *)
(* from its handler drops every guard it holds, as Rust's scopes do.       *)
(***************************************************************************)
EXTENDS Naturals, FiniteSets

CONSTANTS
    Requests,     \* requests that clients may send, one worker thread each
    MainThread,   \* the thread that runs the listener loop and shutdown
    NoOne,        \* the owner of a free mutex or permit
    Plan,         \* the operations each request may be, in this instance
    Events,       \* what the environment may do: see AllEvents
    MaxInFlight   \* MAX_IN_FLIGHT_GLOBAL

AllOps == {"Status", "CreateVault", "UnlockMasterPassword", "UnlockWindowsHello",
           "Lock", "Read", "Write", "Passkey", "RemoveWindowsHello"}

AllEvents == {"cancel", "deadline", "fault", "pending", "shutdown"}

ASSUME ThreadAssumption ==
    /\ NoOne \notin Requests
    /\ MainThread \notin Requests
    /\ MainThread # NoOne

ASSUME InstanceAssumption ==
    /\ Plan \in [Requests -> SUBSET AllOps]
    /\ Events \subseteq AllEvents
    /\ MaxInFlight \in Nat

VARIABLES
    \* the Coordinator and the AgentRuntime atomics
    state,          \* AgentState
    epoch,          \* the unlock epoch
    lockActive,     \* lock_active
    core,           \* does VaultAgent hold an authenticated session?
    \* mutexes
    commitGate, vault, creationGate, helloGate,
    \* FlagPermits other than lock_active
    mutationActive, kdfActive, helloActive,
    \* one worker per request
    op,             \* the operation code
    pc,             \* where the worker is
    reqEpoch,       \* permit.unlock_epoch(); start_epoch of CreateVault
    conn,           \* the request in its Connection: in_flight state
    flag,           \* registration.cancellation
    expired,        \* has the monotonic deadline passed?
    outcome,        \* the ExecutionOutcome to be returned
    \* the lock transition and shutdown
    target,         \* lock_vault's target_state
    shut,           \* where the main thread is in shutdown
    \* history
    durable,        \* requests whose mutation reached the vault file
    sealed          \* the epoch at the latest acknowledged lock

gates == <<commitGate, vault, creationGate, helloGate>>
permits == <<mutationActive, kdfActive, helloActive>>
lifecycle == <<state, epoch, lockActive, core>>
request == <<op, reqEpoch, conn, expired>>
history == <<durable, sealed>>
vars == <<lifecycle, gates, permits, request, pc, flag, outcome, target, shut, history>>

Threads == Requests \cup {MainThread}

(***************************************************************************)
(* Vocabulary of the protocol (types.rs) and of ExecutionOutcome.          *)
(***************************************************************************)
AgentStates == {"NoVault", "Locked", "Unlocking", "Unlocked", "ShuttingDown"}

Outcomes == {"none", "ok", "committed", "aborted", "locked", "cancelled", "deadline",
             "busy", "conflict", "notFound", "invalid", "failed", "internal"}

\* requires_unlocked_epoch
EpochBound == {"Read", "Write", "Passkey", "RemoveWindowsHello"}

Unlocks == {"UnlockMasterPassword", "UnlockWindowsHello"}

\* The first label of each handler reached from execute.
Entry == [o \in AllOps \ {"Status"} |->
            CASE o = "CreateVault"          -> "create"
              [] o = "UnlockMasterPassword" -> "unlock"
              [] o = "UnlockWindowsHello"   -> "hello"
              [] o = "Lock"                 -> "lock"
              [] o = "Read"                 -> "pre"
              [] o = "Write"                -> "mutate"
              [] o = "Passkey"              -> "verify"
              [] o = "RemoveWindowsHello"   -> "remove"]

Outside == {"idle", "reject", "register", "release", "done"}

Handlers == {"execute", "finish",
             "pre", "verify", "mutate", "vault", "core", "gate", "post", "fail",
             "unlock", "unlockGate", "unlockVault", "kdf", "unlocked", "relock",
             "setLocked", "cleanup", "cleanupVault", "cleanupGate", "publish", "publishCas", "publishAbort",
             "hello", "helloGate", "helloBegin", "ceremony",
             "remove", "removeCheck", "removeGate", "removeVault",
             "create", "createGate", "createStage", "createInstall",
             "lock", "lockCreation", "lockHello", "lockVault", "lockRead", "lockStore"}

Labels == Outside \cup Handlers

(***************************************************************************)
(* Registration lives from admit_request to the end of finish_dispatch.    *)
(***************************************************************************)
Registered(r) == pc[r] \in Handlers

\* advance_epoch_without_cancellation
AdvanceEpochOnly ==
    /\ epoch' = epoch + 1
    /\ UNCHANGED flag

\* Coordinator::advance_epoch: increment, then cancel every registered request.
AdvanceEpoch ==
    /\ epoch' = epoch + 1
    /\ flag' = [r \in Requests |-> flag[r] \/ Registered(r)]

\* Mutant: the state is stored without looking at it.
SetLockedAlways == state' = "Locked"

\* set_locked_unless_shutting_down
SetLocked == state' = IF state = "ShuttingDown" THEN state ELSE "Locked"

Drop(owner, r) == IF owner = r THEN NoOne ELSE owner

\* Every guard and permit of r goes out of scope.
DropGuards(r) ==
    /\ commitGate' = Drop(commitGate, r)
    /\ vault' = Drop(vault, r)
    /\ creationGate' = Drop(creationGate, r)
    /\ helloGate' = Drop(helloGate, r)
    /\ mutationActive' = Drop(mutationActive, r)
    /\ kdfActive' = Drop(kdfActive, r)
    /\ helloActive' = Drop(helloActive, r)

\* The handler returns an outcome to dispatch_with_admission.
Return(r, result) ==
    /\ pc' = [pc EXCEPT ![r] = "finish"]
    /\ outcome' = [outcome EXCEPT ![r] = result]
    /\ DropGuards(r)

Goto(r, label) ==
    /\ pc' = [pc EXCEPT ![r] = label]
    /\ UNCHANGED outcome

\* The handler goes on with an outcome it will return later.
Pend(r, result, label) ==
    /\ pc' = [pc EXCEPT ![r] = label]
    /\ outcome' = [outcome EXCEPT ![r] = result]

\* The response is written, or its write failed: the request leaves in_flight and
\* its DispatchContext is dropped.
Leave(r, label) ==
    /\ pc' = [pc EXCEPT ![r] = label]
    /\ outcome' = [outcome EXCEPT ![r] = "none"]
    /\ conn' = [conn EXCEPT ![r] = "None"]
    /\ flag' = [flag EXCEPT ![r] = FALSE]
    /\ expired' = [expired EXCEPT ![r] = FALSE]
    /\ reqEpoch' = [reqEpoch EXCEPT ![r] = 0]

\* What a handler's step leaves alone besides what it assigns.
Frame == UNCHANGED <<request, target, shut, history>>
Quiet == Frame /\ UNCHANGED <<lifecycle, flag>>

(***************************************************************************)
(* The checks a handler repeats between its blocking points.               *)
(***************************************************************************)
\* pre_secret_operation: the outcome that stops the handler, or "none".
PreSecret(r) ==
    IF lockActive THEN "locked"
    ELSE IF flag[r] THEN "cancelled"
    ELSE IF expired[r] THEN "deadline"
    ELSE IF state = "Unlocked" /\ epoch = reqEpoch[r] THEN "none" ELSE "locked"

\* secret_operation_should_abort
ShouldAbort(r) == PreSecret(r) # "none"

\* Mutants: the check under the commit gate forgets cancellation, or everything.
CommitIgnoresCancel(r) == epoch = reqEpoch[r] /\ ~lockActive /\ ~expired[r]
CommitUnchecked(r) == TRUE

\* The check a mutation makes under the commit gate, before SQLite commits.
CommitAllowed(r) ==
    /\ epoch = reqEpoch[r]
    /\ ~lockActive
    /\ ~flag[r]
    /\ ~expired[r]

\* Mutant: a cancelled request is taken for one that lost its session.
LostAuthorityOnCancel(r) ==
    lockActive \/ state # "Unlocked" \/ epoch # reqEpoch[r] \/ flag[r]

\* The part of post_secret_operation that clears the session.
LostAuthority(r) == lockActive \/ state # "Unlocked" \/ epoch # reqEpoch[r]

\* Mutant: the deadline is polled by should_abort but not looked at afterwards.
PostOutcomeIgnoresDeadline(r) ==
    IF flag[r] THEN "cancelled"
    ELSE IF outcome[r] = "aborted" THEN "internal" ELSE outcome[r]

\* The rest of post_secret_operation, and abort_after_core: an abort that
\* nothing explains is an internal error.
PostOutcome(r) ==
    IF flag[r] THEN "cancelled"
    ELSE IF expired[r] THEN "deadline"
    ELSE IF outcome[r] = "aborted" THEN "internal" ELSE outcome[r]

\* Mutant: a mutation does not ask for the session before it starts.
OperationUnchecked == TRUE

\* require_operation of VaultAgent
RequireOperation == core = "unlocked"

\* windows_hello_terminal_abort and the checks of unlock_vault after the core:
\* only the Windows Hello handler also looks at lock_active.
UnlockCancelled(r) == flag[r] \/ (op[r] = "UnlockWindowsHello" /\ lockActive)

\* should_abort of cleanup_recovered_passkey_creations
CleanupAborted(r) == lockActive \/ state # "Unlocking" \/ flag[r] \/ expired[r]

\* recovered_passkey_cleanup_outcome
CleanupOutcome(r) ==
    IF lockActive \/ state # "Unlocking" \/ flag[r] THEN "cancelled"
    ELSE IF expired[r] THEN "deadline" ELSE "failed"

\* outcome_is_still_authorized
StillAuthorized(r) ==
    IF op[r] \in {"Status", "Lock"}
      THEN outcome[r] = "ok"
      ELSE /\ ~lockActive
           /\ state = "Unlocked"
           /\ op[r] \in EpochBound => epoch = reqEpoch[r]

\* Mutant: nothing is checked again before the response is written.
ResponseUnchecked(r) == IF conn[r] = "Cancelled" THEN "cancelled" ELSE outcome[r]

\* Mutant: the response looks at the agent's state, not at the epoch or the flag.
ResponseTrustsState(r) ==
    IF conn[r] = "Cancelled" THEN "cancelled"
    ELSE IF outcome[r] \notin {"ok", "notFound"} \/ op[r] \in {"Status", "Lock"} THEN outcome[r]
    ELSE IF state = "Unlocked" /\ ~lockActive THEN outcome[r] ELSE "locked"

\* The response finish_dispatch writes: a committed outcome is final, any other
\* success or not_found gives way to cancellation, deadline and lost authority.
Response(r) ==
    IF outcome[r] = "committed" THEN "committed"
    ELSE IF conn[r] = "Cancelled" THEN "cancelled"
    ELSE IF outcome[r] \notin {"ok", "notFound"} THEN outcome[r]
    ELSE IF flag[r] /\ op[r] # "Lock" THEN "cancelled"
    ELSE IF expired[r] THEN "deadline"
    ELSE IF StillAuthorized(r) THEN outcome[r] ELSE "locked"

(***************************************************************************)
(* Admission and completion.                                               *)
(***************************************************************************)
\* begin_request, with the epoch read before the commit gate is taken.  The
\* client sends the epoch it last saw, which matters to some operations only.  A
\* request that needs the current epoch and does not have it is answered "locked".
Begin(r) ==
    /\ pc[r] = "idle"
    /\ \E e \in IF op[r] \in EpochBound \cup {"UnlockWindowsHello"}
               THEN 1..epoch ELSE {epoch} :
        /\ reqEpoch' = [reqEpoch EXCEPT ![r] = e]
        /\ IF op[r] \in EpochBound /\ e # epoch
             THEN /\ Goto(r, "reject")
                  /\ UNCHANGED conn
             ELSE /\ Goto(r, "register")
                  /\ conn' = [conn EXCEPT ![r] = "Active"]
    /\ UNCHANGED <<lifecycle, gates, permits, op, expired, flag, target, shut, history>>

\* A rejected request is answered under the gate.
Reject(r) ==
    /\ pc[r] = "reject"
    /\ commitGate = NoOne
    /\ Leave(r, "done")
    /\ UNCHANGED <<lifecycle, gates, permits, op, target, shut, history>>

\* Mutant: a cancel frame that came before the registration is forgotten.
RegisterForgetsCancel(r) ==
    /\ pc[r] = "register"
    /\ commitGate = NoOne
    /\ Goto(r, "execute")
    /\ flag' = [flag EXCEPT ![r] = FALSE]
    /\ UNCHANGED <<lifecycle, gates, permits, op, conn, reqEpoch, expired, target, shut, history>>

\* The rest of admit_request: a global permit, or a "busy" response; the
\* registration starts cancelled if the cancel frame was faster.
Register(r) ==
    /\ pc[r] = "register"
    /\ commitGate = NoOne
    /\ IF Cardinality({q \in Requests : Registered(q)}) >= MaxInFlight
         THEN Leave(r, "done")
         ELSE /\ Goto(r, "execute")
              /\ flag' = [flag EXCEPT ![r] = conn[r] = "Cancelled"]
              /\ UNCHANGED <<conn, reqEpoch, expired>>
    /\ UNCHANGED <<lifecycle, gates, permits, op, target, shut, history>>

\* apply_cancel, and what disconnect does to each request of the connection.
Cancel(r) ==
    /\ "cancel" \in Events
    /\ commitGate = NoOne
    /\ conn[r] = "Active"
    /\ conn' = [conn EXCEPT ![r] = "Cancelled"]
    /\ flag' = [flag EXCEPT ![r] = flag[r] \/ Registered(r)]
    /\ UNCHANGED <<lifecycle, gates, permits, op, pc, reqEpoch, expired, outcome,
                   target, shut, history>>

\* Time passes the deadline of an admitted request.
Expire(r) ==
    /\ "deadline" \in Events
    /\ conn[r] \in {"Active", "Cancelled"}
    /\ ~expired[r]
    /\ expired' = [expired EXCEPT ![r] = TRUE]
    /\ UNCHANGED <<lifecycle, gates, permits, op, pc, reqEpoch, conn, flag, outcome,
                   target, shut, history>>

\* The body is decoded, then execute: Status is answered at once, the others
\* enter their handler.
Execute(r) ==
    /\ pc[r] = "execute"
    /\ \/ Return(r, "invalid")
       \/ IF flag[r] THEN Return(r, "cancelled")
          ELSE IF expired[r] THEN Return(r, "deadline")
          ELSE IF op[r] = "Status" THEN Return(r, "ok")
          ELSE Goto(r, Entry[op[r]]) /\ UNCHANGED <<gates, permits>>
    /\ Quiet

\* finish_dispatch up to the end of the response write, under the gate.  The
\* registration ends with it.  A successful lock keeps lock_active until
\* ReleaseLock.
Finish(r) ==
    /\ pc[r] = "finish"
    /\ commitGate = NoOne
    /\ Leave(r, IF op[r] = "Lock" /\ outcome[r] = "ok" THEN "release" ELSE "done")
    /\ sealed' = IF op[r] = "Lock" /\ Response(r) = "ok" THEN epoch ELSE sealed
    /\ UNCHANGED <<lifecycle, gates, permits, op, target, shut, durable>>

\* The lock transition is dropped after the commit gate.
ReleaseLock(r) ==
    /\ pc[r] = "release"
    /\ lockActive' = FALSE
    /\ Goto(r, "done")
    /\ Frame /\ UNCHANGED <<state, epoch, core, flag, gates, permits>>

(***************************************************************************)
(* Reads (list_accounts, get_account, list_passkeys...) and mutations      *)
(* (Write: add, update and delete account; Passkey: delete_passkey,        *)
(* get_passkey_assertion, whose success is a commit point).                *)
(***************************************************************************)
\* The first check of a read.
Pre(r) ==
    /\ pc[r] = "pre"
    /\ IF ShouldAbort(r)
         THEN Return(r, PreSecret(r))
         ELSE Goto(r, "vault") /\ UNCHANGED <<gates, permits>>
    /\ Quiet

\* A passkey operation checks the platform's proof before it queues.
Verify(r) ==
    /\ pc[r] = "verify"
    /\ IF ShouldAbort(r)
         THEN Return(r, PreSecret(r))
         ELSE \/ \E error \in {"invalid", "failed"} : Return(r, error)
              \/ Goto(r, "mutate") /\ UNCHANGED <<gates, permits>>
    /\ Quiet

\* The mutation permit, the check after it, and the input's validation.
Mutate(r) ==
    /\ pc[r] = "mutate"
    /\ IF mutationActive # NoOne THEN Return(r, "busy")
       ELSE IF ShouldAbort(r) THEN Return(r, PreSecret(r))
       ELSE \/ Return(r, "invalid")
            \/ /\ mutationActive' = r
               /\ Goto(r, "vault")
               /\ UNCHANGED <<gates, kdfActive, helloActive>>
    /\ Quiet

\* The vault mutex, and the check after waiting for it.
TakeVault(r) ==
    /\ pc[r] = "vault"
    /\ vault = NoOne
    /\ IF ShouldAbort(r)
         THEN Return(r, PreSecret(r))
         ELSE /\ vault' = r
              /\ Goto(r, "core")
              /\ UNCHANGED <<commitGate, creationGate, helloGate, permits>>
    /\ Quiet

\* VaultAgent loads and authenticates the snapshot and serves the read or
\* prepares the mutation, polling should_abort on the way.
Core(r) ==
    /\ pc[r] = "core"
    /\ \/ /\ ~RequireOperation
          /\ Pend(r, "locked", "post")
          /\ UNCHANGED <<core, gates>>
       \/ /\ RequireOperation /\ ShouldAbort(r)
          /\ Pend(r, "aborted", "post")
          /\ UNCHANGED <<core, gates>>
       \/ /\ RequireOperation
          /\ \/ Pend(r, "notFound", "post")
             \/ op[r] # "Read" /\ Pend(r, "conflict", "post")
          /\ UNCHANGED <<core, gates>>
       \/ /\ RequireOperation
          /\ IF op[r] = "Read" THEN Pend(r, "ok", "post") ELSE Goto(r, "gate")
          /\ UNCHANGED <<core, gates>>
       \/ /\ RequireOperation /\ "fault" \in Events
          /\ core' = "locked"
          /\ vault' = NoOne
          /\ Goto(r, "fail")
          /\ UNCHANGED <<commitGate, creationGate, helloGate>>
    /\ Frame /\ UNCHANGED <<state, epoch, lockActive, flag, permits>>

\* apply_record_mutation from its before_commit hook on.  A storage error may
\* come before or after SQLite made the mutation durable.
CommitMutation(r) ==
    /\ pc[r] = "gate"
    /\ commitGate = NoOne
    /\ \/ /\ ~CommitAllowed(r)
          /\ Pend(r, "aborted", "post")
          /\ UNCHANGED <<core, gates, permits, durable>>
       \/ /\ CommitAllowed(r)
          /\ durable' = durable \cup {r}
          /\ Return(r, IF op[r] = "Passkey" THEN "committed" ELSE "ok")
          /\ UNCHANGED core
       \/ /\ CommitAllowed(r) /\ "fault" \in Events
          /\ durable' \in {durable, durable \cup {r}}
          /\ core' = "locked"
          /\ vault' = NoOne
          /\ Goto(r, "fail")
          /\ UNCHANGED <<commitGate, creationGate, helloGate, permits>>
    /\ UNCHANGED <<state, epoch, lockActive, flag, request, target, shut, sealed>>

\* post_secret_operation, abort_after_core and the mapping of core errors,
\* with the vault mutex held.
PostSecret(r) ==
    /\ pc[r] = "post"
    /\ IF LostAuthority(r)
         THEN core' = "locked" /\ SetLocked /\ Return(r, "locked")
         ELSE Return(r, PostOutcome(r)) /\ UNCHANGED <<core, state>>
    /\ Frame /\ UNCHANGED <<epoch, lockActive, flag>>

\* Mutant: the epoch ends but the state is left.
FailKeepsState(r) ==
    /\ pc[r] = "fail"
    /\ commitGate = NoOne
    /\ AdvanceEpoch
    /\ Return(r, "failed")
    /\ Frame /\ UNCHANGED <<state, lockActive, core>>

\* account_error_after_core, once it has dropped the vault mutex.
FailAfterCore(r) ==
    /\ pc[r] = "fail"
    /\ commitGate = NoOne
    /\ SetLocked
    /\ AdvanceEpoch
    /\ Return(r, "failed")
    /\ Frame /\ UNCHANGED <<lockActive, core>>

(***************************************************************************)
(* Unlock with the master password or with Windows Hello.                  *)
(***************************************************************************)
\* unlock_vault up to the KDF permit.
Unlock(r) ==
    /\ pc[r] = "unlock"
    /\ IF state = "Unlocking" THEN Return(r, "busy")
       ELSE IF state # "Locked" THEN Return(r, "conflict")
       ELSE IF kdfActive # NoOne THEN Return(r, "busy")
       ELSE \/ Return(r, "invalid")
            \/ /\ kdfActive' = r
               /\ Goto(r, "unlockGate")
               /\ UNCHANGED <<gates, mutationActive, helloActive>>
    /\ Quiet

\* The transition to Unlocking, under the commit gate.
UnlockGate(r) ==
    /\ pc[r] = "unlockGate"
    /\ commitGate = NoOne
    /\ IF lockActive THEN Return(r, "busy") /\ UNCHANGED state
       ELSE IF state # "Locked" THEN Return(r, "conflict") /\ UNCHANGED state
       ELSE /\ state' = "Unlocking"
            /\ Goto(r, "unlockVault")
            /\ UNCHANGED <<gates, permits>>
    /\ Frame /\ UNCHANGED <<epoch, lockActive, core, flag>>

\* unlock_windows_hello up to the Hello permit.
Hello(r) ==
    /\ pc[r] = "hello"
    /\ IF state = "Unlocking" THEN Return(r, "busy")
       ELSE IF state # "Locked" THEN Return(r, "conflict")
       ELSE IF helloActive # NoOne THEN Return(r, "busy")
       ELSE /\ helloActive' = r
            /\ Goto(r, "helloGate")
            /\ UNCHANGED <<gates, mutationActive, kdfActive>>
    /\ Quiet

\* The Hello gate, then the enrolled state: it may be missing or unreadable,
\* and removing when nothing is enrolled succeeds.
TakeHelloGate(r) ==
    /\ pc[r] = "helloGate"
    /\ helloGate = NoOne
    /\ \/ Return(r, "failed")
       \/ op[r] = "RemoveWindowsHello" /\ Return(r, "ok")
       \/ /\ helloGate' = r
          /\ Goto(r, IF op[r] = "UnlockWindowsHello" THEN "helloBegin" ELSE "removeCheck")
          /\ UNCHANGED <<commitGate, vault, creationGate, permits>>
    /\ Quiet

\* The transition to Unlocking of a Windows Hello unlock.
HelloBegin(r) ==
    /\ pc[r] = "helloBegin"
    /\ commitGate = NoOne
    /\ IF UnlockCancelled(r) THEN Return(r, "cancelled") /\ UNCHANGED state
       ELSE IF expired[r] THEN Return(r, "deadline") /\ UNCHANGED state
       ELSE IF epoch # reqEpoch[r] THEN Return(r, "locked") /\ UNCHANGED state
       ELSE IF state # "Locked" THEN Return(r, "conflict") /\ UNCHANGED state
       ELSE /\ state' = "Unlocking"
            /\ Goto(r, "ceremony")
            /\ UNCHANGED <<gates, permits>>
    /\ Frame /\ UNCHANGED <<epoch, lockActive, core, flag>>

\* run_windows_hello_ceremony and the checks on its result.
Ceremony(r) ==
    /\ pc[r] = "ceremony"
    /\ \/ \E error \in {"cancelled", "failed"} : Pend(r, error, "setLocked")
       \/ IF UnlockCancelled(r) THEN Pend(r, "cancelled", "setLocked")
          ELSE IF expired[r] THEN Pend(r, "deadline", "setLocked")
          ELSE IF epoch # reqEpoch[r] \/ state # "Unlocking"
                 THEN Pend(r, "cancelled", "setLocked")
          ELSE Goto(r, "unlockVault")
    /\ Quiet /\ UNCHANGED <<gates, permits>>

\* unlock_with_core takes the vault mutex and clears the session first.
UnlockVault(r) ==
    /\ pc[r] = "unlockVault"
    /\ vault = NoOne
    /\ vault' = r
    /\ core' = "locked"
    /\ Goto(r, "kdf")
    /\ Frame /\ UNCHANGED <<state, epoch, lockActive, flag, commitGate, creationGate,
                            helloGate, permits>>

\* The core unlock ends: it installs a session unless it is cancelled or fails.
Kdf(r) ==
    /\ pc[r] = "kdf"
    /\ vault' = NoOne
    /\ \/ flag[r] /\ Pend(r, "cancelled", "unlocked") /\ UNCHANGED core
       \/ ~flag[r] /\ Pend(r, "ok", "unlocked") /\ core' = "unlocked"
       \/ Pend(r, "failed", "unlocked") /\ UNCHANGED core
    /\ Frame /\ UNCHANGED <<state, epoch, lockActive, flag, commitGate, creationGate,
                            helloGate, permits>>

\* The checks after the core has returned and the vault mutex is released.
AfterCore(r) ==
    /\ pc[r] = "unlocked"
    /\ IF UnlockCancelled(r) THEN Pend(r, "cancelled", "relock")
       ELSE IF expired[r] THEN Pend(r, "deadline", "relock")
       ELSE Goto(r, IF outcome[r] = "ok" THEN "cleanup" ELSE "setLocked")
    /\ Quiet /\ UNCHANGED <<gates, permits>>

\* A failed unlock clears the session, then the state, as two steps.
Relock(r) ==
    /\ pc[r] = "relock"
    /\ vault = NoOne
    /\ core' = "locked"
    /\ Goto(r, "setLocked")
    /\ Frame /\ UNCHANGED <<state, epoch, lockActive, flag, gates, permits>>

UnlockFailed(r) ==
    /\ pc[r] = "setLocked"
    /\ SetLocked
    /\ Return(r, outcome[r])
    /\ Frame /\ UNCHANGED <<epoch, lockActive, core, flag>>

\* cleanup_recovered_passkey_creations lists the pending passkeys of the vault,
\* with the vault mutex held meanwhile.
Cleanup(r) ==
    /\ pc[r] = "cleanup"
    /\ vault = NoOne
    /\ \/ /\ core = "locked" \/ CleanupAborted(r)
          /\ Pend(r, CleanupOutcome(r), "relock")
          /\ UNCHANGED core
       \/ /\ core = "unlocked"
          /\ Goto(r, "publish")
          /\ UNCHANGED core
       \/ /\ core = "unlocked" /\ "pending" \in Events
          /\ Goto(r, "cleanupVault")
          /\ UNCHANGED core
       \/ /\ core = "unlocked" /\ "fault" \in Events
          /\ core' = "locked"
          /\ Pend(r, "failed", "relock")
    /\ Frame /\ UNCHANGED <<state, epoch, lockActive, flag, gates, permits>>

\* A pending passkey (one is enough here) leaves the platform's cache, or is
\* skipped when that fails; then its deletion takes the vault mutex again.
CleanupVault(r) ==
    /\ pc[r] = "cleanupVault"
    /\ \/ CleanupAborted(r) /\ Pend(r, CleanupOutcome(r), "relock") /\ UNCHANGED vault
       \/ Goto(r, "publish") /\ UNCHANGED vault
       \/ /\ vault = NoOne /\ core = "locked"
          /\ Pend(r, CleanupOutcome(r), "relock")
          /\ UNCHANGED vault
       \/ /\ vault = NoOne /\ core = "unlocked"
          /\ vault' = r
          /\ Goto(r, "cleanupGate")
    /\ Quiet /\ UNCHANGED <<commitGate, creationGate, helloGate, permits>>

\* The deletion's before_commit hook and commit.
CleanupGate(r) ==
    /\ pc[r] = "cleanupGate"
    /\ commitGate = NoOne
    /\ vault' = NoOne
    /\ \/ /\ CleanupAborted(r)
          /\ Pend(r, CleanupOutcome(r), "relock")
          /\ UNCHANGED core
       \/ /\ ~CleanupAborted(r)
          /\ Goto(r, "publish")
          /\ UNCHANGED core
       \/ /\ "fault" \in Events
          /\ core' = "locked"
          /\ Pend(r, "failed", "relock")
    /\ Frame /\ UNCHANGED <<state, epoch, lockActive, flag, commitGate, creationGate,
                            helloGate, permits>>

\* publish_authenticated_unlock up to its compare_exchange.  Binding the file
\* ownership or the idempotency cache may fail.
Publish(r) ==
    /\ pc[r] = "publish"
    /\ commitGate = NoOne
    /\ commitGate' = r
    /\ IF lockActive \/ flag[r] \/ state # "Unlocking"
         THEN Pend(r, "cancelled", "publishAbort") /\ UNCHANGED <<epoch, flag>>
       ELSE IF expired[r]
         THEN Pend(r, "deadline", "publishAbort") /\ UNCHANGED <<epoch, flag>>
       ELSE \/ Pend(r, "failed", "publishAbort") /\ UNCHANGED <<epoch, flag>>
            \/ AdvanceEpochOnly /\ Goto(r, "publishCas")
    /\ Frame /\ UNCHANGED <<state, lockActive, core, vault, creationGate, helloGate, permits>>

PublishCas(r) ==
    /\ pc[r] = "publishCas"
    /\ IF state = "Unlocking"
         THEN state' = "Unlocked" /\ Return(r, "ok")
         ELSE Pend(r, "cancelled", "publishAbort") /\ UNCHANGED <<state, gates, permits>>
    /\ Frame /\ UNCHANGED <<epoch, lockActive, core, flag>>

\* Mutants: a refused publication keeps the session, or tries again.
PublishAbortKeepsSession(r) ==
    /\ pc[r] = "publishAbort"
    /\ vault = NoOne
    /\ SetLocked
    /\ Return(r, outcome[r])
    /\ Frame /\ UNCHANGED <<epoch, lockActive, core, flag>>

PublishAbortRetries(r) ==
    /\ pc[r] = "publishAbort"
    /\ commitGate' = NoOne
    /\ Goto(r, "publish")
    /\ Quiet /\ UNCHANGED <<vault, creationGate, helloGate, permits>>

\* A refused publication clears the session while it holds the commit gate.
PublishAbort(r) ==
    /\ pc[r] = "publishAbort"
    /\ vault = NoOne
    /\ core' = "locked"
    /\ SetLocked
    /\ Return(r, outcome[r])
    /\ Frame /\ UNCHANGED <<epoch, lockActive, flag>>

(***************************************************************************)
(* remove_windows_hello.                                                   *)
(***************************************************************************)
Remove(r) ==
    /\ pc[r] = "remove"
    /\ IF ShouldAbort(r) THEN Return(r, PreSecret(r))
       ELSE IF helloActive # NoOne THEN Return(r, "busy")
       ELSE /\ helloActive' = r
            /\ Goto(r, "helloGate")
            /\ UNCHANGED <<gates, mutationActive, kdfActive>>
    /\ Quiet

\* The enrolled vault must be the unlocked one.
RemoveCheck(r) ==
    /\ pc[r] = "removeCheck"
    /\ vault = NoOne
    /\ IF core = "locked" THEN Return(r, "failed")
       ELSE IF ShouldAbort(r) THEN Return(r, PreSecret(r))
       ELSE Goto(r, "removeGate") /\ UNCHANGED <<gates, permits>>
    /\ Quiet

\* Mutant: the commit gate is released after the check.
RemoveGateReleased(r) ==
    /\ pc[r] = "removeGate"
    /\ commitGate = NoOne
    /\ IF ShouldAbort(r)
         THEN Return(r, PreSecret(r))
         ELSE Goto(r, "removeVault") /\ UNCHANGED <<gates, permits>>
    /\ Quiet

RemoveGate(r) ==
    /\ pc[r] = "removeGate"
    /\ commitGate = NoOne
    /\ IF ShouldAbort(r)
         THEN Return(r, PreSecret(r))
         ELSE /\ commitGate' = r
              /\ Goto(r, "removeVault")
              /\ UNCHANGED <<vault, creationGate, helloGate, permits>>
    /\ Quiet

\* The second look at the vault waits for its mutex with the commit gate held;
\* then the credential and the local state are removed.
RemoveVault(r) ==
    /\ pc[r] = "removeVault"
    /\ vault = NoOne
    /\ \/ Return(r, "failed")
       \/ core = "unlocked" /\ Return(r, "committed")
    /\ Quiet

(***************************************************************************)
(* create_vault.                                                           *)
(***************************************************************************)
Create(r) ==
    /\ pc[r] = "create"
    /\ IF state # "NoVault" THEN Return(r, "conflict")
       ELSE IF mutationActive # NoOne THEN Return(r, "busy")
       ELSE /\ mutationActive' = r
            /\ Goto(r, "createGate")
            /\ UNCHANGED <<gates, kdfActive, helloActive>>
    /\ Quiet

\* The creation gate is held from here to the end: lock and shutdown drain it.
CreateGate(r) ==
    /\ pc[r] = "createGate"
    /\ creationGate = NoOne
    /\ IF flag[r] THEN Return(r, "cancelled") /\ UNCHANGED reqEpoch
       ELSE IF expired[r] THEN Return(r, "deadline") /\ UNCHANGED reqEpoch
       ELSE IF lockActive THEN Return(r, "busy") /\ UNCHANGED reqEpoch
       ELSE \/ Return(r, "invalid") /\ UNCHANGED reqEpoch
            \/ /\ creationGate' = r
               /\ reqEpoch' = [reqEpoch EXCEPT ![r] = epoch]
               /\ Goto(r, "createStage")
               /\ UNCHANGED <<commitGate, vault, helloGate, permits>>
    /\ UNCHANGED <<lifecycle, op, conn, expired, flag, target, shut, history>>

\* What create_vault answers when create_with_before_publish fails.
CreateFailure(r) ==
    IF flag[r] THEN "cancelled" ELSE IF expired[r] THEN "deadline" ELSE "failed"

\* Staging fails on its own, or the file exists already.
CreateStageFails(r) ==
    /\ pc[r] = "createStage"
    /\ \/ Return(r, CreateFailure(r))
       \/ Return(r, "conflict")
    /\ Quiet

\* The before_publish hook, then the publication of the staged file.
CreatePublish(r) ==
    /\ pc[r] = "createStage"
    /\ commitGate = NoOne
    /\ IF CommitAllowed(r) /\ state = "NoVault"
         THEN /\ commitGate' = r
              /\ Goto(r, "createInstall")
              /\ UNCHANGED <<vault, creationGate, helloGate, permits>>
         ELSE Return(r, CreateFailure(r))
    /\ Quiet

\* The created vault is installed, unlocked, under the commit gate.
CreateInstall(r) ==
    /\ pc[r] = "createInstall"
    /\ vault = NoOne
    /\ core' = "unlocked"
    /\ AdvanceEpochOnly
    /\ state' = "Unlocked"
    /\ Return(r, "ok")
    /\ Frame /\ UNCHANGED lockActive

(***************************************************************************)
(* lock_vault: cancel first, then drain creation, Windows Hello and the    *)
(* vault mutex, then clear the session.                                    *)
(***************************************************************************)
\* Mutant: the transition keeps whatever state it found.
LockTargetKeepsState == state

\* target_state of lock_vault
LockTarget == IF state \in {"NoVault", "ShuttingDown"} THEN state ELSE "Locked"

LockBegin(r) ==
    /\ pc[r] = "lock"
    /\ commitGate = NoOne
    /\ IF lockActive
         THEN /\ Return(r, "busy")
              /\ UNCHANGED <<state, epoch, lockActive, flag, target>>
         ELSE /\ lockActive' = TRUE
              /\ target' = LockTarget
              /\ state' = LockTarget
              /\ AdvanceEpoch
              /\ Goto(r, "lockCreation")
              /\ UNCHANGED <<gates, permits>>
    /\ UNCHANGED <<core, request, shut, history>>

LockCreation(r) ==
    /\ pc[r] = "lockCreation"
    /\ creationGate = NoOne
    /\ creationGate' = r
    /\ Goto(r, "lockHello")
    /\ Quiet /\ UNCHANGED <<commitGate, vault, helloGate, permits>>

LockHello(r) ==
    /\ pc[r] = "lockHello"
    /\ helloGate = NoOne
    /\ helloGate' = r
    /\ Goto(r, "lockVault")
    /\ Quiet /\ UNCHANGED <<commitGate, vault, creationGate, permits>>

LockVault(r) ==
    /\ pc[r] = "lockVault"
    /\ vault = NoOne
    /\ core' = "locked"
    /\ Goto(r, "lockRead")
    /\ Frame /\ UNCHANGED <<state, epoch, lockActive, flag, gates, permits>>

\* lock_vault reads the state outside the commit gate...
LockRead(r) ==
    /\ pc[r] = "lockRead"
    /\ IF state = "ShuttingDown"
         THEN Return(r, "ok")
         ELSE Goto(r, "lockStore") /\ UNCHANGED <<gates, permits>>
    /\ Quiet

\* ... and stores the target state later; lock_active is handed to Finish.
LockStore(r) ==
    /\ pc[r] = "lockStore"
    /\ state' = target
    /\ Return(r, "ok")
    /\ Frame /\ UNCHANGED <<epoch, lockActive, core, flag>>

(***************************************************************************)
(* shutdown, on the main thread.                                           *)
(***************************************************************************)
ShutdownBegin ==
    /\ "shutdown" \in Events
    /\ shut = "run"
    /\ commitGate = NoOne
    /\ lockActive' = TRUE
    /\ state' = "ShuttingDown"
    /\ AdvanceEpoch
    /\ shut' = "creation"
    /\ UNCHANGED <<core, gates, permits, request, pc, outcome, target, history>>

ShutdownCreation ==
    /\ shut = "creation"
    /\ creationGate = NoOne
    /\ creationGate' = MainThread
    /\ shut' = "hello"
    /\ UNCHANGED <<lifecycle, commitGate, vault, helloGate, permits, request, pc, flag,
                   outcome, target, history>>

ShutdownHello ==
    /\ shut = "hello"
    /\ helloGate = NoOne
    /\ helloGate' = MainThread
    /\ shut' = "vault"
    /\ UNCHANGED <<lifecycle, commitGate, vault, creationGate, permits, request, pc, flag,
                   outcome, target, history>>

ShutdownVault ==
    /\ shut = "vault"
    /\ vault = NoOne
    /\ core' = "locked"
    /\ shut' = "store"
    /\ UNCHANGED <<state, epoch, lockActive, gates, permits, request, pc, flag, outcome,
                   target, history>>

ShutdownStore ==
    /\ shut = "store"
    /\ state' = "ShuttingDown"
    /\ creationGate' = NoOne
    /\ helloGate' = NoOne
    /\ shut' = "done"
    /\ UNCHANGED <<epoch, lockActive, core, commitGate, vault, permits, request, pc, flag,
                   outcome, target, history>>

Shutdown ==
    \/ ShutdownBegin \/ ShutdownCreation \/ ShutdownHello \/ ShutdownVault \/ ShutdownStore

-----------------------------------------------------------------------------
\* The agent starts with or without a vault, locked, at epoch 1.
Init ==
    /\ state \in {"NoVault", "Locked"}
    /\ epoch = 1
    /\ lockActive = FALSE
    /\ core = "locked"
    /\ commitGate = NoOne /\ vault = NoOne /\ creationGate = NoOne /\ helloGate = NoOne
    /\ mutationActive = NoOne /\ kdfActive = NoOne /\ helloActive = NoOne
    /\ op \in {o \in [Requests -> AllOps] : \A r \in Requests : o[r] \in Plan[r]}
    /\ pc = [r \in Requests |-> "idle"]
    /\ reqEpoch = [r \in Requests |-> 0]
    /\ conn = [r \in Requests |-> "None"]
    /\ flag = [r \in Requests |-> FALSE]
    /\ expired = [r \in Requests |-> FALSE]
    /\ outcome = [r \in Requests |-> "none"]
    /\ target = "Locked"
    /\ shut = "run"
    /\ durable = {}
    /\ sealed = 0

\* What the worker thread of r does.
Dispatch(r) ==
    \/ Reject(r) \/ Register(r) \/ Execute(r) \/ Finish(r) \/ ReleaseLock(r)

Access(r) ==
    \/ Pre(r) \/ Verify(r) \/ Mutate(r) \/ TakeVault(r) \/ Core(r)
    \/ CommitMutation(r) \/ PostSecret(r) \/ FailAfterCore(r)

UnlockSteps(r) ==
    \/ Unlock(r) \/ UnlockGate(r) \/ Hello(r) \/ TakeHelloGate(r) \/ HelloBegin(r)
    \/ Ceremony(r) \/ UnlockVault(r) \/ Kdf(r) \/ AfterCore(r) \/ Relock(r)
    \/ UnlockFailed(r) \/ Cleanup(r) \/ CleanupVault(r) \/ CleanupGate(r)
    \/ Publish(r) \/ PublishCas(r) \/ PublishAbort(r)

RemoveSteps(r) == Remove(r) \/ RemoveCheck(r) \/ RemoveGate(r) \/ RemoveVault(r)

CreateSteps(r) ==
    \/ Create(r) \/ CreateGate(r) \/ CreateStageFails(r) \/ CreatePublish(r)
    \/ CreateInstall(r)

LockSteps(r) ==
    \/ LockBegin(r) \/ LockCreation(r) \/ LockHello(r) \/ LockVault(r) \/ LockRead(r)
    \/ LockStore(r)

Worker(r) ==
    \/ Dispatch(r) \/ Access(r) \/ UnlockSteps(r) \/ RemoveSteps(r) \/ CreateSteps(r)
    \/ LockSteps(r)

\* Every request that was sent has been served, and shutdown is not half way.
Rest ==
    /\ \A r \in Requests : pc[r] = "done"
    /\ shut \in {"run", "done"}
    /\ UNCHANGED vars

Next ==
    \/ \E r \in Requests : Begin(r) \/ Worker(r) \/ Cancel(r) \/ Expire(r)
    \/ Shutdown
    \/ Rest

Spec == Init /\ [][Next]_vars

\* A runnable thread is eventually scheduled and a free mutex eventually
\* reaches its waiters.  Clients, cancellation and shutdown owe nothing.
FairSpec ==
    /\ Spec
    /\ \A r \in Requests : WF_vars(Worker(r))
    /\ WF_vars(ShutdownCreation \/ ShutdownHello \/ ShutdownVault \/ ShutdownStore)

-----------------------------------------------------------------------------
(***************************************************************************)
(* Properties.                                                             *)
(***************************************************************************)
\* The variables keep their types.
TypeOK ==
    /\ state \in AgentStates
    /\ epoch \in Nat \ {0}
    /\ lockActive \in BOOLEAN
    /\ core \in {"locked", "unlocked"}
    /\ commitGate \in Requests \cup {NoOne}
    /\ vault \in Requests \cup {NoOne}
    /\ creationGate \in Threads \cup {NoOne}
    /\ helloGate \in Threads \cup {NoOne}
    /\ mutationActive \in Requests \cup {NoOne}
    /\ kdfActive \in Requests \cup {NoOne}
    /\ helloActive \in Requests \cup {NoOne}
    /\ op \in [Requests -> AllOps]
    /\ pc \in [Requests -> Labels]
    /\ reqEpoch \in [Requests -> Nat]
    /\ conn \in [Requests -> {"None", "Active", "Cancelled"}]
    /\ flag \in [Requests -> BOOLEAN]
    /\ expired \in [Requests -> BOOLEAN]
    /\ outcome \in [Requests -> Outcomes]
    /\ target \in {"NoVault", "Locked", "ShuttingDown"}
    /\ shut \in {"run", "creation", "hello", "vault", "store", "done"}
    /\ durable \in SUBSET Requests
    /\ sealed \in Nat

\* Does r still hold the lock transition it acquired in lock_vault?
HoldsTransition(r) ==
    \/ pc[r] \in {"lockCreation", "lockHello", "lockVault", "lockRead", "lockStore", "release"}
    \/ pc[r] = "finish" /\ op[r] = "Lock" /\ outcome[r] = "ok"

\* From the moment lock_vault has cleared the session until its response is on
\* the wire, no key is in memory and no unlock has been published: an unlock or
\* create that was under way when the lock arrived cannot install its session in
\* the gap before the acknowledgement.
AcknowledgedLockIsClear ==
    \A r \in Requests :
        HoldsTransition(r) /\ pc[r] \notin {"lockCreation", "lockHello", "lockVault"} =>
            core = "locked" /\ state \notin {"Unlocking", "Unlocked"}

\* Does this step write one of these responses for r?
Answered(r, responses) ==
    /\ pc[r] = "finish" /\ pc'[r] # "finish"
    /\ Response(r) \in responses

\* Once a lock has been acknowledged, no request bound to an epoch up to that
\* moment makes a mutation durable, or has data or an authenticated not_found
\* written, whatever it was waiting for when the lock came (a commit point that
\* was passed before the lock is the exception finish_dispatch makes).
SealedEpochsAreDead ==
    [][\A r \in Requests :
          \/ r \in durable' \ durable
          \/ Answered(r, {"ok", "notFound"}) /\ op[r] \in EpochBound
          => reqEpoch[r] > sealed]_vars

\* A mutation reaches the vault file only while the core still holds the
\* authenticated session: no lock, failed unlock or storage failure has cleared it
\* between the handler's checks and SQLite's commit.
CommitNeedsSession ==
    [][durable' # durable => core = "unlocked"]_vars

\* abort_after_core turns an abort nobody can explain any more into a
\* connection-fatal internal error.  Whatever made the core abort is still
\* visible to post_secret_operation, so that never happens.
AbortIsExplained ==
    \A r \in Requests : outcome[r] # "internal"

\* A cancel frame or disconnect that was accepted before a mutation committed,
\* even before its worker was registered, keeps the mutation out of the file.
CancelBeatsCommit ==
    [][\A r \in durable' \ durable : conn[r] = "Active"]_vars

\* Windows Hello credentials are removed only in the epoch that asked for it and
\* with no lock begun: the check made when the commit gate was taken has not gone
\* stale when the platform is called, after the second wait for the vault mutex.
RemovalIsAuthorized ==
    [][\A r \in Requests :
          pc[r] = "removeVault" /\ outcome'[r] = "committed" =>
              epoch = reqEpoch[r] /\ ~lockActive]_vars

\* When shutdown has returned the agent stays ShuttingDown: no lock, unlock or
\* create that was still running stores another state over it.
ShutdownIsFinal ==
    shut = "done" => state = "ShuttingDown"

\* When shutdown has returned the vault is locked: the comment on shutdown says it
\* locks and cancels all work before the agent goes away.
ShutdownLeavesNoKey ==
    shut = "done" => core = "locked"

\* An unlocked session ends only together with its epoch (lock, shutdown, storage
\* failure): an attempt to unlock that has already lost cannot end it.
SessionEndsWithItsEpoch ==
    [][state = "Unlocked" /\ state' # "Unlocked" => epoch' # epoch]_vars

\* A passkey answer, a signature among them, is not written for an epoch that an
\* acknowledged lock has closed.
SignaturesStopAtLock ==
    [][\A r \in Requests :
          Answered(r, {"committed"}) /\ op[r] = "Passkey" => reqEpoch[r] > sealed]_vars

\* A success that unlock or create reports is true when it is written: the
\* core holds a session at that moment.
UnlockReplyIsTrue ==
    [][\A r \in Requests :
          Answered(r, {"ok"}) /\ op[r] \in Unlocks \cup {"CreateVault"}
          => core = "unlocked"]_vars

\* Is no request in a handler and no shutdown under way?
Settled ==
    /\ \A r \in Requests : ~Registered(r)
    /\ shut = "run"

\* Between requests the advertised state tells the truth about the key: the core
\* holds a session exactly when the agent says Unlocked.
SettledStateMatchesCore ==
    Settled => (core = "unlocked" <=> state = "Unlocked")

\* Every admitted request is answered: no worker waits for ever for a gate.
EveryRequestIsAnswered ==
    \A r \in Requests : pc[r] # "idle" ~> pc[r] = "done"

\* A lock that was requested is acknowledged.
LockIsAcknowledged ==
    \A r \in {q \in Requests : "Lock" \in Plan[q]} : pc[r] = "lock" ~> pc[r] = "done"

=============================================================================
