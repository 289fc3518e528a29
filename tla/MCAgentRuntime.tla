--------------------------- MODULE MCAgentRuntime ---------------------------
(* Instances of AgentRuntime for TLC: which operation each request may be. *)
EXTENDS AgentRuntimeInv, TLC

CONSTANTS r1, r2, r3, r4

\* An unlock, an access, a lock, and a second unlock or mutation, in any order.
AccessPlan ==
    r1 :> {"UnlockMasterPassword"} @@ r2 :> {"Read", "Write", "Passkey"} @@
    r3 :> {"Lock"} @@ r4 :> {"UnlockMasterPassword", "Write"}

\* One unlock, one access and one lock, which cancel frames and deadlines hit.
InterruptPlan ==
    r1 :> {"UnlockMasterPassword"} @@ r2 :> {"Read", "Write", "Passkey"} @@ r3 :> {"Lock"}

\* Two accesses, of which one may fail in the core, and a lock.
FaultPlan ==
    r1 :> {"UnlockMasterPassword"} @@ r2 :> {"Read", "Write"} @@ r3 :> {"Lock", "Write"}

\* Windows Hello in place of the password, and the removal of its enrollment.
HelloPlan ==
    r1 :> {"UnlockWindowsHello"} @@ r2 :> {"RemoveWindowsHello", "UnlockWindowsHello"} @@
    r3 :> {"Lock", "Read"}

\* Creation beside a lock, with a client that asks for the status or tries again.
CreatePlan ==
    r1 :> {"CreateVault"} @@ r2 :> {"Lock"} @@ r3 :> {"CreateVault", "Status", "Read"}

\* Both kinds of unlock around one lock.
TwoUnlocksPlan ==
    r1 :> {"UnlockMasterPassword"} @@ r2 :> {"UnlockWindowsHello"} @@ r3 :> {"Lock"}

\* A read that fails late, with a lock and a second unlock meanwhile.
LateFailurePlan ==
    r1 :> {"UnlockMasterPassword"} @@ r2 :> {"Read"} @@ r3 :> {"Lock"} @@
    r4 :> {"UnlockMasterPassword"}

\* A passkey operation and a lock.
SignaturePlan ==
    r1 :> {"UnlockMasterPassword"} @@ r2 :> {"Passkey"} @@ r3 :> {"Lock"}

\* Removing the Windows Hello enrollment beside a mutation, then a lock.
RemovalPlan ==
    r1 :> {"UnlockMasterPassword"} @@ r2 :> {"Write"} @@ r3 :> {"RemoveWindowsHello"} @@
    r4 :> {"Lock"}

\* A lock and an unlock or create beside shutdown.
ShutdownPlan ==
    r1 :> {"UnlockMasterPassword", "CreateVault"} @@ r2 :> {"Lock"} @@
    r3 :> {"Read", "UnlockMasterPassword"}
=============================================================================
