---------------------------- MODULE OperationLock ---------------------------
(***************************************************************************)
(* The operation lock of one account in the Python server                  *)
(* (_account_operation_lock in app/services/browser_automation.py), which  *)
(* the finance operations (module Sessions) and the requests of the        *)
(* recharge (module Recharge) take: an asyncio.Lock, which serves in the   *)
(* order in which it is asked for.                                         *)
(***************************************************************************)
EXTENDS Sequences

VARIABLE line  \* who holds the lock, then who waits for it (memory)

\* The lock is free until the first who waits runs: the first in line has it or gets it.
Holds(x) == line # <<>> /\ Head(line) = x
=============================================================================
