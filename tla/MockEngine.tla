---------------------------- MODULE MockEngine ----------------------------
(***************************************************************************)
(* The EWOULDBLOCK handling of the testapp mock engine (src/unnamed/       *)
(* part_003): a test thread calls the engine through the mock_engine      *)
(* wrappers with the cookie's mock_connstruct mutex held; when the engine  *)
(* answers EWOULDBLOCK the thread waits on the cookie's condition         *)
(* variable, and the engine later calls notify_io_complete from another    *)
(* thread.  The mock engine forwards that call to mock_server, which is    *)
(* not in the repository; the model takes it to take the mutex, store the  *)
(* status and signal, and checks nothing that rests on it.                 *)
(*                                                                         *)
(* Wrappers come in three kinds: do_blocking_engine_call (allocate, get,   *)
(* get_if, get_and_touch, get_locked, get_meta), call_engine_and_handle_   *)
(* EWOULDBLOCK (remove, unlock, get_stats, store, flush, unknown_command,  *)
(* the DCP calls) and allocate_ex, which must not block.  A status is      *)
(* "success" or "failure" (any other engine error).  The condition        *)
(* variable may wake a waiter spuriously, as pthread_cond_wait allows.     *)
(***************************************************************************)
EXTENDS Naturals, Sequences

CONSTANTS
    MaxCalls,    \* engine calls made by the test thread
    MaxBlocks    \* EWOULDBLOCK answers per call

Kinds == {"blocking", "handled", "allocate_ex"}
Statuses == {"success", "failure"}

VARIABLES
    mutex,       \* holder of the cookie's mutex: "free" or "test"
    pc,          \* the test thread: "idle", "call", "wait", "waiting", "woken"
    kind,        \* the wrapper in progress
    status,      \* mock_connstruct::status, written by notify_io_complete
    pending,     \* notifications the engine has still to deliver, in order
    nblocks,     \* mock_connstruct::nblocks
    calls,       \* calls made so far
    result,      \* what the last call returned
    handleEwouldblock  \* mock_connstruct::handle_ewouldblock, set by the test

vars == <<mutex, pc, kind, status, pending, nblocks, calls, result,
          handleEwouldblock>>

----------------------------------------------------------------------------
Init ==
    /\ mutex = "free"
    /\ pc = "idle"
    /\ kind = "blocking"
    /\ status = "success"
    /\ pending = <<>>
    /\ nblocks = 0
    /\ calls = 0
    /\ result = "none"
    /\ handleEwouldblock \in BOOLEAN

\* A wrapper starts: nblocks = 0, then cb_mutex_enter, which waits for the
\* mutex and never returns to a thread that already holds it.
Enter(k) ==
    /\ pc = "idle"
    /\ calls < MaxCalls
    /\ mutex = "free"
    /\ mutex' = "test"
    /\ pc' = "call"
    /\ kind' = k
    /\ nblocks' = 0
    /\ calls' = calls + 1
    /\ UNCHANGED <<status, pending, result, handleEwouldblock>>

\* The call returns r, having released the mutex.
Return(r) ==
    /\ pc' = "idle"
    /\ mutex' = "free"
    /\ result' = r

(***************************************************************************)
(* engine_function(): success, another error, or EWOULDBLOCK, after which  *)
(* the engine will notify the cookie with the outcome.  allocate_ex        *)
(* releases the mutex and throws logic_error; with handle_ewouldblock off  *)
(* the wrappers return EWOULDBLOCK; otherwise they count the block and     *)
(* wait.                                                                   *)
(***************************************************************************)
CallEngine ==
    /\ pc = "call"
    /\ \/ \E r \in Statuses :
             /\ Return(r)
             /\ UNCHANGED <<pending, nblocks>>
       \/ /\ nblocks < MaxBlocks
          /\ Len(pending) < MaxBlocks
          /\ \E s \in Statuses : pending' = Append(pending, s)
          /\ \/ /\ kind = "allocate_ex"
                /\ Return("logic_error")
                /\ UNCHANGED nblocks
             \/ /\ kind # "allocate_ex"
                /\ ~handleEwouldblock
                /\ Return("would_block")
                /\ UNCHANGED nblocks
             \/ /\ kind # "allocate_ex"
                /\ handleEwouldblock
                /\ nblocks' = nblocks + 1
                /\ pc' = "wait"
                /\ UNCHANGED <<mutex, result>>
    /\ UNCHANGED <<kind, status, calls, handleEwouldblock>>

\* cb_cond_wait: release the mutex and sleep, atomically.
Wait ==
    /\ pc = "wait"
    /\ pc' = "waiting"
    /\ mutex' = "free"
    /\ UNCHANGED <<kind, status, pending, nblocks, calls, result,
                   handleEwouldblock>>

\* notify_io_complete on the engine's thread, forwarded to mock_server:
\* assumed to store the status under the mutex and signal the condition
\* variable (lost if nobody waits).
NotifyIOComplete ==
    /\ pending # <<>>
    /\ mutex = "free"
    /\ status' = Head(pending)
    /\ pending' = Tail(pending)
    /\ pc' = IF pc = "waiting" THEN "woken" ELSE pc
    /\ UNCHANGED <<mutex, kind, nblocks, calls, result, handleEwouldblock>>

\* A spurious wakeup.
SpuriousWakeup ==
    /\ pc = "waiting"
    /\ pc' = "woken"
    /\ UNCHANGED <<mutex, kind, status, pending, nblocks, calls, result,
                   handleEwouldblock>>

(***************************************************************************)
(* cb_cond_wait returns with the mutex re-taken and the wrapper looks at   *)
(* c->status.  Both loops call the engine again on success.  On failure,   *)
(* call_engine_and_handle_EWOULDBLOCK leaves the loop and unlocks;         *)
(* do_blocking_engine_call returns at once, still holding the mutex.       *)
(***************************************************************************)
Woken ==
    /\ pc = "woken"
    /\ mutex = "free"
    /\ \/ /\ status = "success"
          /\ pc' = "call"
          /\ mutex' = "test"
          /\ UNCHANGED result
       \/ /\ status # "success"
          /\ kind = "handled"
          /\ Return(status)
       \/ /\ status # "success"
          /\ kind = "blocking"
          /\ pc' = "idle"
          /\ mutex' = "test"
          /\ result' = status
    /\ UNCHANGED <<kind, status, pending, nblocks, calls, handleEwouldblock>>

Next ==
    \/ \E k \in Kinds : Enter(k)
    \/ CallEngine
    \/ Wait
    \/ NotifyIOComplete
    \/ SpuriousWakeup
    \/ Woken

Spec == Init /\ [][Next]_vars

----------------------------------------------------------------------------
TypeOK ==
    /\ mutex \in {"free", "test"}
    /\ pc \in {"idle", "call", "wait", "waiting", "woken"}
    /\ kind \in Kinds
    /\ status \in Statuses
    /\ pending \in Seq(Statuses)
    /\ nblocks \in 0 .. MaxBlocks
    /\ calls \in 0 .. MaxCalls
    /\ result \in Statuses \cup {"none", "logic_error", "would_block"}
    /\ handleEwouldblock \in BOOLEAN

====
