---------------------------- MODULE CancelTokens ----------------------------
(***************************************************************************)
(* The process-wide cancellation state of utils::engine_cancel: the ROOT   *)
(* and CATALOG tokens, the SHUTDOWN latch and SHUTDOWN_NOTIFY, with the    *)
(* steps that change them.  Components that cancel or are cancelled extend *)
(* this module and compose these steps with their own.                     *)
(*                                                                         *)
(* A CancellationToken that the code stores in ROOT (or CATALOG) is its    *)
(* generation, a number that no other stored token has; a child token is   *)
(* the generation of its parent, and is cancelled when that is dead.       *)
(* tokio's Notified future is the number of notify_waiters calls that were *)
(* made before it was created: any later call completes it, whether or not *)
(* it has been polled in between.                                          *)
(***************************************************************************)
EXTENDS Naturals

VARIABLES root,         \* generation of the token in ROOT
          deadRoots,    \* generations of ROOT that were cancelled
          catalog,      \* generation of the token in CATALOG
          deadCatalogs, \* generations of CATALOG that were cancelled
          shutdown,     \* SHUTDOWN
          notified      \* notify_waiters calls on SHUTDOWN_NOTIFY

tokenVars == <<root, deadRoots, catalog, deadCatalogs, shutdown, notified>>

TokensTypeOK ==
    /\ root \in Nat
    /\ deadRoots \subseteq Nat
    /\ catalog \in Nat
    /\ deadCatalogs \subseteq Nat
    /\ shutdown \in BOOLEAN
    /\ notified \in Nat

TokensInit ==
    /\ root = 0
    /\ deadRoots = {}
    /\ catalog = 0
    /\ deadCatalogs = {}
    /\ shutdown = FALSE
    /\ notified = 0

\* ROOT.lock().child_token()
new_job_token == root

\* CATALOG.lock().child_token()
catalog_child_token == catalog

RootCancelled(token) == token \in deadRoots

CatalogCancelled(token) == token \in deadCatalogs

\* A Notified created after `epoch' calls of notify_waiters is complete.
Woken(epoch) == epoch < notified

-----------------------------------------------------------------------------
(* request, under the ROOT lock: cancel the token and replace it.  (The      *)
(* thread-local token it clears belongs to the caller: see EngineCancel.)    *)

RequestForgetsReset ==
    /\ deadRoots' = deadRoots \cup {root}
    /\ UNCHANGED <<root, catalog, deadCatalogs, shutdown, notified>>

RequestTakesCatalogToo ==
    /\ deadRoots' = deadRoots \cup {root}
    /\ root' = root + 1
    /\ deadCatalogs' = deadCatalogs \cup {catalog}
    /\ catalog' = catalog + 1
    /\ UNCHANGED <<shutdown, notified>>

RequestOnlyResets ==
    /\ root' = root + 1
    /\ UNCHANGED <<deadRoots, catalog, deadCatalogs, shutdown, notified>>

request ==
    /\ deadRoots' = deadRoots \cup {root}
    /\ root' = root + 1
    /\ UNCHANGED <<catalog, deadCatalogs, shutdown, notified>>

\* request_catalog, under the CATALOG lock.
request_catalog ==
    /\ deadCatalogs' = deadCatalogs \cup {catalog}
    /\ catalog' = catalog + 1
    /\ UNCHANGED <<root, deadRoots, shutdown, notified>>

(* request_shutdown is four steps, any of which another thread may observe:  *)
(* set the latch, notify the waiters, request_catalog, request.              *)
ShutdownStore ==
    /\ shutdown' = TRUE
    /\ UNCHANGED <<root, deadRoots, catalog, deadCatalogs, notified>>

ShutdownNotify ==
    /\ notified' = notified + 1
    /\ UNCHANGED <<root, deadRoots, catalog, deadCatalogs, shutdown>>

clear_shutdown ==
    /\ shutdown' = FALSE
    /\ UNCHANGED <<root, deadRoots, catalog, deadCatalogs, notified>>
=============================================================================
