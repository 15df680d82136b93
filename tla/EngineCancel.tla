---------------------------- MODULE EngineCancel ----------------------------
(***************************************************************************)
(* The cancellation scopes of utils::engine_cancel, as used by threads     *)
(* that call into the engine: with_cancel (playback HTTP),                 *)
(* with_shutdown_cancel (catalog HTTP that ignores playback cancels) and   *)
(* with_catalog_cancel (TMDB catalog HTTP), racing the threads that call   *)
(* request, request_catalog, request_shutdown and clear_shutdown.          *)
(*                                                                         *)
(* Each thread makes one blocking call at a time.  A call that is waiting  *)
(* is the select! between the wrapped future and the wake-ups.             *)
(***************************************************************************)
EXTENDS CancelTokens, Integers

CONSTANTS Threads,  \* threads that call the engine
          MaxCalls  \* bound on the request* calls that are started

ASSUME EngineCancelAssumption == MaxCalls \in Nat

Apis == {"playback", "shutdownOnly", "catalog"}

\* A thread that has no JOB_TOKEN.
None == -1

VARIABLES pc,       \* where each thread stands
          api,      \* the scope its current call uses
          attached, \* its JOB_TOKEN: the ROOT generation attached, or None
          token,    \* the child token its call waits on
          epoch,    \* the Notified its call waits on
          calls     \* request* calls started so far (bounded by MaxCalls)

scopeVars == <<pc, api, attached, token, epoch, calls>>
vars == <<tokenVars, scopeVars>>

Pcs == {"idle", "entered", "minted", "registered", "waiting",
        "notify", "catalog", "root"}

TypeOK ==
    /\ TokensTypeOK
    /\ pc \in [Threads -> Pcs]
    /\ api \in [Threads -> Apis]
    /\ attached \in [Threads -> Nat \cup {None}]
    /\ token \in [Threads -> Nat]
    /\ epoch \in [Threads -> Nat]
    /\ calls \in Nat

Init ==
    /\ TokensInit
    /\ pc = [t \in Threads |-> "idle"]
    /\ api = [t \in Threads |-> "playback"]
    /\ attached = [t \in Threads |-> None]
    /\ token = [t \in Threads |-> 0]
    /\ epoch = [t \in Threads |-> 0]
    /\ calls = 0

Goto(t, where) == pc' = [pc EXCEPT ![t] = where]

\* The call ends and its locals (token, Notified) are dropped.
Return(t) ==
    /\ Goto(t, "idle")
    /\ api' = [api EXCEPT ![t] = "playback"]
    /\ token' = [token EXCEPT ![t] = 0]
    /\ epoch' = [epoch EXCEPT ![t] = 0]

-----------------------------------------------------------------------------
(* Calls.  enter_job attaches a fresh child of ROOT to the thread; it stays  *)
(* attached after the call, until the thread enters the next job or itself   *)
(* requests a cancel.                                                        *)

enter_job(t) ==
    /\ pc[t] = "idle"
    /\ attached' = [attached EXCEPT ![t] = new_job_token]
    /\ Goto(t, "entered")
    /\ UNCHANGED <<tokenVars, api, token, epoch, calls>>

\* attach_job_token of a token minted earlier by another thread (submit).
attach_job_token(t, minted) ==
    /\ pc[t] = "idle"
    /\ attached' = [attached EXCEPT ![t] = minted]
    /\ Goto(t, "entered")
    /\ UNCHANGED <<tokenVars, api, token, epoch, calls>>

clear_job_token(t) ==
    /\ pc[t] = "idle"
    /\ attached[t] # None
    /\ attached' = [attached EXCEPT ![t] = None]
    /\ UNCHANGED <<tokenVars, pc, api, token, epoch, calls>>

\* The thread's token, with no fallback for a thread that has none.
OnlyAttached(t) == attached[t]

\* The thread's token, or a fresh child of ROOT for a thread that has none.
cancellation_token(t) ==
    IF attached[t] = None THEN new_job_token ELSE attached[t]

with_cancel(t) ==
    /\ pc[t] \in {"idle", "entered"}
    /\ api' = [api EXCEPT ![t] = "playback"]
    /\ token' = [token EXCEPT ![t] = cancellation_token(t)]
    /\ Goto(t, "waiting")
    /\ UNCHANGED <<tokenVars, attached, epoch, calls>>

\* with_catalog_cancel takes its token before it creates the Notified.
with_catalog_cancel(t) ==
    /\ pc[t] \in {"idle", "entered"}
    /\ api' = [api EXCEPT ![t] = "catalog"]
    /\ token' = [token EXCEPT ![t] = catalog_child_token]
    /\ Goto(t, "minted")
    /\ UNCHANGED <<tokenVars, attached, epoch, calls>>

CatalogRegister(t) ==
    /\ pc[t] = "minted"
    /\ epoch' = [epoch EXCEPT ![t] = notified]
    /\ Goto(t, "registered")
    /\ UNCHANGED <<tokenVars, api, attached, token, calls>>

with_shutdown_cancel(t) ==
    /\ pc[t] \in {"idle", "entered"}
    /\ api' = [api EXCEPT ![t] = "shutdownOnly"]
    /\ epoch' = [epoch EXCEPT ![t] = notified]
    /\ Goto(t, "registered")
    /\ UNCHANGED <<tokenVars, attached, token, calls>>

\* The early return of the two scopes: latch set, or catalog token cancelled.
AlreadyCancelled(t) ==
    \/ shutdown
    \/ api[t] = "catalog" /\ CatalogCancelled(token[t])

\* Waits without reading the latch again after the Notified was created.
WaitUnchecked(t) ==
    /\ pc[t] = "registered"
    /\ Goto(t, "waiting")
    /\ UNCHANGED <<tokenVars, api, attached, token, epoch, calls>>

CheckThenWait(t) ==
    /\ pc[t] = "registered"
    /\ \/ /\ AlreadyCancelled(t)
          /\ Return(t)
       \/ /\ ~AlreadyCancelled(t)
          /\ Goto(t, "waiting")
          /\ UNCHANGED <<api, token, epoch>>
    /\ UNCHANGED <<tokenVars, attached, calls>>

\* Which wake-ups a waiting call selects on.
Aborted(t) ==
    CASE api[t] = "playback"     -> RootCancelled(token[t])
      [] api[t] = "shutdownOnly" -> Woken(epoch[t])
      [] api[t] = "catalog"      -> CatalogCancelled(token[t]) \/ Woken(epoch[t])

SelectCancelled(t) ==
    /\ pc[t] = "waiting"
    /\ Aborted(t)
    /\ Return(t)
    /\ UNCHANGED <<tokenVars, attached, calls>>

\* The wrapped future completes first; select! may pick it even when aborted.
SelectFuture(t) ==
    /\ pc[t] = "waiting"
    /\ Return(t)
    /\ UNCHANGED <<tokenVars, attached, calls>>

-----------------------------------------------------------------------------
(* Cancels.  request and request_catalog are one step each; request_shutdown *)
(* is four.  request clears the token of the thread that calls it.           *)

StartCall == calls < MaxCalls /\ calls' = calls + 1

Request(t) ==
    /\ pc[t] = "idle"
    /\ StartCall
    /\ request
    /\ attached' = [attached EXCEPT ![t] = None]
    /\ UNCHANGED <<pc, api, token, epoch>>

RequestCatalog(t) ==
    /\ pc[t] = "idle"
    /\ StartCall
    /\ request_catalog
    /\ UNCHANGED <<pc, api, attached, token, epoch>>

request_shutdown(t) ==
    /\ pc[t] = "idle"
    /\ StartCall
    /\ ShutdownStore
    /\ Goto(t, "notify")
    /\ UNCHANGED <<api, attached, token, epoch>>

\* notify_waiters left out: the latch alone reaches only later calls.
ShutdownSkipsNotify(t) ==
    /\ pc[t] = "notify"
    /\ Goto(t, "catalog")
    /\ UNCHANGED <<tokenVars, api, attached, token, epoch, calls>>

RequestShutdownNotify(t) ==
    /\ pc[t] = "notify"
    /\ ShutdownNotify
    /\ Goto(t, "catalog")
    /\ UNCHANGED <<api, attached, token, epoch, calls>>

RequestShutdownCatalog(t) ==
    /\ pc[t] = "catalog"
    /\ request_catalog
    /\ Goto(t, "root")
    /\ UNCHANGED <<api, attached, token, epoch, calls>>

RequestShutdownRoot(t) ==
    /\ pc[t] = "root"
    /\ request
    /\ attached' = [attached EXCEPT ![t] = None]
    /\ Goto(t, "idle")
    /\ UNCHANGED <<api, token, epoch, calls>>

ClearShutdown(t) ==
    /\ pc[t] = "idle"
    /\ shutdown
    /\ clear_shutdown
    /\ UNCHANGED scopeVars

-----------------------------------------------------------------------------
\* A call that was started runs on: it registers, checks and unwinds.
Proceed(t) ==
    \/ CatalogRegister(t)
    \/ CheckThenWait(t)
    \/ SelectCancelled(t)
    \/ RequestShutdownNotify(t)
    \/ RequestShutdownCatalog(t)
    \/ RequestShutdownRoot(t)

\* Something a thread may or may not do, and the future that may never end.
Choose(t) ==
    \/ enter_job(t)
    \/ \E minted \in 0..root : attach_job_token(t, minted)
    \/ clear_job_token(t)
    \/ with_cancel(t)
    \/ with_catalog_cancel(t)
    \/ with_shutdown_cancel(t)
    \/ SelectFuture(t)
    \/ Request(t)
    \/ RequestCatalog(t)
    \/ request_shutdown(t)
    \/ ClearShutdown(t)

Next == \E t \in Threads : Proceed(t) \/ Choose(t)

\* Threads are scheduled; the futures they wrap are not assumed to complete.
Fairness == \A t \in Threads : WF_vars(Proceed(t))

Spec == Init /\ [][Next]_vars /\ Fairness

-----------------------------------------------------------------------------
(* The tokens handed out now are live: request and request_catalog replace   *)
(* what they cancel (engine_cancel.rs:58, :76), in every interleaving with   *)
(* the multi-step request_shutdown, so a job minted after a cancel is not    *)
(* born cancelled.                                                           *)
FreshTokensLive ==
    /\ root \notin deadRoots
    /\ catalog \notin deadCatalogs

(* No shutdown is lost: when the latch is set and no thread stands between   *)
(* setting it and notify_waiters, every call that waits for the shutdown     *)
(* signal has been woken.  It rests on creating the Notified before the      *)
(* latch is read (engine_cancel.rs:135, :153).                               *)
NoLostShutdown ==
    (shutdown /\ \A s \in Threads : pc[s] # "notify") =>
        \A t \in Threads :
            (pc[t] = "waiting" /\ api[t] # "playback") => Woken(epoch[t])

(* A playback cancel aborts no catalog call: a step that cancels ROOT leaves *)
(* the fate of every call waiting in the other two scopes as it was          *)
(* (engine_cancel.rs:56-57, "Does not abort catalog paths").                 *)
PlaybackCancelSparesCatalog ==
    [][deadRoots' # deadRoots =>
         \A t \in Threads :
            (pc[t] = "waiting" /\ api[t] # "playback") =>
                (Aborted(t) <=> Aborted(t)')]_vars

(* Shutdown unblocks every call in flight: a catalog call that waits while   *)
(* the latch is set, and a playback call that waits while a request_shutdown *)
(* runs, ends even if its future never completes (engine_cancel.rs:66, "so   *)
(* worker isolates can unwind").                                             *)
InRequestShutdown == \E s \in Threads : pc[s] \in {"notify", "catalog", "root"}

MustUnwind(t) ==
    /\ pc[t] = "waiting"
    /\ IF api[t] = "playback" THEN InRequestShutdown ELSE shutdown

ShutdownUnblocks == \A t \in Threads : MustUnwind(t) ~> pc[t] # "waiting"
=============================================================================
