----------------------------- MODULE EngineProofs -----------------------------
(***************************************************************************)
(* Three parts of the engine for any values of their constants:            *)
(* EngineCancel reaches who it cancels, PluginFetch confines what a plugin *)
(* may fetch, and ProviderHealth keeps the verdicts of identities apart    *)
(* and its totals backed.                                                  *)
(***************************************************************************)
EXTENDS EngineCancel, PluginFetch, ProviderHealth, SetLemmas, TLAPS

-----------------------------------------------------------------------------
(* EngineCancel.  Any set of threads and any number of cancel calls.  The    *)
(* inductive invariant adds to the type invariant that dead generations are  *)
(* older than the current ones, and that no call holds a Notified from the   *)
(* future.                                                                   *)

DeadAreOlder ==
    /\ \A g \in deadRoots : g < root
    /\ \A g \in deadCatalogs : g < catalog

EpochsPast == \A t \in Threads : epoch[t] <= notified

IInv == TypeOK /\ DeadAreOlder /\ EpochsPast /\ NoLostShutdown

\* The initial state satisfies the inductive invariant.
LEMMA InitIInv == Init => IInv
<1> SUFFICES ASSUME Init PROVE IInv
  OBVIOUS
<1> USE DEF Init, TokensInit
<1>1. TypeOK
  BY DEF TypeOK, TokensTypeOK, Pcs, Apis, None
<1>2. DeadAreOlder /\ EpochsPast
  BY DEF DeadAreOlder, EpochsPast
<1>3. NoLostShutdown
  BY DEF NoLostShutdown
<1> QED
  BY <1>1, <1>2, <1>3 DEF IInv

\* Every step keeps the types.
LEMMA NextTypeOK == TypeOK /\ [Next]_vars => TypeOK'
<1> USE DEF TypeOK, TokensTypeOK, Pcs, Apis, None
<1> SUFFICES ASSUME TypeOK, [Next]_vars PROVE TypeOK'
  OBVIOUS
<1>1. CASE UNCHANGED vars
  BY <1>1 DEF vars, tokenVars, scopeVars
<1>2. ASSUME NEW t \in Threads, Proceed(t) PROVE TypeOK'
  <2>1. CASE CatalogRegister(t)
    BY <2>1 DEF CatalogRegister, Goto, tokenVars
  <2>2. CASE CheckThenWait(t)
    BY <2>2 DEF CheckThenWait, Return, Goto, tokenVars
  <2>3. CASE SelectCancelled(t)
    BY <2>3 DEF SelectCancelled, Return, Goto, tokenVars
  <2>4. CASE RequestShutdownNotify(t)
    BY <2>4 DEF RequestShutdownNotify, ShutdownNotify, Goto
  <2>5. CASE RequestShutdownCatalog(t)
    BY <2>5 DEF RequestShutdownCatalog, request_catalog, Goto
  <2>6. CASE RequestShutdownRoot(t)
    BY <2>6 DEF RequestShutdownRoot, request, Goto
  <2> QED
    BY <1>2, <2>1, <2>2, <2>3, <2>4, <2>5, <2>6 DEF Proceed
<1>3. ASSUME NEW t \in Threads, Choose(t) PROVE TypeOK'
  <2>1. CASE enter_job(t)
    BY <2>1 DEF enter_job, Goto, tokenVars, new_job_token
  <2>2. ASSUME NEW m \in 0..root, attach_job_token(t, m) PROVE TypeOK'
    BY <2>2 DEF attach_job_token, Goto, tokenVars
  <2>3. CASE clear_job_token(t)
    BY <2>3 DEF clear_job_token, tokenVars
  <2>4. CASE with_cancel(t)
    <3>1. cancellation_token(t) \in Nat
      BY DEF cancellation_token, new_job_token
    <3> QED
      BY <2>4, <3>1 DEF with_cancel, Goto, tokenVars
  <2>5. CASE with_catalog_cancel(t)
    BY <2>5 DEF with_catalog_cancel, catalog_child_token, Goto, tokenVars
  <2>6. CASE with_shutdown_cancel(t)
    BY <2>6 DEF with_shutdown_cancel, Goto, tokenVars
  <2>7. CASE SelectFuture(t)
    BY <2>7 DEF SelectFuture, Return, Goto, tokenVars
  <2>8. CASE Request(t)
    BY <2>8 DEF Request, StartCall, request
  <2>9. CASE RequestCatalog(t)
    BY <2>9 DEF RequestCatalog, StartCall, request_catalog
  <2>10. CASE request_shutdown(t)
    BY <2>10 DEF request_shutdown, StartCall, ShutdownStore, Goto
  <2>11. CASE ClearShutdown(t)
    BY <2>11 DEF ClearShutdown, clear_shutdown, scopeVars
  <2> QED
    BY <1>3, <2>1, <2>2, <2>3, <2>4, <2>5, <2>6, <2>7, <2>8, <2>9, <2>10, <2>11
       DEF Choose
<1> QED
  BY <1>1, <1>2, <1>3 DEF Next

(* A step either leaves the tokens and the latch alone or is one of the five *)
(* that CancelTokens defines.                                                *)
LEMMA TokenSteps ==
    [Next]_vars => \/ UNCHANGED tokenVars
                   \/ request
                   \/ request_catalog
                   \/ \E t \in Threads : request_shutdown(t)
                   \/ \E t \in Threads : RequestShutdownNotify(t)
                   \/ clear_shutdown
  BY DEF Next, Proceed, Choose, CatalogRegister, CheckThenWait, SelectCancelled,
         RequestShutdownCatalog, RequestShutdownRoot, enter_job, attach_job_token,
         clear_job_token, with_cancel, with_catalog_cancel, with_shutdown_cancel,
         SelectFuture, Request, RequestCatalog, ClearShutdown, vars

\* Every step keeps the dead generations older than the current ones.
LEMMA NextDeadAreOlder ==
    TypeOK /\ DeadAreOlder /\ [Next]_vars => DeadAreOlder'
<1> SUFFICES ASSUME TypeOK, DeadAreOlder, [Next]_vars PROVE DeadAreOlder'
  OBVIOUS
<1> USE DEF TypeOK, TokensTypeOK, DeadAreOlder
<1>1. CASE request
  BY <1>1 DEF request
<1>2. CASE request_catalog
  BY <1>2 DEF request_catalog
<1>3. CASE UNCHANGED <<root, deadRoots, catalog, deadCatalogs>>
  BY <1>3
<1> QED
  BY TokenSteps, <1>1, <1>2, <1>3
     DEF tokenVars, request_shutdown, ShutdownStore, RequestShutdownNotify,
         ShutdownNotify, clear_shutdown

\* Every step keeps every Notified in the past.
LEMMA NextEpochsPast ==
    TypeOK /\ EpochsPast /\ [Next]_vars => EpochsPast'
<1> SUFFICES ASSUME TypeOK, EpochsPast, [Next]_vars PROVE EpochsPast'
  OBVIOUS
<1>1. notified \in Nat /\ notified' \in Nat /\ notified <= notified'
  BY TokenSteps
     DEF TypeOK, TokensTypeOK, tokenVars, request, request_catalog,
         request_shutdown, ShutdownStore, RequestShutdownNotify, ShutdownNotify,
         clear_shutdown
<1>2. \/ epoch' = epoch
      \/ \E t \in Threads : epoch' = [epoch EXCEPT ![t] = notified]
      \/ \E t \in Threads : epoch' = [epoch EXCEPT ![t] = 0]
  BY DEF Next, Proceed, Choose, CatalogRegister, CheckThenWait, SelectCancelled,
         RequestShutdownNotify, RequestShutdownCatalog, RequestShutdownRoot,
         enter_job, attach_job_token, clear_job_token, with_cancel,
         with_catalog_cancel, with_shutdown_cancel, SelectFuture, Request,
         RequestCatalog, request_shutdown, ClearShutdown, Return, vars, scopeVars
<1> QED
  BY <1>1, <1>2 DEF EpochsPast, TypeOK

(* Every step keeps NoLostShutdown.  Only three kinds of step matter: those  *)
(* that set the latch leave a thread that has yet to notify; the notify      *)
(* wakes every call, whose Notified are all in the past; and a call starts   *)
(* to wait only when it has read the latch as clear.                         *)
LEMMA NextNoLostShutdown == IInv /\ [Next]_vars => NoLostShutdown'
<1> SUFFICES ASSUME IInv, [Next]_vars,
                    shutdown', \A s \in Threads : pc'[s] # "notify",
                    NEW u \in Threads, pc'[u] = "waiting", api'[u] # "playback"
             PROVE  epoch'[u] < notified'
  BY DEF NoLostShutdown, Woken
<1> USE DEF TypeOK, TokensTypeOK
<1>0. TypeOK /\ EpochsPast
  BY DEF IInv
<1>1. ASSUME NEW t \in Threads, RequestShutdownNotify(t)
      PROVE  epoch'[u] < notified'
  BY <1>0, <1>1 DEF EpochsPast, RequestShutdownNotify, ShutdownNotify
<1>2. ASSUME NEW t \in Threads, request_shutdown(t)
      PROVE  FALSE
  BY <1>0, <1>2 DEF request_shutdown, Goto
<1>3. ASSUME \A t \in Threads : ~RequestShutdownNotify(t) /\ ~request_shutdown(t)
      PROVE  epoch'[u] < notified'
  <2>1. shutdown /\ notified' = notified
    BY <1>3, TokenSteps DEF tokenVars, request, request_catalog, clear_shutdown
  <2>2. \A s \in Threads : pc[s] # "notify"
    <3> SUFFICES ASSUME NEW s \in Threads, pc[s] = "notify" PROVE FALSE
      OBVIOUS
    <3> QED
      BY <1>0, <1>3 DEF Next, Proceed, Choose, CatalogRegister, CheckThenWait,
         SelectCancelled, RequestShutdownCatalog, RequestShutdownRoot, enter_job,
         attach_job_token, clear_job_token, with_cancel, with_catalog_cancel,
         with_shutdown_cancel, SelectFuture, Request, RequestCatalog,
         ClearShutdown, Return, Goto, vars, scopeVars
  <2>3. pc[u] = "waiting" /\ api'[u] = api[u] /\ epoch'[u] = epoch[u]
    BY <1>0, <1>3, <2>1 DEF Next, Proceed, Choose, CatalogRegister,
       CheckThenWait, AlreadyCancelled, SelectCancelled, RequestShutdownCatalog,
       RequestShutdownRoot, enter_job, attach_job_token, clear_job_token,
       with_cancel, with_catalog_cancel, with_shutdown_cancel, SelectFuture,
       Request, RequestCatalog, ClearShutdown, Return, Goto, vars, scopeVars
  <2> QED
    BY <2>1, <2>2, <2>3 DEF IInv, NoLostShutdown, Woken
<1> QED
  BY <1>1, <1>2, <1>3

\* IInv is an invariant of the specification.
THEOREM InvariantHolds == Spec => []IInv
<1>1. IInv /\ [Next]_vars => IInv'
  BY NextTypeOK, NextDeadAreOlder, NextEpochsPast, NextNoLostShutdown DEF IInv
<1> QED
  BY InitIInv, <1>1, PTL DEF Spec

(* The state of engine_cancel and of the calls that use it keeps its types.  *)
THEOREM TypeCorrect == Spec => []TypeOK
<1>1. IInv => TypeOK
  BY DEF IInv
<1> QED
  BY InvariantHolds, <1>1, PTL

(* No cancel leaves a cancelled token in ROOT or CATALOG: a job minted after *)
(* it starts live (engine_cancel.rs:58, :76), for any number of threads.     *)
THEOREM FreshTokens == Spec => []FreshTokensLive
<1>1. IInv => FreshTokensLive
  BY DEF IInv, DeadAreOlder, FreshTokensLive, TypeOK, TokensTypeOK
<1> QED
  BY InvariantHolds, <1>1, PTL

(* No interleaving of request_shutdown with the calls it must abort loses    *)
(* the wake-up (engine_cancel.rs:67, :131, :148).                            *)
THEOREM ShutdownNeverLost == Spec => []NoLostShutdown
<1>1. IInv => NoLostShutdown
  BY DEF IInv
<1> QED
  BY InvariantHolds, <1>1, PTL

(* A playback cancel never changes the fate of a catalog call that waits     *)
(* (engine_cancel.rs:56).                                                    *)
THEOREM PlaybackSparesCatalog == Spec => PlaybackCancelSparesCatalog
<1>1. TypeOK /\ [Next]_vars =>
        [deadRoots' # deadRoots =>
           \A t \in Threads :
              (pc[t] = "waiting" /\ api[t] # "playback") =>
                  (Aborted(t) <=> Aborted(t)')]_vars
  <2> SUFFICES ASSUME TypeOK, [Next]_vars, deadRoots' # deadRoots,
                      NEW t \in Threads, pc[t] = "waiting", api[t] # "playback"
               PROVE  Aborted(t) <=> Aborted(t)'
    OBVIOUS
  <2>1. request
    BY TokenSteps DEF tokenVars, request_catalog, request_shutdown, ShutdownStore,
       RequestShutdownNotify, ShutdownNotify, clear_shutdown
  <2>2. api'[t] = api[t] /\ token'[t] = token[t] /\ epoch'[t] = epoch[t]
    BY <2>1 DEF TypeOK, TokensTypeOK, Next, Proceed, Choose, CatalogRegister,
       CheckThenWait, SelectCancelled, RequestShutdownNotify, ShutdownNotify,
       RequestShutdownCatalog, request_catalog, RequestShutdownRoot, enter_job,
       attach_job_token, clear_job_token, with_cancel, with_catalog_cancel,
       with_shutdown_cancel, SelectFuture, Request, RequestCatalog,
       request_shutdown, ShutdownStore, ClearShutdown, clear_shutdown, request,
       tokenVars, vars, scopeVars
  <2>3. api[t] \in {"shutdownOnly", "catalog"}
    BY DEF TypeOK, Apis
  <2> QED
    BY <2>1, <2>2, <2>3 DEF Aborted, request, CatalogCancelled, Woken
<1> QED
  BY TypeCorrect, <1>1, PTL DEF Spec, PlaybackCancelSparesCatalog

-----------------------------------------------------------------------------
(* PluginFetch.  A request is sent with what the call holds at that moment:  *)
(* the inductive invariant says of the call, between its hops, what the      *)
(* property says of the requests.                                            *)

FetchPcs == {"idle", "resolve", "send", "reply", "read"}
Methods == {"GET", "POST", "HEAD"}
Places == Origins \cup {"none"}
FetchCalls == [pc : FetchPcs, first : Places, at : Places, addrs : SUBSET Addresses, method : Methods,
          creds : BOOLEAN, body : BOOLEAN, hops : Nat, bytes : Nat]
Requests == [to : Places, addrs : SUBSET Addresses, method : Methods,
             creds : BOOLEAN, body : BOOLEAN]

FetchTypeOK == fetch \in FetchCalls /\ sent \subseteq Requests

(* The call holds credentials only where the plugin asked for them to be     *)
(* sent, and a body only for its method; what it sends next was checked, and *)
(* its counters are under their limits.                                      *)
CallConfined ==
  /\ fetch.creds => fetch.at = fetch.first
  /\ fetch.body => fetch.method = "POST"
  /\ fetch.pc = "send" /\ "local" \in fetch.addrs => allow_local
  /\ fetch.bytes <= MAX_RESPONSE_BYTES /\ fetch.hops <= MAX_REDIRECTS

SentConfined ==
  \A r \in sent : /\ "local" \in r.addrs => allow_local
                  /\ r.creds => r.to = fetch.first \/ fetch.pc = "idle"
                  /\ r.body => r.method = "POST"

FetchInv == FetchTypeOK /\ CallConfined /\ SentConfined

\* The empty call is a call, and confined.
LEMMA NoFetchIsCall ==
  /\ NoFetch \in FetchCalls
  /\ NoFetch.pc = "idle" /\ NoFetch.creds = FALSE /\ NoFetch.body = FALSE
  /\ NoFetch.bytes = 0 /\ NoFetch.hops = 0
  BY DEF NoFetch, FetchCalls, FetchPcs, Methods, Places, Addresses

\* The first state satisfies the invariant.
LEMMA InitFetchInv == FetchInit => FetchInv
  BY NoFetchIsCall, FetchLimits
     DEF FetchInit, FetchInv, FetchTypeOK, CallConfined, SentConfined

(* A step that ends the call, and sends nothing, keeps the invariant.        *)
LEMMA AnsweredConfined ==
  ASSUME FetchInv, fetch' = NoFetch, UNCHANGED <<allow_local, sent>>
  PROVE  FetchInv'
  BY NoFetchIsCall, FetchLimits DEF FetchInv, FetchTypeOK, CallConfined, SentConfined

\* A new call may hold what the plugin gave it.
LEMMA StartConfined ==
  ASSUME FetchInv, NEW o \in Origins, NEW m \in Methods, NEW c \in BOOLEAN, NEW b \in BOOLEAN,
         guarded_fetch(o, m, c, b)
  PROVE  FetchInv'
<1> DEFINE body == b /\ m = "POST"
<1>1. /\ fetch' = [NoFetch EXCEPT !.pc = "resolve", !.first = o, !.at = o, !.method = m,
                                  !.creds = c, !.body = body]
      /\ sent' = {}
  BY DEF guarded_fetch
<1>2. body \in BOOLEAN /\ (body => m = "POST") /\ "resolve" \in FetchPcs /\ o \in Places
  BY DEF FetchPcs, Places
<1> HIDE DEF body
<1>3. fetch' \in FetchCalls
  BY <1>1, <1>2, NoFetchIsCall, Zenon DEF FetchCalls
<1>4. /\ fetch'.pc = "resolve" /\ fetch'.first = o /\ fetch'.at = o /\ fetch'.method = m
      /\ fetch'.body = body /\ fetch'.bytes = 0 /\ fetch'.hops = 0
  BY <1>1, NoFetchIsCall DEF FetchCalls
<1>5. CallConfined'
  BY <1>2, <1>4, FetchLimits DEF CallConfined
<1>6. SentConfined' /\ sent' \subseteq Requests
  BY <1>1 DEF SentConfined
<1> QED
  BY <1>3, <1>5, <1>6 DEF FetchInv, FetchTypeOK

\* Only addresses that were looked at are sent to.
LEMMA ResolveConfined ==
  ASSUME FetchInv, NEW addrs \in SUBSET Addresses, resolve_checked(addrs)
  PROVE  FetchInv'
<1>1. CASE Answered
  BY <1>1, AnsweredConfined DEF Answered, resolve_checked
<1>2. CASE ~Answered
  <2>1. /\ fetch' = [fetch EXCEPT !.pc = "send", !.addrs = addrs]
        /\ AllPublic(addrs) /\ fetch.pc = "resolve"
        /\ UNCHANGED <<allow_local, sent>>
    BY <1>2 DEF resolve_checked
  <2>2. fetch' \in FetchCalls
    <3>1. "send" \in FetchPcs
      BY DEF FetchPcs
    <3> QED
      BY <2>1, <3>1, Zenon DEF FetchCalls, FetchInv, FetchTypeOK
  <2>3. /\ fetch'.pc = "send" /\ fetch'.addrs = addrs /\ fetch'.at = fetch.at
        /\ fetch'.first = fetch.first /\ fetch'.method = fetch.method
        /\ fetch'.creds = fetch.creds /\ fetch'.body = fetch.body
        /\ fetch'.bytes = fetch.bytes /\ fetch'.hops = fetch.hops
    BY <2>1 DEF FetchCalls, FetchInv, FetchTypeOK
  <2> QED
    BY <2>1, <2>2, <2>3 DEF FetchInv, FetchTypeOK, CallConfined, SentConfined, AllPublic
<1> QED
  BY <1>1, <1>2

\* What is sent is what the call holds.
LEMMA SendConfined ==
  ASSUME FetchInv, Send
  PROVE  FetchInv'
<1> DEFINE asked == [to |-> fetch.at, addrs |-> fetch.addrs, method |-> fetch.method,
                       creds |-> fetch.creds, body |-> fetch.body]
<1>1. /\ fetch.pc = "send" /\ fetch' = [fetch EXCEPT !.pc = "reply"]
      /\ sent' = sent \cup {asked} /\ UNCHANGED allow_local
  BY DEF Send
<1>2. fetch' \in FetchCalls
  <2>1. "reply" \in FetchPcs
    BY DEF FetchPcs
  <2> QED
    BY <1>1, <2>1, Zenon DEF FetchCalls, FetchInv, FetchTypeOK
<1>3. /\ fetch'.pc = "reply" /\ fetch'.addrs = fetch.addrs /\ fetch'.at = fetch.at
      /\ fetch'.first = fetch.first /\ fetch'.method = fetch.method
      /\ fetch'.creds = fetch.creds /\ fetch'.body = fetch.body
      /\ fetch'.bytes = fetch.bytes /\ fetch'.hops = fetch.hops
  BY <1>1 DEF FetchCalls, FetchInv, FetchTypeOK
<1>4. asked \in Requests
  BY DEF FetchInv, FetchTypeOK, FetchCalls, Requests
<1>5. /\ "local" \in asked.addrs => allow_local
      /\ asked.creds => asked.to = fetch.first
      /\ asked.body => asked.method = "POST"
  BY <1>1 DEF FetchInv, CallConfined
<1> HIDE DEF asked
<1>6. SentConfined'
  BY <1>1, <1>3, <1>5 DEF FetchInv, SentConfined
<1>7. CallConfined'
  BY <1>1, <1>3 DEF FetchInv, CallConfined
<1> QED
  BY <1>1, <1>2, <1>4, <1>6, <1>7 DEF FetchInv, FetchTypeOK

\* Another origin gets no credentials, another method no body.
LEMMA RedirectConfined ==
  ASSUME FetchInv, NEW status, NEW o \in Origins, Redirect(status, o)
  PROVE  FetchInv'
<1>1. CASE Answered
  BY <1>1, AnsweredConfined DEF Answered, Redirect
<1>2. CASE ~Answered
  <2> DEFINE m == NextMethod(status)
             b == fetch.body /\ status = "307"
             c == fetch.creds /\ ~is_cross_host(o)
  <2>1. /\ fetch' = [fetch EXCEPT !.pc = "resolve", !.at = o, !.hops = @ + 1, !.method = m,
                                  !.body = b, !.creds = c]
        /\ ~(fetch.hops + 1 > MAX_REDIRECTS) /\ fetch.pc = "reply"
        /\ UNCHANGED <<allow_local, sent>>
    BY <1>2 DEF Redirect
  <2>2. /\ m \in Methods /\ b \in BOOLEAN /\ c \in BOOLEAN /\ fetch.hops + 1 \in Nat
        /\ "resolve" \in FetchPcs /\ o \in Places
    BY DEF NextMethod, Methods, FetchPcs, Places, FetchInv, FetchTypeOK, FetchCalls
  <2>3. (b => m = "POST") /\ (c => o = fetch.first)
    BY DEF NextMethod, is_cross_host, FetchInv, CallConfined
  <2> HIDE DEF m, b, c
  <2>4. fetch' \in FetchCalls
    BY <2>1, <2>2, Zenon DEF FetchCalls, FetchInv, FetchTypeOK
  <2>5. /\ fetch'.pc = "resolve" /\ fetch'.at = o /\ fetch'.first = fetch.first
        /\ fetch'.method = m /\ fetch'.creds = c /\ fetch'.body = b
        /\ fetch'.bytes = fetch.bytes /\ fetch'.hops = fetch.hops + 1
    BY <2>1 DEF FetchCalls, FetchInv, FetchTypeOK
  <2>6. fetch'.hops <= MAX_REDIRECTS
    BY <2>1, <2>2, <2>5, FetchLimits
  <2> QED
    BY <2>1, <2>3, <2>4, <2>5, <2>6 DEF FetchInv, FetchTypeOK, CallConfined, SentConfined
<1> QED
  BY <1>1, <1>2

\* The answer is read while it is under the cap.
LEMMA ReadConfined ==
  ASSUME FetchInv, Reply \/ (\E n \in ChunkBytes : push_capped(n))
  PROVE  FetchInv'
<1>1. CASE Answered
  BY <1>1, AnsweredConfined DEF Answered, Reply, push_capped
<1>2. CASE ~Answered
  <2>1. PICK n \in Nat : /\ fetch.bytes + n <= MAX_RESPONSE_BYTES /\ fetch.pc \in {"reply", "read"}
                         /\ fetch' \in {[fetch EXCEPT !.pc = "read"], [fetch EXCEPT !.bytes = @ + n]}
                         /\ UNCHANGED <<allow_local, sent>>
    <3>1. CASE Reply
      <4>1. fetch.bytes + 0 <= MAX_RESPONSE_BYTES
        BY FetchLimits DEF FetchInv, FetchTypeOK, CallConfined, FetchCalls
      <4> QED
        BY <1>2, <3>1, <4>1 DEF Reply
    <3>2. ASSUME NEW n \in ChunkBytes, push_capped(n)
          PROVE  /\ n \in Nat /\ fetch.bytes + n <= MAX_RESPONSE_BYTES /\ fetch.pc = "read"
                 /\ fetch' = [fetch EXCEPT !.bytes = @ + n] /\ UNCHANGED <<allow_local, sent>>
      BY <1>2, <3>2, FetchLimits DEF push_capped, FetchInv, FetchTypeOK, FetchCalls
    <3> QED
      BY <3>1, <3>2
  <2>2. fetch' \in FetchCalls
    <3>1. "read" \in FetchPcs /\ fetch.bytes + n \in Nat
      BY DEF FetchPcs, FetchInv, FetchTypeOK, FetchCalls
    <3> QED
      BY <2>1, <3>1, Zenon DEF FetchCalls, FetchInv, FetchTypeOK
  <2>3. /\ fetch'.pc \in {"reply", "read"} /\ fetch'.at = fetch.at /\ fetch'.first = fetch.first
        /\ fetch'.method = fetch.method /\ fetch'.creds = fetch.creds
        /\ fetch'.body = fetch.body /\ fetch'.hops = fetch.hops
        /\ fetch'.bytes \in {fetch.bytes, fetch.bytes + n}
    BY <2>1 DEF FetchCalls, FetchInv, FetchTypeOK
  <2>4. fetch'.bytes <= MAX_RESPONSE_BYTES
    BY <2>1, <2>3 DEF FetchInv, CallConfined
  <2> QED
    BY <2>1, <2>2, <2>3, <2>4 DEF FetchInv, FetchTypeOK, CallConfined, SentConfined
<1> QED
  BY <1>1, <1>2

\* Every step keeps the invariant.
LEMMA NextFetchInv == FetchInv /\ [FetchNext]_fetchVars => FetchInv'
<1> SUFFICES ASSUME FetchInv, [FetchNext]_fetchVars PROVE FetchInv'
  OBVIOUS
<1>1. CASE BodyEnds \/ FetchAborted
  BY <1>1, AnsweredConfined DEF BodyEnds, FetchAborted, Answered
<1>2. CASE StopFetch \/ DeadlinePasses \/ UNCHANGED fetchVars
  BY <1>2 DEF StopFetch, DeadlinePasses, fetchVars, FetchInv, FetchTypeOK, CallConfined,
              SentConfined
<1> QED
  BY <1>1, <1>2, StartConfined, ResolveConfined, SendConfined, RedirectConfined, ReadConfined
     DEF FetchNext, Methods

(* Whatever redirects and lookups answer, a plugin's requests stay where its *)
(* pack may go, with credentials and a body only where they belong, and the  *)
(* answer and the chain under their limits (fetch_guard.rs).                 *)
THEOREM Confined == FetchSpec => []FetchConfined
<1>1. FetchInv => FetchConfined
  BY DEF FetchInv, CallConfined, SentConfined, FetchConfined
<1> QED
  BY InitFetchInv, NextFetchInv, <1>1, PTL DEF FetchSpec

-----------------------------------------------------------------------------
(* ProviderHealth.  Beside the scopes of the property, the inductive         *)
(* invariant covers the maps from before scopes: a migration copies them,    *)
(* and a process may stop before it empties them.                            *)

HealthKeys == Scopes \cup {Legacy}

(* Totals are left out: the verdicts do not depend on them. *)
IsMaps(m) ==
  /\ m = [there |-> m.there, tot |-> m.tot, server |-> m.server, stream |-> m.stream,
          totals |-> m.totals]
  /\ m.server \in [Titles -> Int] /\ m.stream \in [Titles -> Int]

HealthTypeOK ==
  /\ active \in Scopes
  /\ health = [loaded |-> health.loaded, maps |-> health.maps] /\ IsMaps(health.maps)
  /\ stored = [k \in HealthKeys |-> stored[k]] /\ \A k \in HealthKeys : IsMaps(stored[k])
  /\ earned \in [HealthKeys -> SUBSET Titles]

ScopesInv ==
  /\ HealthTypeOK
  /\ Verdicts(health.maps) \subseteq earned[active] \cup earned[Legacy]
  /\ \A k \in HealthKeys : Verdicts(stored[k]) \subseteq earned[k] \cup earned[Legacy]

-----------------------------------------------------------------------------
\* Maps without verdicts.
LEMMA NoVerdicts ==
  /\ IsMaps(NoMaps) /\ Verdicts(NoMaps) = {}
  /\ IsMaps(EmptyMaps) /\ Verdicts(EmptyMaps) = {}
<1>1. IsMaps(NoMaps)
  BY DEF IsMaps, NoMaps
<1>2. EmptyMaps.server = NoMaps.server /\ EmptyMaps.stream = NoMaps.stream /\ IsMaps(EmptyMaps)
  <2>1. \A x : LET m == [NoMaps EXCEPT !.there = x]
               IN  m.server = NoMaps.server /\ m.stream = NoMaps.stream /\ IsMaps(m)
    BY <1>1 DEF IsMaps
  <2> QED
    BY <2>1 DEF EmptyMaps
<1>3. NoMaps.server = [t \in Titles |-> 0] /\ NoMaps.stream = [t \in Titles |-> 0]
  BY DEF NoMaps
<1> QED
  BY <1>1, <1>2, <1>3 DEF Verdicts

\* Flags and totals hold no verdict.
LEMMA OtherFields ==
  ASSUME NEW m, IsMaps(m), NEW x
  PROVE  /\ IsMaps([m EXCEPT !.totals = x]) /\ Verdicts([m EXCEPT !.totals = x]) = Verdicts(m)
         /\ IsMaps([m EXCEPT !.tot = x]) /\ Verdicts([m EXCEPT !.tot = x]) = Verdicts(m)
  BY DEF IsMaps, Verdicts

\* A verdict is about its title.
LEMMA OneVerdict ==
  ASSUME NEW m, IsMaps(m), NEW t \in Titles, NEW v \in Int
  PROVE  /\ IsMaps([m EXCEPT !.server[t] = v])
         /\ Verdicts([m EXCEPT !.server[t] = v]) \subseteq Verdicts(m) \cup {t}
         /\ IsMaps([m EXCEPT !.stream[t] = v])
         /\ Verdicts([m EXCEPT !.stream[t] = v]) \subseteq Verdicts(m) \cup {t}
  BY DEF IsMaps, Verdicts

\* The first state satisfies the invariant.
LEMMA InitScopesInv == HealthInit => ScopesInv
<1> SUFFICES ASSUME HealthInit PROVE ScopesInv
  OBVIOUS
<1> DEFINE old(t, v) == [EmptyMaps EXCEPT !.server[t] = v, !.stream[t] = v]
<1>1. PICK t \in Titles, v \in {UP, FAIL} :
        /\ stored = [k \in HealthKeys |-> IF k = Legacy THEN old(t, v) ELSE NoMaps]
        /\ earned = [k \in HealthKeys |-> IF k = Legacy THEN {t} ELSE {}]
  BY DEF HealthInit, HealthKeys
<1>2. IsMaps(old(t, v)) /\ Verdicts(old(t, v)) \subseteq {t}
  <2> DEFINE up == [EmptyMaps EXCEPT !.server[t] = v]
  <2>1. old(t, v) = [up EXCEPT !.stream[t] = v] /\ v \in Int
    BY NoVerdicts DEF UP, FAIL, IsMaps
  <2>2. IsMaps(up) /\ Verdicts(up) \subseteq {t}
    BY <2>1, NoVerdicts, OneVerdict
  <2> QED
    BY <2>1, <2>2, OneVerdict
<1> HIDE DEF old
<1>3. active \in Scopes /\ Legacy \in HealthKeys /\ health = [loaded |-> FALSE, maps |-> EmptyMaps]
  BY HealthConstants DEF HealthInit, HealthKeys
<1>4. health.maps = EmptyMaps /\ health = [loaded |-> health.loaded, maps |-> health.maps]
  BY <1>3
<1> QED
  BY <1>1, <1>2, <1>3, <1>4, NoVerdicts DEF ScopesInv, HealthTypeOK, HealthKeys

(* What is in memory, or in storage, may be put in storage, or fail to. *)
LEMMA StoreKeeps ==
  ASSUME ScopesInv, NEW k \in HealthKeys, NEW m, IsMaps(m),
         Verdicts(m) \subseteq earned[k] \cup earned[Legacy],
         TrySet(k, m), UNCHANGED <<active, health, earned>>
  PROVE  ScopesInv'
  BY DEF TrySet, ScopesInv, HealthTypeOK, HealthKeys

(* Maps whose verdicts are the scope's may be taken into memory. *)
LEMMA LoadKeeps ==
  ASSUME ScopesInv, NEW m, IsMaps(m), active' \in Scopes,
         Verdicts(m) \subseteq earned'[active'] \cup earned'[Legacy],
         earned' \in [HealthKeys -> SUBSET Titles], \A k \in HealthKeys : earned[k] \subseteq earned'[k],
         health' = [loaded |-> health'.loaded, maps |-> m], UNCHANGED stored
  PROVE  ScopesInv'
<1>1. health'.maps = m
  OBVIOUS
<1>2. HealthTypeOK'
  BY <1>1 DEF ScopesInv, HealthTypeOK
<1>3. \A k \in HealthKeys : Verdicts(stored[k]) \subseteq earned'[k] \cup earned'[Legacy]
  BY DEF ScopesInv, HealthKeys
<1> QED
  BY <1>1, <1>2, <1>3 DEF ScopesInv

\* Loading the maps of a scope, in each of its writes.
LEMMA EnsureLoadedKeeps ==
  ASSUME ScopesInv, MigrateCopies \/ MigrateWipes \/ ReadMaps \/ persist
  PROVE  ScopesInv'
<1>1. active \in HealthKeys /\ Legacy \in HealthKeys
  BY DEF ScopesInv, HealthTypeOK, HealthKeys
<1>2. CASE MigrateCopies
  BY <1>1, <1>2, StoreKeeps DEF MigrateCopies, ScopesInv, HealthTypeOK
<1>3. CASE MigrateWipes
  BY <1>1, <1>3, StoreKeeps, NoVerdicts DEF MigrateWipes
<1>4. CASE ReadMaps
  <2> DEFINE m == IF stored[active].there THEN stored[active] ELSE EmptyMaps
  <2>1. IsMaps(m) /\ Verdicts(m) \subseteq earned[active] \cup earned[Legacy]
    BY <1>1, NoVerdicts DEF ScopesInv, HealthTypeOK
  <2> DEFINE new == IF m.tot \/ ~stored[active].there THEN [m EXCEPT !.tot = TRUE]
                    ELSE [m EXCEPT !.tot = TRUE, !.totals = rebuild_provider_totals(m)]
  <2>2. /\ health' = [loaded |-> TRUE, maps |-> new]
        /\ UNCHANGED <<active, stored, earned>>
    BY <1>4 DEF ReadMaps
  <2> HIDE DEF m
  <2>3. IsMaps(new) /\ Verdicts(new) = Verdicts(m)
    <3> DEFINE flagged == [m EXCEPT !.tot = TRUE]
    <3>1. IsMaps(flagged) /\ Verdicts(flagged) = Verdicts(m)
      BY <2>1, OtherFields
    <3>2. [m EXCEPT !.tot = TRUE, !.totals = rebuild_provider_totals(m)]
            = [flagged EXCEPT !.totals = rebuild_provider_totals(m)]
      OBVIOUS
    <3> HIDE DEF flagged
    <3>3. /\ IsMaps([flagged EXCEPT !.totals = rebuild_provider_totals(m)])
          /\ Verdicts([flagged EXCEPT !.totals = rebuild_provider_totals(m)]) = Verdicts(m)
      BY <3>1, OtherFields
    <3> QED
      BY <3>1, <3>2, <3>3 DEF flagged
  <2> HIDE DEF new
  <2>4. health'.loaded = TRUE /\ earned' \in [HealthKeys -> SUBSET Titles]
    BY <2>2 DEF ScopesInv, HealthTypeOK
  <2> QED
    BY <1>1, <2>1, <2>2, <2>3, <2>4, LoadKeeps DEF ScopesInv, HealthTypeOK
<1>5. CASE persist
  BY <1>1, <1>5, StoreKeeps DEF persist, ScopesInv, HealthTypeOK
<1> QED
  BY <1>2, <1>3, <1>4, <1>5

\* A verdict is recorded under the scope that is active.
LEMMA RecordKeeps ==
  ASSUME ScopesInv, NEW t \in Titles,
         \/ record_server(t, UP) \/ record_server(t, FAIL)
         \/ record_stream_up(t) \/ record_stream_fail(t)
  PROVE  ScopesInv'
<1>1. active \in HealthKeys /\ Legacy \in HealthKeys /\ IsMaps(health.maps) /\ UP \in Int /\ FAIL \in Int
  BY DEF ScopesInv, HealthTypeOK, HealthKeys, UP, FAIL
<1>2. PICK next : /\ IsMaps(next) /\ Verdicts(next) \subseteq Verdicts(health.maps) \cup {t}
                  /\ set_verdict(t, next)
  <2>1. CASE record_server(t, UP)
    BY <1>1, <2>1, OneVerdict DEF record_server
  <2>2. CASE record_server(t, FAIL)
    BY <1>1, <2>2, OneVerdict DEF record_server
  <2>3. CASE record_stream_up(t)
    BY <1>1, <2>3, OneVerdict DEF record_stream_up
  <2>4. CASE record_stream_fail(t)
    BY <1>1, <2>4, OneVerdict DEF record_stream_fail
  <2> QED
    BY <2>1, <2>2, <2>3, <2>4
<1> DEFINE totals == apply_provider_delta(health.maps, t, Net(next, t))
           new == [next EXCEPT !.totals = totals]
<1>3. /\ health' = [health EXCEPT !.maps = new]
      /\ earned' = [earned EXCEPT ![active] = @ \cup {t}] /\ UNCHANGED <<active, stored>>
  BY <1>2 DEF set_verdict
<1> HIDE DEF totals
<1>4. IsMaps(new) /\ Verdicts(new) = Verdicts(next)
  BY <1>2, OtherFields
<1> HIDE DEF new
<1>5. health' = [loaded |-> health.loaded, maps |-> new] /\ health'.loaded = health.loaded
  BY <1>3 DEF ScopesInv, HealthTypeOK
<1>6. /\ earned' \in [HealthKeys -> SUBSET Titles] /\ \A k \in HealthKeys : earned[k] \subseteq earned'[k]
      /\ t \in earned'[active]
  BY <1>1, <1>3 DEF ScopesInv, HealthTypeOK
<1>7. Verdicts(new) \subseteq earned'[active'] \cup earned'[Legacy] /\ active' \in Scopes
  BY <1>1, <1>2, <1>3, <1>4, <1>6 DEF ScopesInv, HealthTypeOK
<1> QED
  BY <1>3, <1>4, <1>5, <1>6, <1>7, LoadKeeps

\* Memory is emptied by a clear, a switch and a restart.
LEMMA ForgetKeeps ==
  ASSUME ScopesInv, health_clear_all \/ Restart \/ \E s \in Scopes : set_identity_scope(s)
  PROVE  ScopesInv'
<1>1. PICK m : IsMaps(m) /\ Verdicts(m) = {} /\ health' = [loaded |-> health'.loaded, maps |-> m]
  <2>1. CASE health_clear_all
    <3>1. health' = [loaded |-> TRUE, maps |-> [EmptyMaps EXCEPT !.tot = TRUE]]
      BY <2>1 DEF health_clear_all
    <3> QED
      BY <3>1, NoVerdicts, OtherFields
  <2>2. CASE Restart \/ \E s \in Scopes : set_identity_scope(s)
    <3>1. health' = [loaded |-> FALSE, maps |-> EmptyMaps]
      BY <2>2 DEF Restart, set_identity_scope
    <3> QED
      BY <3>1, NoVerdicts
  <2> QED
    BY <2>1, <2>2
<1>2. active' \in Scopes /\ UNCHANGED <<stored, earned>>
  BY HealthConstants DEF health_clear_all, Restart, set_identity_scope, ScopesInv, HealthTypeOK
<1> QED
  BY <1>1, <1>2, LoadKeeps DEF ScopesInv, HealthTypeOK

\* Every step keeps the invariant.
LEMMA NextScopesInv == ScopesInv /\ [HealthNext]_healthVars => ScopesInv'
<1> SUFFICES ASSUME ScopesInv, [HealthNext]_healthVars PROVE ScopesInv'
  OBVIOUS
<1>1. CASE UNCHANGED healthVars
  BY <1>1 DEF healthVars, ScopesInv, HealthTypeOK
<1> QED
  BY <1>1, EnsureLoadedKeeps, RecordKeeps, ForgetKeeps DEF HealthNext

(* No switch, migration or restart shows an identity what was recorded under *)
(* another (provider_health.rs).                                             *)
THEOREM Apart == HealthSpec => []ScopesApart
<1>1. ScopesInv => ScopesApart
  BY DEF ScopesInv, ScopesApart, HealthKeys
<1> QED
  BY InitScopesInv, NextScopesInv, <1>1, PTL DEF HealthSpec
-----------------------------------------------------------------------------
(* The totals.  What a provider's titles are worth is a sum over them; a     *)
(* total is under it in every set of maps, those from before scopes too.     *)

Nets(m) == [t \in Titles |-> Net(m, t)]
Worths(m) == [t \in Titles |-> Floor(Net(m, t))]

Backed(m) ==
  /\ IsMaps(m) /\ m.totals \in [Providers -> Int]
  /\ \A p \in Providers : m.totals[p] \in 0..Total(Worths(m), Of(p))

TotalsInv == ScopesInv /\ Backed(health.maps) /\ \A k \in HealthKeys : Backed(stored[k])

\* A worth is a net that is above zero.
LEMMA FloorIs ==
  ASSUME NEW n \in Int
  PROVE  Floor(n) \in Nat /\ Floor(n) = IF n > 0 THEN n ELSE 0
<1>1. \E x \in {0, n} : \A y \in {0, n} : x >= y
  OBVIOUS
<1>2. Max({0, n}) \in {0, n} /\ \A y \in {0, n} : Max({0, n}) >= y
  BY <1>1 DEF Max
<1> DEFINE x == Max({0, n})
<1>3. x \in {0, n} /\ x >= 0 /\ x >= n
  BY <1>2
<1> HIDE DEF x
<1>4. x \in Nat /\ x = IF n > 0 THEN n ELSE 0
  BY <1>3
<1> QED
  BY <1>4 DEF Floor, x

\* The titles of an identity are finitely many, and each has a net and a worth.
LEMMA TitlesOf ==
  ASSUME NEW m, IsMaps(m), NEW p
  PROVE  /\ IsFiniteSet(Of(p)) /\ Of(p) \subseteq Titles
         /\ \A t \in Titles : Net(m, t) \in Int /\ Nets(m)[t] = Net(m, t)
         /\ \A t \in Titles : Worths(m)[t] \in Nat /\ Worths(m)[t] = Floor(Net(m, t))
<1>1. IsFiniteSet(Of(p)) /\ Of(p) \subseteq Titles
  BY HealthConstants, FS_Subset DEF Of
<1>2. \A t \in Titles : Net(m, t) \in Int
  BY DEF Net, IsMaps
<1> QED
  BY <1>1, <1>2, FloorIs DEF Nets, Worths

\* The sums of the model are totals.
LEMMA WorthSum ==
  ASSUME NEW m, IsMaps(m), NEW p
  PROVE  MapThenSumSet(LAMBDA t : Floor(Net(m, t)), Of(p)) = Total(Worths(m), Of(p))
<1> DEFINE S == Of(p)
           sums(g) == g = [s \in SUBSET S |-> IF s = {} THEN 0 ELSE Floor(Net(m, Taken(s))) + g[s \ {Taken(s)}]]
           c == CHOOSE g : sums(g)
<1>1. IsFiniteSet(S) /\ \A t \in S : Worths(m)[t] \in Int
  BY TitlesOf
<1>2. \A s \in SUBSET S : s # {} => Worths(m)[Taken(s)] = Floor(Net(m, Taken(s)))
  BY TitlesOf, TakenIn
<1>3. MapThenSumSet(LAMBDA t : Floor(Net(m, t)), S) = c[S]
  BY DEF MapThenSumSet, MapThenFoldSet, Taken
<1> HIDE DEF S
<1>4. PICK g : SumsTo(g, Worths(m), S)
  BY <1>1, SumExists
<1>5. sums(g)
  BY <1>2, <1>4 DEF SumsTo
<1>6. sums(c)
  <2> HIDE DEF sums
  <2> QED
    BY <1>5
<1> HIDE DEF c
<1>7. SumsTo(c, Worths(m), S)
  BY <1>2, <1>6 DEF SumsTo
<1>8. Total(Worths(m), S) = c[S]
  BY <1>1, <1>7, TotalIs
<1> QED
  BY <1>3, <1>8 DEF S

\* What the code sums for an identity is the total of its titles' nets.
LEMMA NetSum ==
  ASSUME NEW m, IsMaps(m), NEW p
  PROVE  NetOf(m, p) = Total(Nets(m), Of(p))
<1> DEFINE S == Of(p)
           sums(g) == g = [s \in SUBSET S |-> IF s = {} THEN 0 ELSE Net(m, Taken(s)) + g[s \ {Taken(s)}]]
           c == CHOOSE g : sums(g)
<1>1. IsFiniteSet(S) /\ \A t \in S : Nets(m)[t] \in Int
  BY TitlesOf
<1>2. \A s \in SUBSET S : s # {} => Nets(m)[Taken(s)] = Net(m, Taken(s))
  BY TitlesOf, TakenIn
<1>3. NetOf(m, p) = c[S]
  BY DEF NetOf, MapThenSumSet, MapThenFoldSet, Taken
<1> HIDE DEF S
<1>4. PICK g : SumsTo(g, Nets(m), S)
  BY <1>1, SumExists
<1>5. sums(g)
  BY <1>2, <1>4 DEF SumsTo
<1>6. sums(c)
  <2> HIDE DEF sums
  <2> QED
    BY <1>5
<1> HIDE DEF c
<1>7. SumsTo(c, Nets(m), S)
  BY <1>2, <1>6 DEF SumsTo
<1>8. Total(Nets(m), S) = c[S]
  BY <1>1, <1>7, TotalIs
<1> QED
  BY <1>3, <1>8 DEF S

\* Maps without totals are backed by whatever their titles are worth.
LEMMA ZeroBacked ==
  ASSUME NEW m, IsMaps(m), m.totals = [p \in Providers |-> 0]
  PROVE  Backed(m)
<1>1. \A p \in Providers : Total(Worths(m), Of(p)) \in Nat
  BY TitlesOf, TotalNat
<1> QED
  BY <1>1 DEF Backed

\* So are totals that are computed anew, and the flag is no matter.
LEMMA RebuiltBacked ==
  ASSUME NEW m, IsMaps(m), NEW x
  PROVE  Backed([m EXCEPT !.tot = x, !.totals = rebuild_provider_totals(m)])
<1> DEFINE r == rebuild_provider_totals(m)
           n == [m EXCEPT !.tot = x, !.totals = r]
<1>1. IsMaps(n) /\ n.totals = r /\ n.server = m.server /\ n.stream = m.stream
  <2> HIDE DEF r
  <2> DEFINE f == [m EXCEPT !.tot = x]
  <2>1. IsMaps(f) /\ f.server = m.server /\ f.stream = m.stream
    BY DEF IsMaps
  <2>2. n = [f EXCEPT !.totals = r]
    OBVIOUS
  <2> HIDE DEF f, n
  <2>3. IsMaps(n) /\ n.totals = r /\ n.server = f.server /\ n.stream = f.stream
    BY <2>1, <2>2 DEF IsMaps
  <2> QED
    BY <2>1, <2>3
<1>2. Worths(n) = Worths(m)
  BY <1>1 DEF Worths, Net
<1>3. ASSUME NEW p \in Providers
      PROVE  r[p] \in 0..Total(Worths(m), Of(p))
  <2>1. r[p] = Floor(NetOf(m, p)) /\ NetOf(m, p) = Total(Nets(m), Of(p))
    BY NetSum DEF rebuild_provider_totals
  <2>2. \A t \in Of(p) : Nets(m)[t] \in Int /\ Worths(m)[t] \in Int /\ Nets(m)[t] <= Worths(m)[t]
    BY TitlesOf, FloorIs
  <2>3. /\ Total(Nets(m), Of(p)) \in Int /\ Total(Worths(m), Of(p)) \in Nat
        /\ Total(Nets(m), Of(p)) <= Total(Worths(m), Of(p))
    BY <2>2, TitlesOf, TotalType, TotalMonotone, TotalNat
  <2>4. r[p] \in Nat /\ r[p] = IF NetOf(m, p) > 0 THEN NetOf(m, p) ELSE 0
    BY <2>1, <2>3, FloorIs
  <2> QED
    BY <2>1, <2>3, <2>4
<1>4. r \in [Providers -> Int]
  <2>1. r = [p \in Providers |-> r[p]] /\ \A p \in Providers : Total(Worths(m), Of(p)) \in Nat
    BY TitlesOf, TotalNat DEF rebuild_provider_totals
  <2>2. \A p \in Providers : r[p] \in Int
    BY <1>3, <2>1
  <2> HIDE DEF r
  <2> QED
    BY <2>1, <2>2
<1> HIDE DEF n, r
<1>5. Backed(n)
  BY <1>1, <1>2, <1>3, <1>4 DEF Backed
<1> QED
  BY <1>5 DEF n, r

\* Writing down that the totals were made backs no other total.
LEMMA FlagBacked ==
  ASSUME NEW m, Backed(m), NEW x
  PROVE  Backed([m EXCEPT !.tot = x])
<1> DEFINE n == [m EXCEPT !.tot = x]
<1>1. IsMaps(n) /\ n.totals = m.totals /\ n.server = m.server /\ n.stream = m.stream
  BY DEF Backed, IsMaps
<1>2. Worths(n) = Worths(m)
  BY <1>1 DEF Worths, Net
<1> HIDE DEF n
<1>3. Backed(n)
  BY <1>1, <1>2 DEF Backed
<1> QED
  BY <1>3 DEF n

(* What a verdict gives a provider is at most what it adds to the worth of   *)
(* its title: the arithmetic of credited_global_delta.                       *)
LEMMA CreditBacked ==
  ASSUME NEW b \in Int, NEW a \in Int
  PROVE  /\ credited_global_delta(b, a) \in Int
         /\ credited_global_delta(b, a) <= Floor(a) - Floor(b)
<1>1. Floor(a) = IF a > 0 THEN a ELSE 0
  BY FloorIs
<1>2. Floor(b) = IF b > 0 THEN b ELSE 0
  BY FloorIs
<1>3. -b \in Int
  OBVIOUS
<1> DEFINE f == Floor(-b)
<1>4. f \in Nat /\ f = IF -b > 0 THEN -b ELSE 0
  BY <1>3, FloorIs
<1> HIDE DEF f
<1> DEFINE d == a - b - f
<1>5. d \in Int
  BY <1>4
<1>6. Floor(d) \in Nat /\ Floor(d) = IF d > 0 THEN d ELSE 0
  <2> HIDE DEF d
  <2> QED
    BY <1>5, FloorIs
<1>7. credited_global_delta(b, a) = IF a <= b THEN a - b ELSE Floor(d)
  BY DEF credited_global_delta, f
<1> QED
  BY <1>1, <1>2, <1>4, <1>6, <1>7

\* A verdict changes the worth of its title, and the total of its provider.
LEMMA VerdictBacked ==
  ASSUME NEW m, Backed(m), NEW n, IsMaps(n), NEW t \in Titles,
         \A u \in Titles \ {t} : n.server[u] = m.server[u] /\ n.stream[u] = m.stream[u]
  PROVE  Backed([n EXCEPT !.totals = apply_provider_delta(m, t, Net(n, t))])
<1> DEFINE p == provider_from_memory_key[t]
           delta == credited_global_delta(Net(m, t), Net(n, t))
           tots == apply_provider_delta(m, t, Net(n, t))
           k == [n EXCEPT !.totals = tots]
<1>1. /\ IsMaps(m) /\ m.totals \in [Providers -> Int] /\ p \in Providers
      /\ \A q \in Providers : m.totals[q] \in 0..Total(Worths(m), Of(q))
  BY HealthConstants DEF Backed
<1>2. /\ Net(m, t) \in Int /\ Net(n, t) \in Int
      /\ Worths(m)[t] = Floor(Net(m, t)) /\ Worths(n)[t] = Floor(Net(n, t))
      /\ Worths(m)[t] \in Nat /\ Worths(n)[t] \in Nat
  BY <1>1, TitlesOf
<1>3. delta \in Int /\ delta <= Worths(n)[t] - Worths(m)[t]
  BY <1>2, CreditBacked
<1>4. tots = [m.totals EXCEPT ![p] = Floor(m.totals[p] + delta)]
  BY DEF apply_provider_delta
<1>5. \A u \in Titles \ {t} : Worths(n)[u] = Worths(m)[u]
  BY DEF Worths, Net
<1>6. \A q \in Providers : /\ IsFiniteSet(Of(q)) /\ Total(Worths(m), Of(q)) \in Nat
                           /\ Total(Worths(n), Of(q)) \in Nat /\ Of(q) \subseteq Titles
                           /\ \A u \in Of(q) : Worths(m)[u] \in Int /\ Worths(n)[u] \in Int
  BY <1>1, TitlesOf, TotalNat
<1>7. \A q \in Providers \ {p} : Total(Worths(n), Of(q)) = Total(Worths(m), Of(q))
  <2> SUFFICES ASSUME NEW q \in Providers \ {p}
               PROVE  Total(Worths(n), Of(q)) = Total(Worths(m), Of(q))
    OBVIOUS
  <2>1. \A u \in Of(q) : Worths(m)[u] \in Int /\ Worths(n)[u] = Worths(m)[u]
    BY <1>5, <1>6 DEF Of
  <2> QED
    BY <1>6, <2>1, TotalSame
<1>8. Total(Worths(n), Of(p)) = Total(Worths(m), Of(p)) + Worths(n)[t] - Worths(m)[t]
  <2> DEFINE r == Of(p) \ {t}
  <2>1. t \in Of(p) /\ IsFiniteSet(r) /\ \A u \in r : Worths(m)[u] \in Int /\ Worths(n)[u] = Worths(m)[u]
    BY <1>1, <1>5, <1>6, FS_Subset DEF Of
  <2>2. /\ Total(Worths(n), Of(p)) = Worths(n)[t] + Total(Worths(n), r)
        /\ Total(Worths(m), Of(p)) = Worths(m)[t] + Total(Worths(m), r)
    BY <1>1, <1>6, <2>1, TotalRemove
  <2> HIDE DEF r
  <2>3. Total(Worths(n), r) = Total(Worths(m), r) /\ Total(Worths(m), r) \in Int
    BY <2>1, TotalSame, TotalType
  <2> QED
    BY <1>2, <2>2, <2>3
<1> HIDE DEF p, delta
<1>9. m.totals[p] + delta \in Int
  BY <1>1, <1>3
<1>10. /\ Floor(m.totals[p] + delta) \in Nat
       /\ Floor(m.totals[p] + delta) = IF m.totals[p] + delta > 0 THEN m.totals[p] + delta ELSE 0
  BY <1>9, FloorIs
<1>11. Floor(m.totals[p] + delta) \in 0..Total(Worths(n), Of(p))
  <2>1. m.totals[p] \in 0..Total(Worths(m), Of(p)) /\ Total(Worths(m), Of(p)) \in Nat
        /\ Total(Worths(n), Of(p)) \in Nat
    BY <1>1, <1>6
  <2> QED
    BY <1>2, <1>3, <1>8, <1>10, <2>1
<1> HIDE DEF tots
<1>12. /\ tots \in [Providers -> Int] /\ tots[p] = Floor(m.totals[p] + delta)
       /\ \A q \in Providers \ {p} : tots[q] = m.totals[q]
  BY <1>1, <1>4, <1>10
<1>13. \A q \in Providers : tots[q] \in 0..Total(Worths(n), Of(q))
  BY <1>1, <1>7, <1>11, <1>12
<1>14. IsMaps(k) /\ k.totals = tots /\ k.server = n.server /\ k.stream = n.stream
  BY DEF IsMaps
<1>15. Worths(k) = Worths(n)
  BY <1>14 DEF Worths, Net
<1> HIDE DEF k
<1>16. Backed(k)
  BY <1>12, <1>13, <1>14, <1>15 DEF Backed
<1> QED
  BY <1>16 DEF k, tots

\* Maps that hold nothing hold no total.
LEMMA EmptyBacked == Backed(NoMaps) /\ Backed(EmptyMaps)
<1>1. NoMaps.totals = [p \in Providers |-> 0] /\ EmptyMaps.totals = NoMaps.totals
  <2>1. \A x : [NoMaps EXCEPT !.there = x].totals = NoMaps.totals
    BY DEF NoMaps
  <2> QED
    BY <2>1 DEF NoMaps, EmptyMaps
<1> QED
  BY <1>1, NoVerdicts, ZeroBacked

\* The first state satisfies the invariant.
LEMMA InitTotals == HealthInit => TotalsInv
<1> SUFFICES ASSUME HealthInit PROVE TotalsInv
  OBVIOUS
<1> DEFINE old(t, v) == [EmptyMaps EXCEPT !.server[t] = v, !.stream[t] = v]
<1>1. PICK t \in Titles, v \in {UP, FAIL} :
        stored = [k \in HealthKeys |-> IF k = Legacy THEN old(t, v) ELSE NoMaps]
  BY DEF HealthInit, HealthKeys
<1>2. Backed(old(t, v))
  <2> DEFINE up == [EmptyMaps EXCEPT !.server[t] = v]
             both == [up EXCEPT !.stream[t] = v]
  <2>1. old(t, v) = both /\ v \in Int
    BY NoVerdicts DEF UP, FAIL, IsMaps
  <2>2. IsMaps(up) /\ up.totals = EmptyMaps.totals
    BY <2>1, NoVerdicts DEF IsMaps
  <2> HIDE DEF up
  <2>3. IsMaps(both) /\ both.totals = up.totals
    BY <2>1, <2>2 DEF IsMaps
  <2>4. EmptyMaps.totals = [p \in Providers |-> 0]
    <3>1. \A x : [NoMaps EXCEPT !.there = x].totals = NoMaps.totals
      BY DEF NoMaps
    <3> QED
      BY <3>1 DEF NoMaps, EmptyMaps
  <2> HIDE DEF both, old
  <2> QED
    BY <2>1, <2>2, <2>3, <2>4, ZeroBacked
<1> HIDE DEF old
<1>3. \A k \in HealthKeys : Backed(stored[k])
  BY <1>1, <1>2, EmptyBacked
<1>4. Backed(health.maps)
  BY EmptyBacked DEF HealthInit
<1> QED
  BY <1>3, <1>4, InitScopesInv DEF TotalsInv

\* Every step keeps it.
LEMMA NextTotals == TotalsInv /\ [HealthNext]_healthVars => TotalsInv'
<1> SUFFICES ASSUME TotalsInv, [HealthNext]_healthVars
             PROVE  Backed(health'.maps) /\ \A k \in HealthKeys : Backed(stored'[k])
  BY NextScopesInv DEF TotalsInv, Backed
<1>1. /\ Backed(health.maps) /\ \A k \in HealthKeys : Backed(stored[k])
      /\ active \in HealthKeys /\ Legacy \in HealthKeys /\ stored = [k \in HealthKeys |-> stored[k]]
      /\ health = [loaded |-> health.loaded, maps |-> health.maps]
  BY DEF TotalsInv, ScopesInv, HealthTypeOK, HealthKeys
<1>2. CASE UNCHANGED healthVars
  BY <1>1, <1>2 DEF healthVars
<1>3. ASSUME NEW k \in HealthKeys, NEW m, Backed(m), TrySet(k, m), health' = health
      PROVE  Backed(health'.maps) /\ \A j \in HealthKeys : Backed(stored'[j])
  BY <1>1, <1>3 DEF TrySet
<1>4. CASE MigrateCopies
  BY <1>1, <1>3, <1>4 DEF MigrateCopies
<1>5. CASE MigrateWipes
  BY <1>1, <1>3, <1>5, EmptyBacked DEF MigrateWipes
<1>6. CASE persist
  BY <1>1, <1>3, <1>6 DEF persist
<1>7. CASE ReadMaps
  <2> DEFINE m == IF stored[active].there THEN stored[active] ELSE EmptyMaps
             new == IF m.tot \/ ~stored[active].there THEN [m EXCEPT !.tot = TRUE]
                    ELSE [m EXCEPT !.tot = TRUE, !.totals = rebuild_provider_totals(m)]
  <2>1. health' = [loaded |-> TRUE, maps |-> new] /\ stored' = stored
    BY <1>7 DEF ReadMaps
  <2>2. Backed(m)
    BY <1>1, EmptyBacked
  <2> HIDE DEF m
  <2>3. IsMaps(m)
    BY <2>2 DEF Backed
  <2>4. /\ Backed([m EXCEPT !.tot = TRUE])
        /\ Backed([m EXCEPT !.tot = TRUE, !.totals = rebuild_provider_totals(m)])
    BY <2>2, <2>3, FlagBacked, RebuiltBacked
  <2>5. Backed(new)
    BY <2>4
  <2> HIDE DEF new
  <2> QED
    BY <1>1, <2>1, <2>5
<1>8. ASSUME NEW t \in Titles,
             \/ record_server(t, UP) \/ record_server(t, FAIL)
             \/ record_stream_up(t) \/ record_stream_fail(t)
      PROVE  Backed(health'.maps) /\ stored' = stored
  <2>1. IsMaps(health.maps) /\ UP \in Int /\ FAIL \in Int
    BY <1>1 DEF Backed, UP, FAIL
  <2> DEFINE Near(n) == IsMaps(n) /\ \A u \in Titles \ {t} : /\ n.server[u] = health.maps.server[u]
                                                           /\ n.stream[u] = health.maps.stream[u]
  <2>2. \A v \in Int : /\ Near([health.maps EXCEPT !.server[t] = v])
                      /\ Near([health.maps EXCEPT !.stream[t] = v])
    BY <2>1 DEF IsMaps
  <2> HIDE DEF Near
  <2>3. \E v \in Int : \/ set_verdict(t, [health.maps EXCEPT !.server[t] = v])
                      \/ set_verdict(t, [health.maps EXCEPT !.stream[t] = v])
    BY <1>8, <2>1 DEF record_server, record_stream_up, record_stream_fail
  <2>4. PICK n : Near(n) /\ set_verdict(t, n)
    BY Zenon, <2>2, <2>3
  <2> DEFINE new == [n EXCEPT !.totals = apply_provider_delta(health.maps, t, Net(n, t))]
  <2>5. health' = [health EXCEPT !.maps = new] /\ stored' = stored
    BY <2>4 DEF set_verdict
  <2>6. Backed(new)
    BY <1>1, <2>4, VerdictBacked DEF Near
  <2> HIDE DEF new
  <2> QED
    BY <1>1, <2>5, <2>6
<1>9. CASE health_clear_all \/ Restart \/ \E s \in Scopes : set_identity_scope(s)
  <2>1. Backed([EmptyMaps EXCEPT !.tot = TRUE])
    BY EmptyBacked, FlagBacked
  <2>2. health'.maps \in {EmptyMaps, [EmptyMaps EXCEPT !.tot = TRUE]} /\ stored' = stored
    BY <1>9 DEF health_clear_all, Restart, set_identity_scope
  <2> QED
    BY <1>1, <2>1, <2>2, EmptyBacked
<1> QED
  BY <1>1, <1>2, <1>4, <1>5, <1>6, <1>7, <1>8, <1>9 DEF HealthNext

(* However verdicts rise and fall, and wherever the maps are stored, read,    *)
(* migrated or lost, a provider's total is at most what its titles are worth. *)
THEOREM NoPhantom == HealthSpec => []NoPhantomTotal
<1>1. TotalsInv => NoPhantomTotal
  <2> SUFFICES ASSUME TotalsInv PROVE NoPhantomTotal
    OBVIOUS
  <2>1. ASSUME NEW m, Backed(m)
        PROVE  TotalsBacked(m)
    <3>1. \A p \in Providers : m.totals[p] \in 0..Total(Worths(m), Of(p))
      BY <2>1 DEF Backed
    <3>2. \A p \in Providers : MapThenSumSet(LAMBDA t : Floor(Net(m, t)), Of(p)) = Total(Worths(m), Of(p))
      BY <2>1, WorthSum DEF Backed
    <3> QED
      BY <3>1, <3>2 DEF TotalsBacked
  <2>2. Backed(health.maps) /\ \A s \in Scopes : Backed(stored[s])
    BY DEF TotalsInv, HealthKeys
  <2> QED
    BY <2>1, <2>2 DEF NoPhantomTotal
<1> QED
  BY InitTotals, NextTotals, <1>1, PTL DEF HealthSpec

===============================================================================
