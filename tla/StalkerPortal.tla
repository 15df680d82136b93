---------------------------- MODULE StalkerPortal ----------------------------
(***************************************************************************)
(* crates/iptv/src/stalker_client.rs: a catalog job against a Stalker      *)
(* portal.  Handshake, cached token, retries, and the walk over the pages  *)
(* of a list, several at a time, each page in a task of its own.           *)
(*                                                                         *)
(* A token is a number.  The handshake of connect, page 1 and the pages of *)
(* a serial walk are fetched by the job's own task, which has the job's    *)
(* cancellation token; a task of a parallel walk has none and asks the     *)
(* token of whatever worker thread polls it (utils::engine_cancel): the    *)
(* last one enter_job left there.                                          *)
(***************************************************************************)
EXTENDS Integers, Sequences, FiniteSets

CONSTANTS LastPage, WALK_CONCURRENCY, TRANSIENT_MAX_ATTEMPTS,
          CandidatePaths,   \* middleware endpoints to try, 1..n
          Workers,          \* worker threads of the runtime
          MaxTrouble,       \* bound: what the portal does wrong in a run
          OneToken          \* the portal keeps only the last token of a device

ASSUME StalkerConstants == /\ {LastPage, WALK_CONCURRENCY, TRANSIENT_MAX_ATTEMPTS} \subseteq Nat \ {0}
                           /\ MaxTrouble \in Nat /\ OneToken \in BOOLEAN

Pages == 1..LastPage
Connect == 0               \* the caller that is connect
Callers == {Connect} \cup Pages

VARIABLES issued,    \* tokens the portal gave out: 1..issued
          valid,     \* those it accepts
          expired,   \* those it let expire
          trouble,   \* errors it answered with
          cache,     \* SESSION_CACHE, 0: empty
          endpoint,  \* the session's endpoint, 0: none
          call,      \* call[c]: the get_js of caller c
          job,       \* pc, mode of the walk, next page to spawn, whether cancelled;
                     \* stale is a ghost: a page gave up on another job's token
          got,       \* pages in the result
          failed,    \* ghost: pages the portal answered with an error to the end
          local      \* local[w]: JOB_TOKEN of worker w: "none", "job" or "cancelled"

stalkerVars == <<issued, valid, expired, trouble, cache, endpoint, call, job, got, failed, local>>

NoCall == [pc |-> "off", refreshed |-> FALSE, attempt |-> 1, tok |-> 0, path |-> 1, try |-> 1]

StalkerInit ==
  /\ issued = 0 /\ valid = {} /\ expired = {} /\ trouble = 0 /\ cache = 0 /\ endpoint = 0
  /\ call = [c \in Callers |-> NoCall] /\ got = {} /\ failed = {}
  /\ job = [pc |-> "idle", mode |-> "none", next |-> 2, stopped |-> FALSE, stale |-> FALSE]
  /\ local = [w \in Workers |-> "none"]

-----------------------------------------------------------------------------
(* The workers, the portal and the host's Cancel *)

\* request_json_async of some other portal or indexer
enter_job(w) ==
  /\ job.pc = "idle" /\ local' = [local EXCEPT ![w] = "job"]
  /\ UNCHANGED <<issued, valid, expired, trouble, cache, endpoint, call, job, got, failed>>

(* The ROOT token and its children are cancelled; the slot of another thread *)
(* keeps its child.                                                          *)
request ==
  /\ \E w \in Workers : local[w] = "job"
  /\ local' = [w \in Workers |-> IF local[w] = "job" THEN "cancelled" ELSE local[w]]
  /\ job' = [job EXCEPT !.stopped = (job.pc # "idle")]
  /\ UNCHANGED <<issued, valid, expired, trouble, cache, endpoint, call, got, failed>>

Expire ==
  /\ valid # {} /\ trouble < MaxTrouble /\ trouble' = trouble + 1
  /\ expired' = expired \cup valid /\ valid' = {}
  /\ UNCHANGED <<issued, cache, endpoint, call, job, got, failed, local>>

(* is_requested, as caller c may and as it must find it. *)
InJob(c) == c \in {Connect, 1} \/ job.mode = "serial"
SeesCancel(c) == IF InJob(c) THEN job.stopped ELSE \E w \in Workers : local[w] = "cancelled"
MustCancel(c) == IF InJob(c) THEN job.stopped ELSE \A w \in Workers : local[w] = "cancelled"

-----------------------------------------------------------------------------
(* get_js *)

Goes(c, r) == call' = [call EXCEPT ![c] = r]
Give(c, pc) == Goes(c, [call[c] EXCEPT !.pc = pc])

(* ensure_session: the session's token, then the process's; a refresh takes  *)
(* neither.  clear_cached_endpoint empties the process's cache only.         *)
ensure_session(c) ==
  LET tok == IF endpoint # 0 THEN endpoint ELSE cache
  IN  /\ call[c].pc = "session"
      /\ IF ~call[c].refreshed /\ tok # 0
         THEN /\ Goes(c, [call[c] EXCEPT !.pc = "request", !.tok = tok]) /\ endpoint' = tok
              /\ cache' = cache
         ELSE /\ Goes(c, [call[c] EXCEPT !.pc = "handshake", !.path = 1, !.try = 1]) /\ cache' = 0
              /\ endpoint' = endpoint
      /\ UNCHANGED <<issued, valid, expired, trouble, job, got, failed, local>>

Cancelled(c) ==
  /\ call[c].pc \in {"handshake", "request"} /\ SeesCancel(c) /\ Give(c, "failed")
  /\ job' = [job EXCEPT !.stale = @ \/ ~job.stopped]
  /\ UNCHANGED <<issued, valid, expired, trouble, cache, endpoint, got, failed, local>>

HandshakeOk(c) ==
  /\ call[c].pc = "handshake" /\ ~MustCancel(c) /\ issued' = issued + 1
  /\ valid' = IF OneToken THEN {issued + 1} ELSE valid \cup {issued + 1}
  /\ Goes(c, [call[c] EXCEPT !.pc = "store", !.tok = issued + 1])
  /\ UNCHANGED <<expired, trouble, cache, endpoint, job, got, failed, local>>

(* A transient error is tried again, then the next path; the last one fails. *)
HandshakeFails(c, transient) ==
  LET k == call[c] IN
  /\ k.pc = "handshake" /\ ~MustCancel(c) /\ trouble < MaxTrouble /\ trouble' = trouble + 1
  /\ \/ transient /\ k.try < TRANSIENT_MAX_ATTEMPTS /\ Goes(c, [k EXCEPT !.try = @ + 1]) /\ failed' = failed
     \/ /\ (transient => k.try = TRANSIENT_MAX_ATTEMPTS) /\ k.path < CandidatePaths
        /\ Goes(c, [k EXCEPT !.path = @ + 1, !.try = 1]) /\ failed' = failed
     \/ /\ (transient => k.try = TRANSIENT_MAX_ATTEMPTS) /\ k.path = CandidatePaths
        /\ Give(c, "failed") /\ failed' = failed \cup {c}
  /\ UNCHANGED <<issued, valid, expired, cache, endpoint, job, got, local>>

(* After get_profile and set_timezone, whose errors do not matter. *)
store_endpoint(c) ==
  /\ call[c].pc = "store" /\ endpoint' = call[c].tok /\ cache' = call[c].tok
  /\ Give(c, IF c = Connect THEN "ok" ELSE "request")
  /\ UNCHANGED <<issued, valid, expired, trouble, job, got, failed, local>>

RequestOk(c) ==
  /\ call[c].pc = "request" /\ ~MustCancel(c) /\ (c # Connect => call[c].tok \in valid) /\ Give(c, "ok")
  /\ UNCHANGED <<issued, valid, expired, trouble, cache, endpoint, job, got, failed, local>>

\* A refused token ends the call, without a refresh.
RefreshesNever(c) ==
  /\ call[c].pc = "request" /\ ~MustCancel(c) /\ call[c].tok \notin valid
  /\ Give(c, "failed") /\ failed' = failed
  /\ UNCHANGED <<issued, valid, expired, trouble, cache, endpoint, job, got, local>>

(* 401 or 403: one refresh. *)
AuthFails(c) ==
  LET k == call[c] IN
  /\ k.pc = "request" /\ ~MustCancel(c) /\ c # Connect /\ k.tok \notin valid
  /\ IF k.refreshed THEN Give(c, "failed") /\ failed' = IF k.tok \in expired THEN failed \cup {c} ELSE failed
     ELSE Goes(c, [k EXCEPT !.pc = "session", !.refreshed = TRUE, !.attempt = @ + 1]) /\ failed' = failed
  /\ UNCHANGED <<issued, valid, expired, trouble, cache, endpoint, job, got, local>>

(* A transient error is tried again up to the limit; any other ends the call. *)
RequestFails(c, transient) ==
  LET k == call[c] IN
  /\ k.pc = "request" /\ ~MustCancel(c) /\ c # Connect /\ trouble < MaxTrouble /\ trouble' = trouble + 1
  /\ IF transient /\ k.attempt < TRANSIENT_MAX_ATTEMPTS
     THEN Goes(c, [k EXCEPT !.pc = "session", !.attempt = @ + 1]) /\ failed' = failed
     ELSE Give(c, "failed") /\ failed' = failed \cup {c}
  /\ UNCHANGED <<issued, valid, expired, cache, endpoint, job, got, local>>

-----------------------------------------------------------------------------
(* The job *)

(* request_json_async: enter_job on the worker it starts on, then connect. *)
request_json_async(w) ==
  /\ job.pc = "idle" /\ local' = [local EXCEPT ![w] = "job"]
  /\ job' = [job EXCEPT !.pc = "connect"] /\ call' = [call EXCEPT ![Connect].pc = "session"]
  /\ UNCHANGED <<issued, valid, expired, trouble, cache, endpoint, got, failed>>

Connected ==
  /\ job.pc = "connect" /\ call[Connect].pc \in {"ok", "request", "failed"}
  /\ IF call[Connect].pc = "failed" THEN job' = [job EXCEPT !.pc = "error"] /\ call' = call
     ELSE job' = [job EXCEPT !.pc = "first"] /\ call' = [call EXCEPT ![1].pc = "session"]
  /\ UNCHANGED <<issued, valid, expired, trouble, cache, endpoint, got, failed, local>>

Spawned(c0, first, n) == [c \in Callers |-> IF c \in first..(first + n - 1) THEN [NoCall EXCEPT !.pc = "session"]
                                            ELSE c0[c]]
AtMost(n, m) == IF n < m THEN n ELSE m

(* fetch_ordered_list: page 1 says how many there are, or not. *)
FirstPage(mode) ==
  /\ job.pc = "first" /\ call[1].pc \in {"ok", "failed"}
  /\ LET n == IF mode = "serial" THEN AtMost(1, LastPage - 1) ELSE AtMost(WALK_CONCURRENCY, LastPage - 1)
     IN  IF call[1].pc = "failed" THEN job' = [job EXCEPT !.pc = "error"] /\ UNCHANGED <<call, got>>
         ELSE /\ got' = {1} /\ call' = Spawned(call, 2, n)
              /\ job' = [job EXCEPT !.pc = IF LastPage = 1 THEN "done" ELSE "walk", !.mode = mode,
                                    !.next = 2 + n]
  /\ UNCHANGED <<issued, valid, expired, trouble, cache, endpoint, failed, local>>

Open(c0) == {p \in Pages \ {1} : c0[p].pc # "off"}

(* A page that failed is left out of a parallel walk and ends a serial one.  *)
Dropped(p) == {q \in Pages : call[p].pc = "failed" /\ job.mode = "serial" /\ q >= job.next}

(* A page is there.  join_next of a cancelled job aborts the other pages, a  *)
(* serial walk asks before its next page; else the next one starts.          *)
JoinPage(p) ==
  LET rest == [call EXCEPT ![p] = NoCall]
      goOn == job.next <= LastPage /\ job.next \notin Dropped(p)
      c1 == IF goOn THEN Spawned(rest, job.next, 1) ELSE rest
  IN  /\ job.pc = "walk" /\ p # 1 /\ call[p].pc \in {"ok", "failed"}
      /\ IF job.stopped /\ (job.mode = "parallel" \/ goOn)
         THEN /\ job' = [job EXCEPT !.pc = "cancelled"] /\ got' = {} /\ call' = [c \in Callers |-> NoCall]
         ELSE /\ got' = IF call[p].pc = "ok" THEN got \cup {p} ELSE got
              /\ call' = c1
              /\ job' = [job EXCEPT !.pc = IF Open(c1) = {} THEN "done" ELSE "walk",
                                    !.next = IF goOn THEN @ + 1 ELSE @]
      /\ UNCHANGED <<issued, valid, expired, trouble, cache, endpoint, failed, local>>

-----------------------------------------------------------------------------
StalkerNext ==
  \/ \E w \in Workers : enter_job(w) \/ request_json_async(w)
  \/ request \/ Expire \/ Connected
  \/ \E mode \in {"serial", "parallel"} : FirstPage(mode)
  \/ \E p \in Pages : JoinPage(p)
  \/ \E c \in Callers :
       \/ ensure_session(c) \/ Cancelled(c) \/ HandshakeOk(c) \/ store_endpoint(c) \/ RequestOk(c)
       \/ AuthFails(c)
       \/ \E transient \in BOOLEAN : HandshakeFails(c, transient) \/ RequestFails(c, transient)

StalkerSpec == StalkerInit /\ [][StalkerNext]_stalkerVars

-----------------------------------------------------------------------------
(* Properties *)

(* What is missing from the pages is what the portal would not give; in a    *)
(* serial walk a page it refused costs those after it.                       *)
LacksRefused == \A p \in Pages \ got : \E q \in failed : q = p \/ (job.mode = "serial" /\ q < p)

(* A catalog that is handed back lacks only what the portal would not give:  *)
(* tokens that expire under the pages in flight, their handshakes racing for *)
(* the shared session, and transient errors cost no page.  Left out here are *)
(* cancelled jobs, whose answer nobody reads, and jobs of which a page took  *)
(* another job's cancellation for its own.                                   *)
CatalogWhole == job.pc = "done" /\ ~job.stopped /\ ~job.stale => LacksRefused

(* "Cancel ... aborts in-flight playback HTTP and resets for new jobs"       *)
(* (engine_cancel.rs): a cancel that came before a catalog job began costs   *)
(* that job no page.                                                         *)
CancelResetsForNewJobs == job.pc = "done" /\ ~job.stopped => LacksRefused
==============================================================================
