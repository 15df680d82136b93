----------------------------- MODULE EngineJobs -----------------------------
(***************************************************************************)
(* Async engine jobs: the job store of crates/ffi (engine_jobs.rs), the    *)
(* extract event queues of crates/engine (extract_events.rs) and the Dart  *)
(* waiter isolate that polls both (packages/rust engine_jobs.dart).        *)
(*                                                                         *)
(* Actors: callers that submit jobs, the tokio task of each job, the       *)
(* waiter isolate, and host threads that cancel.  They meet in the JOBS    *)
(* mutex, the queue mutex and ROOT, which are taken one at a time, so a    *)
(* step below is the work done under one lock.                             *)
(***************************************************************************)
EXTENDS CancelTokens, FiniteSets, Sequences

CONSTANTS Jobs,            \* job ids (NEXT_JOB_ID never repeats one)
          NoJob,           \* no id
          Kinds,           \* job kinds
          LiveSportsFetch, \* the kind cancel_all leaves out of its sweep
          EngineJsExtract, \* the kind that emits rows and is watched
          Hosts,           \* host threads that cancel or shut down
          MAX_ROWS,        \* capacity of one event queue
          MaxEmits,        \* bound: rows one extract emits
          MaxCancels       \* bound: cancel calls that are started

ASSUME EngineJobsAssumption ==
    /\ NoJob \notin Jobs
    /\ LiveSportsFetch \in Kinds
    /\ EngineJsExtract \in Kinds
    /\ LiveSportsFetch # EngineJsExtract
    /\ MAX_ROWS \in Nat
    /\ MaxEmits \in Nat
    /\ MaxCancels \in Nat

VARIABLES
  \* the caller of submit
    submitted,  \* "new" -> "minted" -> "inserted" -> "sent"
    kind,       \* its kind argument
  \* JOBS
    outcomes,   \* "absent", "pending", or the JSON of Done: "answer"/"cancelled"
    tokens,     \* ids that have a token entry
    kinds,      \* ids that have a kind entry
  \* token objects and tasks
    parent,     \* the ROOT generation the job's token is a child of
    aborted,    \* ids whose own token was cancelled
    task,       \* "none", "running", "returned", "over"
    json,       \* what run_job_async returned, until it is published
  \* extract events
    queues,     \* ids that have a queue
    rows,       \* rows in the queue
    emitted,    \* rows the plugin has emitted (observer)
    shown,      \* rows handed to onRow (observer)
  \* waiter isolate
    mail,       \* commands sent to the waiter, in order
    watched,    \* ids in its pending and watching maps
    tick,       \* ids the running tick has still to visit
    visit,      \* the visit in progress
    alive,      \* the isolate has not exited
    reply,      \* what the caller's future completed with
  \* hosts
    host,       \* where each host thread stands
    swept,      \* ids minted when a host's cancel_all began (observer)
    caught,     \* ids minted before a cancel_all that has returned (observer)
    cancels     \* cancel calls started (bounded by MaxCancels)

storeVars == <<outcomes, tokens, kinds>>
taskVars == <<parent, aborted, task, json>>
eventVars == <<queues, rows, emitted, shown>>
waiterVars == <<mail, watched, tick, visit, alive, reply>>
hostVars == <<host, swept, caught, cancels>>
vars == <<tokenVars, submitted, kind, storeVars, taskVars, eventVars,
          waiterVars, hostVars>>

\* One visit of a tick; `got' is the result it has taken and not yet sent.
Visit(at, j, got) == [at |-> at, id |-> j, got |-> got]
NoVisit == Visit("none", NoJob, "none")

ShutdownCmd == [cmd |-> "shutdown", id |-> NoJob]
AwaitCmd(j) == [cmd |-> "await", id |-> j]

HostPcs == {"idle", "request", "notify", "catalog", "root", "live", "sweep",
            "lastRequest", "down"}

Messages == {AwaitCmd(j) : j \in Jobs} \cup {ShutdownCmd}

Visits ==
    [at : {"take", "clear", "drain"}, id : Jobs,
     got : {"none", "answer", "cancelled"}] \cup {NoVisit}

StoreTypeOK ==
    /\ submitted \in [Jobs -> {"new", "minted", "inserted", "sent"}]
    /\ kind \in [Jobs -> Kinds]
    /\ outcomes \in [Jobs -> {"absent", "pending", "answer", "cancelled"}]
    /\ tokens \subseteq Jobs
    /\ kinds \subseteq Jobs

TaskTypeOK ==
    /\ parent \in [Jobs -> Nat]
    /\ aborted \subseteq Jobs
    /\ task \in [Jobs -> {"none", "running", "returned", "over"}]
    /\ json \in [Jobs -> {"answer", "cancelled"}]

EventTypeOK ==
    /\ queues \subseteq Jobs
    /\ rows \in [Jobs -> 0..MAX_ROWS]
    /\ emitted \in [Jobs -> Nat]
    /\ shown \in [Jobs -> Nat]

WaiterTypeOK ==
    /\ mail \in Seq(Messages)
    /\ watched \subseteq Jobs
    /\ tick \subseteq Jobs
    /\ visit \in Visits
    /\ alive \in BOOLEAN
    /\ reply \in [Jobs -> {"none", "answer", "cancelled"}]

HostTypeOK ==
    /\ host \in [Hosts -> HostPcs]
    /\ swept \in [Hosts -> SUBSET Jobs]
    /\ caught \subseteq Jobs
    /\ cancels \in Nat

TypeOK ==
    /\ TokensTypeOK
    /\ StoreTypeOK
    /\ TaskTypeOK
    /\ EventTypeOK
    /\ WaiterTypeOK
    /\ HostTypeOK

Init ==
    /\ TokensInit
    /\ submitted = [j \in Jobs |-> "new"]
    /\ kind \in [Jobs -> Kinds]
    /\ outcomes = [j \in Jobs |-> "absent"]
    /\ tokens = {}
    /\ kinds = {}
    /\ parent = [j \in Jobs |-> 0]
    /\ aborted = {}
    /\ task = [j \in Jobs |-> "none"]
    /\ json = [j \in Jobs |-> "answer"]
    /\ queues = {}
    /\ rows = [j \in Jobs |-> 0]
    /\ emitted = [j \in Jobs |-> 0]
    /\ shown = [j \in Jobs |-> 0]
    /\ mail = <<>>
    /\ watched = {}
    /\ tick = {}
    /\ visit = NoVisit
    /\ alive = TRUE
    /\ reply = [j \in Jobs |-> "none"]
    /\ host = [h \in Hosts |-> "idle"]
    /\ swept = [h \in Hosts |-> {}]
    /\ caught = {}
    /\ cancels = 0

Minted == {j \in Jobs : submitted[j] # "new"}

ShutdownSent == \E h \in Hosts : host[h] \notin {"idle", "request"}

\* The caller isolate submits and sends in one turn, one job at a time.
NoneSubmitting == \A j \in Jobs : submitted[j] \in {"new", "sent"}

\* A job's token is cancelled directly or through the ROOT it is a child of.
TokenCancelled(j) == j \in aborted \/ RootCancelled(parent[j])

-----------------------------------------------------------------------------
(* submit: mint a child of ROOT, insert the three entries under the lock and *)
(* spawn the task; the Dart caller then sends the id to the waiter.          *)

SubmitMint(j) ==
    /\ submitted[j] = "new"
    /\ NoneSubmitting
    /\ ~ShutdownSent
    /\ submitted' = [submitted EXCEPT ![j] = "minted"]
    /\ parent' = [parent EXCEPT ![j] = new_job_token]
    /\ UNCHANGED <<tokenVars, kind, storeVars, aborted, task, json, eventVars,
                   waiterVars, hostVars>>

SubmitInsert(j) ==
    /\ submitted[j] = "minted"
    /\ submitted' = [submitted EXCEPT ![j] = "inserted"]
    /\ outcomes' = [outcomes EXCEPT ![j] = "pending"]
    /\ tokens' = tokens \cup {j}
    /\ kinds' = kinds \cup {j}
    /\ task' = [task EXCEPT ![j] = "running"]
    /\ UNCHANGED <<tokenVars, kind, parent, aborted, json, eventVars,
                   waiterVars, hostVars>>

SendAwait(j) ==
    /\ submitted[j] = "inserted"
    /\ submitted' = [submitted EXCEPT ![j] = "sent"]
    /\ mail' = Append(mail, AwaitCmd(j))
    /\ UNCHANGED <<tokenVars, kind, storeVars, taskVars, eventVars, watched,
                   tick, visit, alive, reply, hostVars>>

-----------------------------------------------------------------------------
(* The task: an extract may emit rows until it notices that it is cancelled; *)
(* the body returns on its own, or with "cancelled" once its token is        *)
(* cancelled (an extract also watches the shutdown latch).                   *)

\* A push that ignores the capacity of the queue.
PushUncapped(j) ==
    /\ task[j] = "running"
    /\ kind[j] = EngineJsExtract
    /\ emitted[j] < MaxEmits
    /\ emitted' = [emitted EXCEPT ![j] = @ + 1]
    /\ queues' = queues \cup {j}
    /\ rows' = [rows EXCEPT ![j] = @ + 1]
    /\ UNCHANGED <<tokenVars, submitted, kind, storeVars, taskVars, shown,
                   waiterVars, hostVars>>

push(j) ==
    /\ task[j] = "running"
    /\ kind[j] = EngineJsExtract
    /\ emitted[j] < MaxEmits
    /\ emitted' = [emitted EXCEPT ![j] = @ + 1]
    /\ queues' = queues \cup {j}
    /\ \/ /\ rows[j] < MAX_ROWS
          /\ rows' = [rows EXCEPT ![j] = @ + 1]
       \/ /\ rows[j] >= MAX_ROWS
          /\ UNCHANGED rows
    /\ UNCHANGED <<tokenVars, submitted, kind, storeVars, taskVars, shown,
                   waiterVars, hostVars>>

SeesCancel(j) ==
    \/ TokenCancelled(j)
    \/ kind[j] = EngineJsExtract /\ shutdown

BodyReturns(j, how) ==
    /\ task[j] = "running"
    /\ how = "cancelled" => SeesCancel(j)
    /\ task' = [task EXCEPT ![j] = "returned"]
    /\ json' = [json EXCEPT ![j] = how]
    /\ UNCHANGED <<tokenVars, submitted, kind, storeVars, parent, aborted,
                   eventVars, waiterVars, hostVars>>

\* Publishes unconditionally, as if Pending were not looked up first.
CommitAlways(j) ==
    /\ task[j] = "returned"
    /\ task' = [task EXCEPT ![j] = "over"]
    /\ tokens' = tokens \ {j}
    /\ kinds' = kinds \ {j}
    /\ outcomes' = [outcomes EXCEPT ![j] = json[j]]
    /\ json' = [json EXCEPT ![j] = "answer"]
    /\ UNCHANGED <<tokenVars, submitted, kind, parent, aborted, eventVars,
                   waiterVars, hostVars>>

Commit(j) ==
    /\ task[j] = "returned"
    /\ task' = [task EXCEPT ![j] = "over"]
    /\ tokens' = tokens \ {j}
    /\ kinds' = kinds \ {j}
    /\ outcomes' = [outcomes EXCEPT ![j] =
                      IF @ = "pending" THEN json[j] ELSE @]
    /\ json' = [json EXCEPT ![j] = "answer"]
    /\ UNCHANGED <<tokenVars, submitted, kind, parent, aborted, eventVars,
                   waiterVars, hostVars>>

-----------------------------------------------------------------------------
(* The waiter isolate: it handles one command or runs one tick at a time.  A *)
(* tick visits every watched id; a visit drains the emitted rows of an       *)
(* extract, takes the result and, if there is one, drains again and replies. *)
(* take_result removes the outcome under the JOBS lock and clears the queue  *)
(* after it has released that lock.                                          *)

Between == alive /\ visit.at = "none" /\ tick = {}

ReceiveAwait ==
    /\ Between
    /\ mail # <<>>
    /\ Head(mail).cmd = "await"
    /\ mail' = Tail(mail)
    /\ watched' = watched \cup {Head(mail).id}
    /\ tick' = watched'
    /\ UNCHANGED <<tokenVars, submitted, kind, storeVars, taskVars, eventVars,
                   visit, alive, reply, hostVars>>

\* The periodic timer, which runs only while something is watched.
StartTick ==
    /\ Between
    /\ watched # {}
    /\ tick' = watched
    /\ UNCHANGED <<tokenVars, submitted, kind, storeVars, taskVars, eventVars,
                   mail, watched, visit, alive, reply, hostVars>>

Drain(j) ==
    /\ shown' = [shown EXCEPT ![j] = @ + rows[j]]
    /\ rows' = [rows EXCEPT ![j] = 0]
    /\ UNCHANGED <<queues, emitted>>

BeginVisit(j) ==
    /\ visit.at = "none"
    /\ j \in tick
    /\ kind[j] # EngineJsExtract => \A i \in tick : kind[i] # EngineJsExtract
    /\ tick' = tick \ {j}
    /\ visit' = Visit("take", j, "none")
    /\ \/ kind[j] = EngineJsExtract /\ Drain(j)
       \/ kind[j] # EngineJsExtract /\ UNCHANGED eventVars
    /\ UNCHANGED <<tokenVars, submitted, kind, storeVars, taskVars, mail,
                   watched, alive, reply, hostVars>>

take_result ==
    LET j == visit.id IN
    /\ visit.at = "take"
    /\ \/ /\ outcomes[j] \in {"answer", "cancelled"}
          /\ outcomes' = [outcomes EXCEPT ![j] = "absent"]
          /\ visit' = Visit("clear", j, outcomes[j])
       \/ /\ outcomes[j] \in {"pending", "absent"}
          /\ visit' = NoVisit
          /\ UNCHANGED outcomes
    /\ UNCHANGED <<tokenVars, submitted, kind, tokens, kinds, taskVars,
                   eventVars, mail, watched, tick, alive, reply, hostVars>>

\* take_result that leaves the queue behind.
SkipClear ==
    /\ visit.at = "clear"
    /\ visit' = Visit("drain", visit.id, visit.got)
    /\ UNCHANGED <<tokenVars, submitted, kind, storeVars, taskVars, eventVars,
                   mail, watched, tick, alive, reply, hostVars>>

clear_extract_events ==
    LET j == visit.id IN
    /\ visit.at = "clear"
    /\ queues' = queues \ {j}
    /\ rows' = [rows EXCEPT ![j] = 0]
    /\ visit' = Visit("drain", j, visit.got)
    /\ UNCHANGED <<tokenVars, submitted, kind, storeVars, taskVars, emitted,
                   shown, mail, watched, tick, alive, reply, hostVars>>

EndVisit ==
    LET j == visit.id IN
    /\ visit.at = "drain"
    /\ \/ kind[j] = EngineJsExtract /\ Drain(j)
       \/ kind[j] # EngineJsExtract /\ UNCHANGED eventVars
    /\ reply' = [reply EXCEPT ![j] = visit.got]
    /\ watched' = watched \ {j}
    /\ visit' = NoVisit
    /\ UNCHANGED <<tokenVars, submitted, kind, storeVars, taskVars, mail, tick,
                   alive, hostVars>>

\* The isolate exits and leaves its callers waiting.
ExitSilently ==
    /\ Between
    /\ mail # <<>>
    /\ Head(mail).cmd = "shutdown"
    /\ mail' = Tail(mail)
    /\ watched' = {}
    /\ alive' = FALSE
    /\ UNCHANGED <<tokenVars, submitted, kind, storeVars, taskVars, eventVars,
                   tick, visit, reply, hostVars>>

\* _ShutdownCmd: every caller still waiting gets "cancelled"; the isolate exits.
ReceiveShutdown ==
    /\ Between
    /\ mail # <<>>
    /\ Head(mail).cmd = "shutdown"
    /\ mail' = Tail(mail)
    /\ reply' = [j \in Jobs |-> IF j \in watched THEN "cancelled" ELSE reply[j]]
    /\ watched' = {}
    /\ alive' = FALSE
    /\ UNCHANGED <<tokenVars, submitted, kind, storeVars, taskVars, eventVars,
                   tick, visit, hostVars>>

-----------------------------------------------------------------------------
(* Cancels.  Abort(S) is the loop that cancel_all and cancel_kind run under  *)
(* the JOBS lock over the ids S that have a kind entry.                      *)

\* Cancels the tokens but leaves the outcomes Pending for the task to settle.
AbortTokensOnly(S) ==
    /\ kinds' = kinds \ S
    /\ aborted' = aborted \cup (S \cap tokens)
    /\ tokens' = tokens \ S
    /\ UNCHANGED outcomes

Abort(S) ==
    /\ kinds' = kinds \ S
    /\ aborted' = aborted \cup (S \cap tokens)
    /\ tokens' = tokens \ S
    /\ outcomes' = [j \in Jobs |->
                      IF j \in S /\ outcomes[j] = "pending" THEN "cancelled"
                      ELSE outcomes[j]]

OfKind(k) == {j \in kinds : kind[j] = k}

Sweepable == {j \in kinds : kind[j] # LiveSportsFetch}

StartCancel == cancels < MaxCancels /\ cancels' = cancels + 1

HostGoto(h, where) == host' = [host EXCEPT ![h] = where]

\* A cancel of one kind that also cancels ROOT.
CancelKindAndRoot(h, k) ==
    /\ host[h] = "idle"
    /\ StartCancel
    /\ Abort(OfKind(k))
    /\ request
    /\ UNCHANGED <<submitted, kind, parent, task, json, eventVars, waiterVars,
                   host, swept, caught>>

cancel_kind(h, k) ==
    /\ host[h] = "idle"
    /\ StartCancel
    /\ Abort(OfKind(k))
    /\ UNCHANGED <<tokenVars, submitted, kind, parent, task, json, eventVars,
                   waiterVars, host, swept, caught>>

\* The sweep of cancel_all, and the request() that follows the unlock.
Sweep(h) ==
    /\ Abort(Sweepable)
    /\ swept' = [swept EXCEPT ![h] = Minted]
    /\ UNCHANGED <<tokenVars, submitted, kind, parent, task, json, eventVars,
                   waiterVars, caught>>

SweepRequest(h) ==
    /\ request
    /\ caught' = caught \cup swept[h]
    /\ swept' = [swept EXCEPT ![h] = {}]
    /\ UNCHANGED <<submitted, kind, storeVars, taskVars, eventVars, waiterVars,
                   cancels>>

cancel_all(h) ==
    /\ host[h] = "idle"
    /\ StartCancel
    /\ Sweep(h)
    /\ HostGoto(h, "request")

CancelAllRequest(h) ==
    /\ host[h] = "request"
    /\ SweepRequest(h)
    /\ HostGoto(h, "idle")

(* EngineJobs.shutdown on the caller isolate: tell the waiter, then          *)
(* engine_prepare_shutdown, which is request_shutdown, a cancel of the live  *)
(* sports fetches and cancel_all.  (The waiter is killed 100 ms later; it is *)
(* taken to have handled the command by then.)                               *)
Shutdown(h) ==
    /\ host[h] = "idle"
    /\ ~ShutdownSent
    /\ NoneSubmitting
    /\ mail' = Append(mail, ShutdownCmd)
    /\ ShutdownStore
    /\ HostGoto(h, "notify")
    /\ UNCHANGED <<submitted, kind, storeVars, taskVars, eventVars, watched,
                   tick, visit, alive, reply, swept, caught, cancels>>

ShutdownTokens(h) ==
    /\ \/ host[h] = "notify" /\ ShutdownNotify /\ HostGoto(h, "catalog")
       \/ host[h] = "catalog" /\ request_catalog /\ HostGoto(h, "root")
       \/ host[h] = "root" /\ request /\ HostGoto(h, "live")
    /\ UNCHANGED <<submitted, kind, storeVars, taskVars, eventVars, waiterVars,
                   swept, caught, cancels>>

cancel_live_sports_fetch(h) ==
    /\ host[h] = "live"
    /\ Abort(OfKind(LiveSportsFetch))
    /\ HostGoto(h, "sweep")
    /\ UNCHANGED <<tokenVars, submitted, kind, parent, task, json, eventVars,
                   waiterVars, swept, caught, cancels>>

ShutdownSweep(h) ==
    /\ host[h] = "sweep"
    /\ Sweep(h)
    /\ HostGoto(h, "lastRequest")
    /\ UNCHANGED cancels

ShutdownRequest(h) ==
    /\ host[h] = "lastRequest"
    /\ SweepRequest(h)
    /\ HostGoto(h, "down")

-----------------------------------------------------------------------------
Caller(j) == SubmitMint(j) \/ SubmitInsert(j) \/ SendAwait(j)

Body(j) == push(j) \/ \E how \in {"answer", "cancelled"} : BodyReturns(j, how)

Waiter ==
    \/ ReceiveAwait
    \/ ReceiveShutdown
    \/ StartTick
    \/ \E j \in Jobs : BeginVisit(j)
    \/ take_result
    \/ clear_extract_events
    \/ EndVisit

HostCall(h) ==
    \/ \E k \in Kinds : cancel_kind(h, k)
    \/ cancel_all(h)
    \/ Shutdown(h)

HostProceed(h) ==
    \/ CancelAllRequest(h)
    \/ ShutdownTokens(h)
    \/ cancel_live_sports_fetch(h)
    \/ ShutdownSweep(h)
    \/ ShutdownRequest(h)

Next ==
    \/ \E j \in Jobs : Caller(j) \/ Body(j) \/ Commit(j)
    \/ Waiter
    \/ \E h \in Hosts : HostCall(h) \/ HostProceed(h)

(* A submit that was started finishes, the isolate's event loop turns (a     *)
(* command that is queued is eventually handled, although the timer also     *)
(* fires) and cancel calls run to their end.  Nothing is assumed of job      *)
(* bodies: a plugin may never return.                                        *)
Fairness ==
    /\ \A j \in Jobs : WF_vars(SubmitInsert(j)) /\ WF_vars(SendAwait(j))
    /\ WF_vars(Waiter)
    /\ SF_vars(ReceiveAwait \/ ReceiveShutdown)
    /\ \A h \in Hosts : WF_vars(HostProceed(h))

Spec == Init /\ [][Next]_vars /\ Fairness

-----------------------------------------------------------------------------
(* The three maps of the job store agree: a job is Pending exactly while it  *)
(* has a token entry and a kind entry.  Otherwise a cancel would miss a job  *)
(* that still runs, or a finished one would keep its entries for good.       *)
StoreConsistent ==
    \A j \in Jobs :
        /\ outcomes[j] = "pending" <=> j \in tokens
        /\ outcomes[j] = "pending" <=> j \in kinds

(* An outcome is final: once a job is Done its JSON never changes, and once  *)
(* taken it never comes back, however late its task finishes after a cancel  *)
(* (engine_jobs.rs:76).                                                      *)
OutcomeFinal ==
    [][\A j \in Jobs :
         (submitted[j] \in {"inserted", "sent"} /\ outcomes[j] # "pending") =>
             outcomes'[j] \in {outcomes[j], "absent"}]_vars

(* cancel_all reaches every job minted before it began, those that were not  *)
(* yet in the store when it swept included: when it has returned their token *)
(* is cancelled (engine_jobs.rs:131 after :112).                             *)
CancelAllReachesMinted == \A j \in caught : TokenCancelled(j)

(* A cancel under the JOBS lock spares siblings: the tokens of jobs of other *)
(* kinds than the ones it aborts are as they were (engine_jobs.rs:140, "Play *)
(* must keep magnet").                                                       *)
AbortSparesOtherKinds ==
    [][aborted' # aborted =>
         \A j \in Jobs :
            (\A i \in aborted' \ aborted : kind[i] # kind[j]) =>
                (TokenCancelled(j) <=> TokenCancelled(j)')]_vars

(* A job that was answered with its own result leaves no event queue behind: *)
(* take_result clears it and its task can no longer push (engine_jobs.rs:93).*)
AnsweredQueueGone == \A j \in Jobs : reply[j] = "answer" => j \notin queues

(* Every row an extract emits is shown before its final JSON.  The code      *)
(* drains, takes the result, which clears the queue, and drains again, so    *)
(* the rows pushed after the first drain are lost.                           *)
EveryRowShown ==
    \A j \in Jobs :
        (reply[j] = "answer" /\ kind[j] = EngineJsExtract) =>
            shown[j] = emitted[j]

(* A job aborted through the store is answered although its body may never   *)
(* return: the poll loop never hangs on it (engine_jobs.rs:125, :158).       *)
AbortedJobAnswered == \A j \in Jobs : j \in aborted ~> reply[j] # "none"

(* After a shutdown every job that was handed to the waiter is answered,     *)
(* whatever its body does (engine_jobs.dart:324-336).                        *)
ShutdownAnswersAll ==
    \A j \in Jobs :
        (ShutdownSent /\ submitted[j] = "sent") ~> reply[j] # "none"
=============================================================================
