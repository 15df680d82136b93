-------------------------- MODULE EngineJobsProofs --------------------------
(***************************************************************************)
(* Theorems about EngineJobs for any set of jobs, kinds and host threads   *)
(* and any queue capacity.                                                 *)
(***************************************************************************)
EXTENDS EngineJobs, TLAPS

\* What the waiter's visit and the head of its mail may be.
LEMMA VisitFacts ==
    ASSUME WaiterTypeOK, visit.at # "none"
    PROVE  /\ visit.id \in Jobs
           /\ visit.got \in {"none", "answer", "cancelled"}
  BY DEF WaiterTypeOK, Visits, NoVisit, Visit

\* A visit that is built from its parts is a visit.
LEMMA VisitType ==
    ASSUME NEW at \in {"take", "clear", "drain"}, NEW j \in Jobs,
           NEW got \in {"none", "answer", "cancelled"}
    PROVE  Visit(at, j, got) \in Visits /\ NoVisit \in Visits
  BY DEF Visits, Visit

\* Commands that are received or sent are messages.
LEMMA MailFacts ==
    ASSUME WaiterTypeOK, mail # <<>>, Head(mail).cmd = "await"
    PROVE  Head(mail).id \in Jobs
<1>1. Head(mail) \in Messages
  BY DEF WaiterTypeOK
<1> QED
  BY <1>1 DEF Messages, AwaitCmd, ShutdownCmd

\* The initial state has the types.
LEMMA InitTypeOK == Init => TypeOK
<1> SUFFICES ASSUME Init PROVE TypeOK
  OBVIOUS
<1> USE DEF Init, TokensInit
<1>1. TokensTypeOK /\ StoreTypeOK
  BY DEF TokensTypeOK, StoreTypeOK
<1>2. TaskTypeOK /\ EventTypeOK
  BY EngineJobsAssumption DEF TaskTypeOK, EventTypeOK
<1>3. WaiterTypeOK
  BY DEF WaiterTypeOK, Visits
<1>4. HostTypeOK
  BY DEF HostTypeOK, HostPcs
<1> QED
  BY <1>1, <1>2, <1>3, <1>4 DEF TypeOK

(* Every step keeps the types.  The parts an action leaves alone follow from *)
(* UNCHANGED; the others have a step of their own.                           *)
LEMMA NextTypeOK == TypeOK /\ [Next]_vars => TypeOK'
<1> SUFFICES ASSUME TypeOK, [Next]_vars PROVE TypeOK'
  OBVIOUS
<1> USE DEF TypeOK
<1>U. /\ UNCHANGED tokenVars => TokensTypeOK'
      /\ UNCHANGED <<submitted, kind, storeVars>> => StoreTypeOK'
      /\ UNCHANGED taskVars => TaskTypeOK'
      /\ UNCHANGED eventVars => EventTypeOK'
      /\ UNCHANGED waiterVars => WaiterTypeOK'
      /\ UNCHANGED hostVars => HostTypeOK'
  BY DEF TokensTypeOK, StoreTypeOK, TaskTypeOK, EventTypeOK, WaiterTypeOK,
         HostTypeOK, tokenVars, storeVars, taskVars, eventVars, waiterVars,
         hostVars
<1>R. request => TokensTypeOK'
  BY DEF request, TokensTypeOK
<1>A. ASSUME NEW S, Abort(S) PROVE
        /\ aborted' \subseteq Jobs
        /\ kinds' \subseteq Jobs
        /\ tokens' \subseteq Jobs
        /\ outcomes' \in [Jobs -> {"absent", "pending", "answer", "cancelled"}]
  BY <1>A DEF Abort, StoreTypeOK, TaskTypeOK
<1>1. CASE UNCHANGED vars
  BY <1>1, <1>U DEF vars
<1>2. ASSUME NEW j \in Jobs, Caller(j) PROVE TypeOK'
  <2>1. CASE SubmitMint(j)
    BY <1>U, <2>1 DEF SubmitMint, new_job_token, StoreTypeOK, TaskTypeOK,
       TokensTypeOK, tokenVars, storeVars
  <2>2. CASE SubmitInsert(j)
    BY <1>U, <2>2 DEF SubmitInsert, StoreTypeOK, TaskTypeOK
  <2>3. CASE SendAwait(j)
    <3>1. AwaitCmd(j) \in Messages
      BY DEF Messages
    <3>2. WaiterTypeOK'
      BY <2>3, <3>1 DEF SendAwait, WaiterTypeOK
    <3> QED
      BY <1>U, <2>3, <3>2 DEF SendAwait, StoreTypeOK, storeVars
  <2> QED
    BY <1>2, <2>1, <2>2, <2>3 DEF Caller
<1>3. ASSUME NEW j \in Jobs, push(j) PROVE TypeOK'
  <2>1. EventTypeOK'
    BY <1>3, EngineJobsAssumption DEF push, EventTypeOK
  <2> QED
    BY <1>U, <1>3, <2>1 DEF push
<1>4. ASSUME NEW j \in Jobs, NEW how \in {"answer", "cancelled"},
             BodyReturns(j, how)
      PROVE  TypeOK'
  BY <1>U, <1>4 DEF BodyReturns, TaskTypeOK
<1>5. ASSUME NEW j \in Jobs, Commit(j) PROVE TypeOK'
  BY <1>U, <1>5 DEF Commit, TaskTypeOK, StoreTypeOK
<1>6. CASE Waiter
  <2>1. CASE ReceiveAwait
    <3>1. Head(mail).id \in Jobs
      BY <2>1, MailFacts DEF ReceiveAwait
    <3>2. WaiterTypeOK'
      BY <2>1, <3>1 DEF ReceiveAwait, WaiterTypeOK
    <3> QED
      BY <1>U, <2>1, <3>2 DEF ReceiveAwait
  <2>2. CASE ReceiveShutdown
    <3>a. mail' \in Seq(Messages)
      BY <2>2 DEF ReceiveShutdown, WaiterTypeOK
    <3>b. reply' \in [Jobs -> {"none", "answer", "cancelled"}]
      BY <2>2 DEF ReceiveShutdown, WaiterTypeOK
    <3>1. WaiterTypeOK'
      BY <2>2, <3>a, <3>b DEF ReceiveShutdown, WaiterTypeOK
    <3> QED
      BY <1>U, <2>2, <3>1 DEF ReceiveShutdown
  <2>3. CASE StartTick
    BY <1>U, <2>3 DEF StartTick, WaiterTypeOK
  <2>4. ASSUME NEW j \in Jobs, BeginVisit(j) PROVE TypeOK'
    <3>1. EventTypeOK'
      BY <1>U, <2>4, EngineJobsAssumption DEF BeginVisit, Drain, EventTypeOK
    <3>2. WaiterTypeOK'
      BY <2>4, VisitType DEF BeginVisit, WaiterTypeOK
    <3> QED
      BY <1>U, <2>4, <3>1, <3>2 DEF BeginVisit
  <2>5. CASE take_result
    <3>1. visit.id \in Jobs
      BY <2>5, VisitFacts DEF take_result
    <3>2. visit' \in Visits
      BY <2>5, <3>1, VisitType DEF take_result
    <3>3. WaiterTypeOK'
      BY <2>5, <3>2 DEF take_result, WaiterTypeOK
    <3>4. StoreTypeOK'
      BY <2>5 DEF take_result, StoreTypeOK
    <3> QED
      BY <1>U, <2>5, <3>3, <3>4 DEF take_result
  <2>6. CASE clear_extract_events
    <3>1. visit' \in Visits
      BY <2>6, VisitFacts, VisitType DEF clear_extract_events
    <3>2. WaiterTypeOK'
      BY <2>6, <3>1 DEF clear_extract_events, WaiterTypeOK
    <3>3. EventTypeOK'
      <4>1. 0 \in 0..MAX_ROWS
        BY EngineJobsAssumption
      <4> QED
        BY <2>6, <4>1 DEF clear_extract_events, EventTypeOK
    <3> QED
      BY <1>U, <2>6, <3>2, <3>3 DEF clear_extract_events
  <2>7. CASE EndVisit
    <3>1. visit.id \in Jobs /\ visit.got \in {"none", "answer", "cancelled"}
      BY <2>7, VisitFacts DEF EndVisit
    <3>2. WaiterTypeOK'
      BY <2>7, <3>1 DEF EndVisit, WaiterTypeOK, Visits
    <3>3. EventTypeOK'
      BY <1>U, <2>7, <3>1, EngineJobsAssumption DEF EndVisit, Drain, EventTypeOK
    <3> QED
      BY <1>U, <2>7, <3>2, <3>3 DEF EndVisit
  <2> QED
    BY <1>6, <2>1, <2>2, <2>3, <2>4, <2>5, <2>6, <2>7 DEF Waiter
<1>7. ASSUME NEW h \in Hosts, HostCall(h) PROVE TypeOK'
  <2>1. ASSUME NEW k \in Kinds, cancel_kind(h, k) PROVE TypeOK'
    BY <1>U, <1>A, <2>1
       DEF cancel_kind, StartCancel, StoreTypeOK, TaskTypeOK, HostTypeOK
  <2>2. CASE cancel_all(h)
    BY <1>U, <1>A, <2>2
       DEF cancel_all, Sweep, StartCancel, HostGoto, Minted, HostPcs,
           StoreTypeOK, TaskTypeOK, HostTypeOK
  <2>3. CASE Shutdown(h)
    <3>1. ShutdownCmd \in Messages
      BY DEF Messages
    <3>2. WaiterTypeOK'
      BY <2>3, <3>1 DEF Shutdown, WaiterTypeOK
    <3>3. TokensTypeOK'
      BY <2>3 DEF Shutdown, ShutdownStore, TokensTypeOK
    <3>4. HostTypeOK'
      BY <2>3 DEF Shutdown, HostGoto, HostPcs, HostTypeOK
    <3> QED
      BY <1>U, <2>3, <3>2, <3>3, <3>4 DEF Shutdown
  <2> QED
    BY <1>7, <2>1, <2>2, <2>3 DEF HostCall
<1>8. ASSUME NEW h \in Hosts, HostProceed(h) PROVE TypeOK'
  <2>1. CASE CancelAllRequest(h)
    BY <1>U, <1>R, <2>1
       DEF CancelAllRequest, SweepRequest, HostGoto, HostPcs, HostTypeOK
  <2>2. CASE ShutdownTokens(h)
    <3>a. ShutdownNotify => TokensTypeOK'
      BY DEF ShutdownNotify, TokensTypeOK
    <3>b. request_catalog => TokensTypeOK'
      BY DEF request_catalog, TokensTypeOK
    <3>1. TokensTypeOK'
      BY <1>R, <2>2, <3>a, <3>b DEF ShutdownTokens
    <3>2. HostTypeOK'
      BY <2>2 DEF ShutdownTokens, HostGoto, HostPcs, HostTypeOK
    <3> QED
      BY <1>U, <2>2, <3>1, <3>2 DEF ShutdownTokens
  <2>3. CASE cancel_live_sports_fetch(h)
    BY <1>U, <1>A, <2>3
       DEF cancel_live_sports_fetch, HostGoto, HostPcs, StoreTypeOK, TaskTypeOK,
           HostTypeOK
  <2>4. CASE ShutdownSweep(h)
    BY <1>U, <1>A, <2>4
       DEF ShutdownSweep, Sweep, HostGoto, Minted, HostPcs, StoreTypeOK,
           TaskTypeOK, HostTypeOK
  <2>5. CASE ShutdownRequest(h)
    BY <1>U, <1>R, <2>5
       DEF ShutdownRequest, SweepRequest, HostGoto, HostPcs, HostTypeOK
  <2> QED
    BY <1>8, <2>1, <2>2, <2>3, <2>4, <2>5 DEF HostProceed
<1> QED
  BY <1>1, <1>2, <1>3, <1>4, <1>5, <1>6, <1>7, <1>8 DEF Next, Body

(* The state of the job store, the event queues and the waiter keeps its     *)
(* types.                                                                    *)
THEOREM TypeCorrect == Spec => []TypeOK
  BY InitTypeOK, NextTypeOK, PTL DEF Spec

-----------------------------------------------------------------------------
(* A step changes the store only by inserting a job, publishing or taking an *)
(* outcome, or aborting jobs that have a kind entry.                         *)
LEMMA StoreSteps ==
    [Next]_vars => \/ UNCHANGED storeVars
                   \/ \E j \in Jobs : SubmitInsert(j)
                   \/ \E j \in Jobs : Commit(j)
                   \/ take_result
                   \/ \E S \in SUBSET kinds : Abort(S)
<1> SUFFICES ASSUME [Next]_vars,
                    ~ UNCHANGED storeVars,
                    \A j \in Jobs : ~SubmitInsert(j) /\ ~Commit(j),
                    ~take_result
             PROVE  \E S \in SUBSET kinds : Abort(S)
  OBVIOUS
<1>1. \/ \E h \in Hosts, k \in Kinds : cancel_kind(h, k)
      \/ \E h \in Hosts : cancel_all(h) \/ cancel_live_sports_fetch(h)
                          \/ ShutdownSweep(h)
  BY DEF Next, Caller, Body, Waiter, HostCall, HostProceed, SubmitMint, SendAwait,
         push, BodyReturns, ReceiveAwait, ReceiveShutdown, StartTick, BeginVisit,
         clear_extract_events, EndVisit, Shutdown, CancelAllRequest, SweepRequest,
         ShutdownTokens, ShutdownRequest, vars
<1>2. \A k \in Kinds : OfKind(k) \in SUBSET kinds
  BY DEF OfKind
<1>3. Sweepable \in SUBSET kinds
  BY DEF Sweepable
<1> QED
  BY <1>1, <1>2, <1>3, EngineJobsAssumption
     DEF cancel_kind, cancel_all, Sweep, cancel_live_sports_fetch, ShutdownSweep

\* StoreConsistent is inductive relative to the types.
LEMMA NextStoreConsistent ==
    TypeOK /\ StoreConsistent /\ [Next]_vars => StoreConsistent'
<1> SUFFICES ASSUME TypeOK, StoreConsistent, [Next]_vars PROVE StoreConsistent'
  OBVIOUS
<1> USE DEF TypeOK, StoreTypeOK, TaskTypeOK, StoreConsistent
<1>1. CASE UNCHANGED storeVars
  BY <1>1 DEF storeVars
<1>2. ASSUME NEW j \in Jobs, SubmitInsert(j) PROVE StoreConsistent'
  BY <1>2 DEF SubmitInsert
<1>3. ASSUME NEW j \in Jobs, Commit(j) PROVE StoreConsistent'
  BY <1>3 DEF Commit
<1>4. CASE take_result
  <2>1. visit.id \in Jobs
    BY <1>4, VisitFacts DEF take_result
  <2> QED
    BY <1>4, <2>1 DEF take_result
<1>5. ASSUME NEW S \in SUBSET kinds, Abort(S) PROVE StoreConsistent'
  BY <1>5 DEF Abort
<1> QED
  BY StoreSteps, <1>1, <1>2, <1>3, <1>4, <1>5

(* The three maps of the job store always agree, whatever submits, tasks,    *)
(* cancels and takes interleave (engine_jobs.rs:16-31).                      *)
THEOREM StoreAlwaysConsistent == Spec => []StoreConsistent
<1>1. Init => StoreConsistent
  BY DEF Init, StoreConsistent
<1> QED
  BY <1>1, TypeCorrect, NextStoreConsistent, PTL DEF Spec

(* A Done outcome is never overwritten and a taken one never comes back      *)
(* (engine_jobs.rs:76).                                                      *)
THEOREM OutcomesAreFinal == Spec => OutcomeFinal
<1>1. TypeOK /\ [Next]_vars =>
        [\A j \in Jobs :
           (submitted[j] \in {"inserted", "sent"} /\ outcomes[j] # "pending") =>
               outcomes'[j] \in {outcomes[j], "absent"}]_vars
  <2> SUFFICES ASSUME TypeOK, [Next]_vars, NEW j \in Jobs,
                      submitted[j] \in {"inserted", "sent"},
                      outcomes[j] # "pending"
               PROVE  outcomes'[j] \in {outcomes[j], "absent"}
    OBVIOUS
  <2> USE DEF TypeOK, StoreTypeOK
  <2>1. CASE UNCHANGED storeVars
    BY <2>1 DEF storeVars
  <2>2. ASSUME NEW i \in Jobs, SubmitInsert(i)
        PROVE  outcomes'[j] \in {outcomes[j], "absent"}
    BY <2>2 DEF SubmitInsert
  <2>3. ASSUME NEW i \in Jobs, Commit(i)
        PROVE  outcomes'[j] \in {outcomes[j], "absent"}
    BY <2>3 DEF Commit
  <2>4. CASE take_result
    BY <2>4 DEF take_result
  <2>5. ASSUME NEW S \in SUBSET kinds, Abort(S)
        PROVE  outcomes'[j] \in {outcomes[j], "absent"}
    BY <2>5 DEF Abort
  <2> QED
    BY StoreSteps, <2>1, <2>2, <2>3, <2>4, <2>5
<1> QED
  BY TypeCorrect, <1>1, PTL DEF Spec, OutcomeFinal

-----------------------------------------------------------------------------
(* cancel_all.  Every ROOT older than the current one is dead, the jobs a    *)
(* sweep recorded were minted, and the jobs a finished cancel_all caught     *)
(* hang below an older ROOT.                                                 *)
ReachInv ==
    /\ \A g \in Nat : g < root => g \in deadRoots
    /\ \A j \in Jobs : parent[j] <= root
    /\ \A h \in Hosts : swept[h] \subseteq Minted
    /\ caught \subseteq Minted
    /\ \A j \in caught : parent[j] < root

\* A step changes ROOT only by request, and records jobs only in a cancel_all.
LEMMA RootSteps ==
    [Next]_vars =>
      /\ UNCHANGED <<root, deadRoots>> \/ request
      /\ \/ UNCHANGED <<submitted, parent>>
         \/ \E j \in Jobs : SubmitMint(j)
         \/ \E j \in Jobs : SubmitInsert(j) \/ SendAwait(j)
      /\ \/ UNCHANGED <<swept, caught>>
         \/ \E h \in Hosts : Sweep(h)
         \/ \E h \in Hosts : SweepRequest(h)
  BY DEF Next, Caller, Body, Waiter, HostCall, HostProceed, SubmitMint,
         SubmitInsert, SendAwait, push, BodyReturns, Commit, ReceiveAwait,
         ReceiveShutdown, StartTick, BeginVisit, take_result,
         clear_extract_events, EndVisit, cancel_kind, cancel_all, Sweep, Shutdown,
         ShutdownStore, CancelAllRequest, SweepRequest, ShutdownTokens,
         ShutdownNotify, request_catalog, cancel_live_sports_fetch,
         ShutdownSweep, ShutdownRequest, request, tokenVars, taskVars, hostVars,
         vars

\* ReachInv is inductive relative to the types.
LEMMA NextReachInv == TypeOK /\ ReachInv /\ [Next]_vars => ReachInv'
<1> SUFFICES ASSUME TypeOK, ReachInv, [Next]_vars PROVE ReachInv'
  OBVIOUS
<1> USE DEF TypeOK, TokensTypeOK, StoreTypeOK, TaskTypeOK, HostTypeOK
<1>1. root' \in Nat /\ root <= root' /\ (request => root' = root + 1)
  BY RootSteps DEF request
<1>2. \A g \in Nat : g < root' => g \in deadRoots'
  <2>1. CASE UNCHANGED <<root, deadRoots>>
    BY <2>1 DEF ReachInv
  <2>2. CASE request
    BY <2>2 DEF ReachInv, request
  <2> QED
    BY <2>1, <2>2, RootSteps
<1>3. \A j \in Jobs : /\ parent'[j] <= root
                      /\ j \in Minted => j \in Minted' /\ parent'[j] = parent[j]
  <2>1. CASE UNCHANGED <<submitted, parent>>
    BY <2>1 DEF ReachInv, Minted
  <2>2. ASSUME NEW i \in Jobs, SubmitMint(i)
        PROVE  \A j \in Jobs :
                 /\ parent'[j] <= root
                 /\ j \in Minted => j \in Minted' /\ parent'[j] = parent[j]
    BY <2>2 DEF ReachInv, Minted, SubmitMint, new_job_token
  <2>3. ASSUME NEW i \in Jobs, SubmitInsert(i) \/ SendAwait(i)
        PROVE  \A j \in Jobs :
                 /\ parent'[j] <= root
                 /\ j \in Minted => j \in Minted' /\ parent'[j] = parent[j]
    BY <2>3 DEF ReachInv, Minted, SubmitInsert, SendAwait, taskVars
  <2> QED
    BY <2>1, <2>2, <2>3, RootSteps
<1>p. \A j \in Jobs : parent'[j] <= root'
  <2>1. TypeOK'
    BY NextTypeOK
  <2> QED
    BY <1>1, <1>3, <2>1
<1>4. CASE UNCHANGED <<swept, caught>>
  <2>1. /\ \A h \in Hosts : swept'[h] \subseteq Minted'
        /\ caught' \subseteq Minted'
        /\ \A j \in caught' : parent'[j] < root'
    BY <1>1, <1>3, <1>4 DEF ReachInv
  <2> QED
    BY <1>2, <1>p, <2>1 DEF ReachInv
<1>5. ASSUME NEW h \in Hosts, Sweep(h) PROVE ReachInv'
  <2>1. /\ \A g \in Hosts : swept'[g] \subseteq Minted'
        /\ caught' \subseteq Minted'
        /\ \A j \in caught' : parent'[j] < root'
    BY <1>1, <1>3, <1>5 DEF ReachInv, Sweep, Minted
  <2> QED
    BY <1>2, <1>p, <2>1 DEF ReachInv
<1>6. ASSUME NEW h \in Hosts, SweepRequest(h) PROVE ReachInv'
  <2>1. Minted' = Minted /\ parent' = parent /\ root' = root + 1
    BY <1>6 DEF SweepRequest, Minted, taskVars, request
  <2>2. swept'[h] = {} /\ \A g \in Hosts : g # h => swept'[g] = swept[g]
    BY <1>6 DEF SweepRequest
  <2>3. caught' = caught \cup swept[h]
    BY <1>6 DEF SweepRequest
  <2>4. /\ \A g \in Hosts : swept'[g] \subseteq Minted'
        /\ caught' \subseteq Minted'
    BY <2>1, <2>2, <2>3 DEF ReachInv
  <2>5. \A j \in caught' : parent'[j] < root'
    BY <2>1, <2>3, <1>3 DEF ReachInv
  <2> QED
    BY <1>2, <1>p, <2>4, <2>5 DEF ReachInv
<1> QED
  BY <1>4, <1>5, <1>6, RootSteps

(* When cancel_all has returned, the token of every job minted before it is  *)
(* cancelled, also of a job that its sweep of the store had missed           *)
(* (engine_jobs.rs:104-132).                                                 *)
THEOREM CancelAllReaches == Spec => []CancelAllReachesMinted
<1>1. Init => ReachInv
  BY DEF Init, TokensInit, ReachInv
<1>2. TypeOK /\ ReachInv => CancelAllReachesMinted
  BY DEF TypeOK, TaskTypeOK, HostTypeOK, ReachInv, CancelAllReachesMinted,
         TokenCancelled, RootCancelled
<1> QED
  BY <1>1, <1>2, TypeCorrect, NextReachInv, PTL DEF Spec

(* The loop of cancel_kind and cancel_all touches no token of another kind   *)
(* than those it aborts (engine_jobs.rs:142-163).                            *)
THEOREM AbortsSpareOtherKinds == Spec => AbortSparesOtherKinds
<1>1. TypeOK /\ [Next]_vars =>
        [aborted' # aborted =>
           \A j \in Jobs :
              (\A i \in aborted' \ aborted : kind[i] # kind[j]) =>
                  (TokenCancelled(j) <=> TokenCancelled(j)')]_vars
  <2> SUFFICES ASSUME TypeOK, [Next]_vars, aborted' # aborted, NEW j \in Jobs,
                      \A i \in aborted' \ aborted : kind[i] # kind[j]
               PROVE  TokenCancelled(j) <=> TokenCancelled(j)'
    OBVIOUS
  <2>1. /\ UNCHANGED <<deadRoots, parent>>
        /\ \E S : Abort(S)
    BY DEF Next, Caller, Body, Waiter, HostCall, HostProceed, SubmitMint,
           SubmitInsert, SendAwait, push, BodyReturns, Commit, ReceiveAwait,
           ReceiveShutdown, StartTick, BeginVisit, take_result,
           clear_extract_events, EndVisit, cancel_kind, cancel_all, Sweep,
           Shutdown, CancelAllRequest, SweepRequest, ShutdownTokens,
           cancel_live_sports_fetch, ShutdownSweep, ShutdownRequest, tokenVars,
           taskVars, vars
  <2>2. j \in aborted' <=> j \in aborted
    BY <2>1 DEF Abort
  <2> QED
    BY <2>1, <2>2 DEF TokenCancelled, RootCancelled
<1> QED
  BY TypeCorrect, <1>1, PTL DEF Spec, AbortSparesOtherKinds

-----------------------------------------------------------------------------
(* Event queues.  A job has a task only once it was inserted; an answer, in  *)
(* the store, in the waiter's hand or replied, means that its task is over,  *)
(* so that nothing pushes into the queue that take_result has cleared.       *)
QueueInv ==
    /\ \A j \in Jobs : submitted[j] \in {"new", "minted"} => task[j] = "none"
    /\ \A j \in Jobs : outcomes[j] = "answer" => task[j] = "over"
    /\ visit.at \in {"clear", "drain"} /\ visit.got = "answer" =>
           task[visit.id] = "over"
    /\ visit.at = "drain" /\ visit.got = "answer" => visit.id \notin queues
    /\ \A j \in Jobs :
           reply[j] = "answer" => task[j] = "over" /\ j \notin queues

\* QueueInv is inductive relative to the types.
LEMMA NextQueueInv == TypeOK /\ QueueInv /\ [Next]_vars => QueueInv'
<1> SUFFICES ASSUME TypeOK, QueueInv, [Next]_vars PROVE QueueInv'
  OBVIOUS
<1>t. /\ StoreTypeOK /\ TaskTypeOK /\ EventTypeOK /\ WaiterTypeOK
  BY DEF TypeOK
<1> USE DEF StoreTypeOK, TaskTypeOK, EventTypeOK, QueueInv
<1>v. visit.at # "none" => visit.id \in Jobs
  BY <1>t, VisitFacts
<1>1. CASE UNCHANGED <<submitted, task, outcomes, visit, queues, reply>>
  BY <1>1
<1>2. ASSUME NEW j \in Jobs, SubmitMint(j) PROVE QueueInv'
  BY <1>t, <1>2 DEF SubmitMint, storeVars, eventVars, waiterVars
<1>3. ASSUME NEW j \in Jobs, SubmitInsert(j) PROVE QueueInv'
  BY <1>t, <1>v, <1>3 DEF SubmitInsert, eventVars, waiterVars
<1>4. ASSUME NEW j \in Jobs, SendAwait(j) PROVE QueueInv'
  BY <1>t, <1>4 DEF SendAwait, storeVars, taskVars, eventVars
<1>5. ASSUME NEW j \in Jobs, push(j) PROVE QueueInv'
  BY <1>t, <1>5 DEF push, storeVars, taskVars, waiterVars
<1>6. ASSUME NEW j \in Jobs, NEW how \in {"answer", "cancelled"},
             BodyReturns(j, how)
      PROVE  QueueInv'
  BY <1>t, <1>v, <1>6 DEF BodyReturns, storeVars, eventVars, waiterVars
<1>7. ASSUME NEW j \in Jobs, Commit(j) PROVE QueueInv'
  BY <1>t, <1>v, <1>7 DEF Commit, eventVars, waiterVars
<1>8. CASE take_result
  BY <1>t, <1>v, <1>8 DEF take_result, taskVars, eventVars, Visit, NoVisit
<1>9. CASE clear_extract_events
  BY <1>t, <1>v, <1>9 DEF clear_extract_events, storeVars, taskVars, Visit
<1>10. CASE EndVisit
  BY <1>t, <1>v, <1>10
     DEF EndVisit, Drain, storeVars, taskVars, eventVars, Visit, NoVisit
<1>11. ASSUME NEW j \in Jobs, BeginVisit(j) PROVE QueueInv'
  BY <1>t, <1>11 DEF BeginVisit, Drain, storeVars, taskVars, eventVars, Visit
<1>12. CASE ReceiveShutdown
  BY <1>t, <1>12 DEF ReceiveShutdown, storeVars, taskVars, eventVars
<1>13. ASSUME NEW S, Abort(S),
              UNCHANGED <<submitted, task, visit, queues, reply>>
       PROVE  QueueInv'
  BY <1>t, <1>13 DEF Abort
<1>14. ASSUME NEW h \in Hosts, HostCall(h) \/ HostProceed(h) PROVE QueueInv'
  <2>1. \/ UNCHANGED <<submitted, task, outcomes, visit, queues, reply>>
        \/ /\ \E S : Abort(S)
           /\ UNCHANGED <<submitted, task, visit, queues, reply>>
    BY <1>14 DEF HostCall, HostProceed, cancel_kind, cancel_all, Sweep, Shutdown,
       CancelAllRequest, SweepRequest, ShutdownTokens, cancel_live_sports_fetch,
       ShutdownSweep, ShutdownRequest, storeVars, taskVars, eventVars, waiterVars
  <2> QED
    BY <1>1, <1>13, <2>1
<1>15. CASE ReceiveAwait \/ StartTick
  BY <1>1, <1>15 DEF ReceiveAwait, StartTick, storeVars, taskVars, eventVars
<1>16. CASE UNCHANGED vars
  BY <1>1, <1>16 DEF vars, storeVars, taskVars, eventVars, waiterVars
<1> QED
  BY <1>2, <1>3, <1>4, <1>5, <1>6, <1>7, <1>8, <1>9, <1>10, <1>11, <1>12, <1>14,
     <1>15, <1>16
     DEF Next, Caller, Body, Waiter

(* A job answered with its own result leaves no event queue behind           *)
(* (engine_jobs.rs:88-102, extract_events.rs:45).                            *)
THEOREM AnsweredLeavesNoQueue == Spec => []AnsweredQueueGone
<1>1. Init => QueueInv
  BY DEF Init, QueueInv, NoVisit, Visit
<1>2. QueueInv => AnsweredQueueGone
  BY DEF QueueInv, AnsweredQueueGone
<1> QED
  BY <1>1, <1>2, TypeCorrect, NextQueueInv, PTL DEF Spec
=============================================================================
