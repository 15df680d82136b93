------------------------------ MODULE PluginRun ------------------------------
(***************************************************************************)
(* crates/engine/src/extract.rs: one plugin run in a JS runtime of its own.*)
(* A plugin that calls ctx.hop runs another plugin inside its run, up to   *)
(* three deep, so a job is a stack of runs; all of them are polled by the  *)
(* job's one task, and while any of them executes JS nothing else of the   *)
(* task is polled: no timer, no timeout, no cancellation.                  *)
(*                                                                         *)
(* A plugin awaits one promise at a time.  It may execute for ever: its    *)
(* steps are not fair.                                                     *)
(***************************************************************************)
EXTENDS Integers, Sequences

CONSTANTS MAX_HOP_DEPTH,
          MaxHostCalls       \* bound: host functions one run calls

ASSUME RunConstants == MAX_HOP_DEPTH \in Nat /\ MaxHostCalls \in Nat

VARIABLES stack,     \* the runs of the job, the job's own first
          stop,      \* "no", "shutdown" (the latch is up), "cancelled" (the token is too)
          allow_host, \* allow_host_fallback of the job
          rows,      \* rows the job emitted
          result     \* of the job's run: "none" as long as there is none

runVars == <<stack, stop, allow_host, rows, result>>

\* at: what the plugin does or awaits; callback: the timer whose callback executes
\* beside it; expired: its deadline has passed
NewRun == [at |-> "js", callback |-> "none", expired |-> FALSE, timers |-> {}, host |-> FALSE, calls |-> 0]

RunInit == stack = <<>> /\ stop = "no" /\ allow_host \in BOOLEAN /\ rows = 0 /\ result = "none"

Running(i) == i \in DOMAIN stack /\ stack[i].at = "js"
InCallback(i) == i \in DOMAIN stack /\ stack[i].callback # "none"
Executing == \E i \in DOMAIN stack : Running(i) \/ InCallback(i)
Goes(i, what) == stack' = [stack EXCEPT ![i].at = what]

(* extract_in_job, extract_inner: a runtime, or an error. *)
extract_in_job ==
  /\ stack = <<>> /\ result = "none"
  /\ \/ stop = "no" /\ stack' = <<NewRun>> /\ result' = result
     \/ stack' = stack /\ result' = IF stop = "no" THEN "unsupported" ELSE "cancelled"
  /\ UNCHANGED <<stop, allow_host, rows>>

(* Run i ends, and with it every run it started: the runtime is dropped with *)
(* its timers and pending promises.  A hop gives its caller streams or [].   *)
EndRun(i, outcome) ==
  /\ stack' = [j \in 1..(i - 1) |-> IF j = i - 1 THEN [stack[j] EXCEPT !.at = "js"] ELSE stack[j]]
  /\ result' = IF i = 1 THEN outcome ELSE result
  /\ UNCHANGED <<stop, allow_host, rows>>

-----------------------------------------------------------------------------
(* What the plugin of run i does while it executes, it or a callback of it *)

Call(i) == (Running(i) \/ InCallback(i)) /\ stack[i].calls < MaxHostCalls
Counted(i) == [stack EXCEPT ![i].calls = @ + 1]

\* fetch and chromeFetch (module PluginFetch), tmdb.match
native_fetch(i) ==
  /\ Call(i) /\ Running(i) /\ stack' = [Counted(i) EXCEPT ![i].at = "fetch"]
  /\ UNCHANGED <<stop, allow_host, rows, result>>

(* A hop runs 20 s at most, with a token and a deadline of its own; one too  *)
(* deep, of a stopped job or to a host no hop plugin handles, is [] at once. *)
run_hop(i) ==
  /\ Call(i)
  /\ \/ /\ stop = "no" /\ i - 1 < MAX_HOP_DEPTH /\ Running(i)
        /\ stack' = Append([Counted(i) EXCEPT ![i].at = "hop"], NewRun)
     \/ stack' = Counted(i)
  /\ UNCHANGED <<stop, allow_host, rows, result>>

(* Rows of the job's own run are queued, those of a hop are not. *)
native_emit(i) ==
  /\ Call(i) /\ stack' = Counted(i) /\ rows' = IF i = 1 THEN rows + 1 ELSE rows
  /\ UNCHANGED <<stop, allow_host, result>>

native_request_host(i) ==
  /\ Call(i) /\ stack' = [Counted(i) EXCEPT ![i].host = allow_host \/ i > 1]
  /\ UNCHANGED <<stop, allow_host, rows, result>>

(* clearTimeout does nothing: a timer fires as long as its runtime is there. *)
set_timer(i, kind) ==
  /\ Call(i) /\ stack' = [Counted(i) EXCEPT ![i].timers = @ \cup {kind}]
  /\ UNCHANGED <<stop, allow_host, rows, result>>

AwaitTimer(i) ==
  /\ Running(i) /\ stack[i].timers # {} /\ Goes(i, "timer")
  /\ UNCHANGED <<stop, allow_host, rows, result>>

(* The plugin returns streams or none, or throws. *)
Returns(i, outcome) ==
  /\ Running(i)
  /\ EndRun(i, CASE outcome = "empty" /\ stack[i].host -> "needs_host" [] OTHER -> outcome)

-----------------------------------------------------------------------------
(* What the task does while no JS executes *)

(* A poll that leaves the runs pending goes on to ask their timeouts and the *)
(* token: what is overdue ends before another promise wakes its JS.  (One    *)
(* that wakes it first is a promise that came just before the deadline.)     *)
Overdue == stop = "cancelled" \/ \E i \in DOMAIN stack : stack[i].expired

FetchReturns(i) ==
  /\ ~Executing /\ ~Overdue /\ i \in DOMAIN stack /\ stack[i].at = "fetch" /\ Goes(i, "js")
  /\ UNCHANGED <<stop, allow_host, rows, result>>

TimerFires(i, kind) ==
  /\ ~Executing /\ ~Overdue /\ i \in DOMAIN stack /\ kind \in stack[i].timers
  /\ stack' = [stack EXCEPT ![i].callback = kind, ![i].timers = @ \ {kind}]
  /\ UNCHANGED <<stop, allow_host, rows, result>>

(* A callback may resolve the promise the plugin awaits.  An interval goes on *)
(* unless its callback failed.                                                *)
CallbackReturns(i, failed) ==
  /\ InCallback(i)
  /\ \E wakes \in BOOLEAN :
       stack' = [stack EXCEPT ![i].callback = "none",
                              ![i].timers = IF stack[i].callback = "interval" /\ ~failed
                                            THEN @ \cup {"interval"} ELSE @,
                              ![i].at = IF @ = "timer" /\ wakes THEN "js" ELSE @]
  /\ UNCHANGED <<stop, allow_host, rows, result>>

(* The select of extract_in_job. *)
TimesOut(i) == ~Executing /\ i \in DOMAIN stack /\ stack[i].expired /\ EndRun(i, "timed out")
CancelSeen(i) == ~Executing /\ i \in DOMAIN stack /\ stop = "cancelled" /\ EndRun(i, "cancelled")

\* The runtime asks only about the job, not about the run's time.
AsksTokenOnly(i) == stop # "no"

js_interrupt_handler(i) == stop # "no" \/ stack[i].expired

(* The runtime asks the handler every so often: JS that executes is unwound. *)
(* Out of a callback that ends the callback only: its error is dropped, and  *)
(* the run is left to its timeout and its token.                             *)
Interrupted(i) ==
  /\ i \in DOMAIN stack /\ js_interrupt_handler(i)
  /\ \/ Running(i) /\ EndRun(i, "error")
     \/ /\ InCallback(i) /\ stack' = [stack EXCEPT ![i].callback = "none"]
        /\ UNCHANGED <<stop, allow_host, rows, result>>

Expires(i) ==
  /\ i \in DOMAIN stack /\ ~stack[i].expired /\ stack' = [stack EXCEPT ![i].expired = TRUE]
  /\ UNCHANGED <<stop, allow_host, rows, result>>

Stop ==
  /\ stack # <<>> /\ \/ stop = "no" /\ stop' \in {"shutdown", "cancelled"}
                     \/ stop = "shutdown" /\ stop' = "cancelled"
  /\ UNCHANGED <<stack, allow_host, rows, result>>

-----------------------------------------------------------------------------
RunLevels == 1..(MAX_HOP_DEPTH + 1)

RunNext ==
  \/ extract_in_job \/ Stop
  \/ \E i \in RunLevels :
       \/ native_fetch(i) \/ run_hop(i) \/ native_emit(i) \/ native_request_host(i)
       \/ AwaitTimer(i) \/ FetchReturns(i) \/ TimesOut(i) \/ CancelSeen(i) \/ Interrupted(i)
       \/ Expires(i)
       \/ \E kind \in {"timeout", "interval"} : set_timer(i, kind) \/ TimerFires(i, kind)
       \/ \E failed \in BOOLEAN : CallbackReturns(i, failed)
       \/ \E o \in {"streams", "empty", "error"} : Returns(i, o)

(* Time passes, the task is polled and the handler is asked. *)
RunFairness == \A i \in RunLevels :
  WF_runVars(TimesOut(i) \/ CancelSeen(i) \/ Interrupted(i)) /\ WF_runVars(Expires(i))

-----------------------------------------------------------------------------
(* Properties *)

(* A job whose time is up, or that is cancelled, ends: though a plugin, its  *)
(* own or one it hopped to, executes for ever and keeps the task from        *)
(* polling anything.                                                         *)
PluginEnds == (stack # <<>> /\ (stop # "no" \/ stack[1].expired)) ~> stack = <<>>
==============================================================================
