------------------------------- MODULE MCCalls -------------------------------
(***************************************************************************)
(* Calls that wait and must not wait for good, side by side: blocking      *)
(* engine calls in their cancellation scopes, a plugin run, and requests   *)
(* that wait for a segment another one fetches; and calls of the store     *)
(* that are cut short.  They share no state here; a behaviour runs the     *)
(* component that part names and leaves the others in their first state.   *)
(***************************************************************************)
EXTENDS EngineCancel, PluginRun, HlsAhead

CONSTANTS MaxSets, \* bound: calls of the store's set
          Faults   \* of those Storage names, the ones under which it is an atomic map

VARIABLES part,    \* the component that runs
          at, opened, data, sets, primary, backup, tmp, flushed, before, linked,
          acked, loss, tainted

storeVars == <<at, opened, data, sets, primary, backup, tmp, flushed, before, linked, acked,
               loss, tainted>>

Store == INSTANCE Storage WITH pc <- at

CallsInit ==
  /\ part \in {"cancel", "run", "ahead", "store"}
  /\ Init /\ RunInit /\ AheadInit /\ Store!Init
  /\ part # "run" => allow_host = FALSE

CallsNext ==
  /\ UNCHANGED part
  /\ \/ part = "cancel" /\ Next /\ UNCHANGED <<runVars, aheadVars, storeVars>>
     \/ part = "run" /\ RunNext /\ UNCHANGED <<vars, aheadVars, storeVars>>
     \/ part = "ahead" /\ AheadNext /\ UNCHANGED <<vars, runVars, storeVars>>
     \/ part = "store" /\ Store!Next /\ UNCHANGED <<vars, runVars, aheadVars>>

CallsVars == <<part, vars, runVars, aheadVars, storeVars>>

CallsSpec == /\ CallsInit /\ [][CallsNext]_CallsVars
             /\ Fairness /\ RunFairness /\ AheadFairness

(* Under kills and failing operations the store is an atomically changed     *)
(* map: every step of open and set is a step of DurableMap or none.          *)
ImplementsDurableMap == Store!ImplementsDurableMap
==============================================================================
