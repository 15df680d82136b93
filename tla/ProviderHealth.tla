--------------------------- MODULE ProviderHealth ---------------------------
(***************************************************************************)
(* crates/engine/src/provider_health.rs: what each title of each provider  *)
(* earned (its server and stream verdicts), the running total of every     *)
(* provider, and their copy in storage, one per identity scope.            *)
(*                                                                         *)
(* A title key names its provider.  All calls are synchronous ones of the  *)
(* app's UI isolate (engine.dart, providerHealthJson): one ends before the *)
(* next begins, but the process may stop between any two writes to storage *)
(* and a write may fail.  What storage::set acknowledges is durable        *)
(* (module Storage).  The last delta of a key, which only the answers      *)
(* carry, is left out.                                                     *)
(***************************************************************************)
EXTENDS Integers, FiniteSetsExt, Functions

CONSTANTS Titles,        \* title keys
          Providers,
          provider_from_memory_key,   \* Titles -> Providers
          Scopes,        \* identity scopes
          DefaultScope,  \* local:default
          MaxVerdicts    \* bound: verdicts recorded in a run

ASSUME HealthConstants == /\ IsFiniteSet(Titles)
                          /\ provider_from_memory_key \in [Titles -> Providers]
                          /\ DefaultScope \in Scopes /\ MaxVerdicts \in Nat

UP == 2
FAIL == -2
Legacy == "legacy"    \* the storage key without a scope

VARIABLES active,   \* identity scope
          health,   \* the maps in memory: a record of Maps, and loaded
          stored,   \* stored[k]: the maps under storage key k
          due,       \* "ready", or the storage write that comes next
          verdicts, \* recorded so far
          earned    \* ghost: verdicts recorded per scope; Legacy: from before scopes

healthVars == <<active, health, stored, due, verdicts, earned>>

NoMaps == [there |-> FALSE, tot |-> FALSE, server |-> [t \in Titles |-> 0],
           stream |-> [t \in Titles |-> 0], totals |-> [p \in Providers |-> 0]]
EmptyMaps == [NoMaps EXCEPT !.there = TRUE]

Net(m, t) == m.server[t] + m.stream[t]
Floor(n) == Max({0, n})
Of(p) == {t \in Titles : provider_from_memory_key[t] = p}
NetOf(m, p) == MapThenSumSet(LAMBDA t : Net(m, t), Of(p))

rebuild_provider_totals(m) == [p \in Providers |-> Floor(NetOf(m, p))]

\* Every change of a title's net counts in full.
CreditAll(before, after) == after - before

(* What a change of a title's net gives its provider: a rise does not repay *)
(* what the floor of the total has eaten.                                   *)
credited_global_delta(before, after) ==
  IF after <= before THEN after - before ELSE Floor(after - before - Floor(-before))

HealthInit ==
  /\ active = DefaultScope /\ due = "ready" /\ verdicts = 0 /\ health = [loaded |-> FALSE, maps |-> EmptyMaps]
  \* an old store has one set of maps, without totals
  /\ \E t \in Titles, v \in {UP, FAIL} :
       /\ stored = [k \in Scopes \cup {Legacy} |->
            IF k = Legacy THEN [EmptyMaps EXCEPT !.server[t] = v, !.stream[t] = v] ELSE NoMaps]
       /\ earned = [k \in Scopes \cup {Legacy} |-> IF k = Legacy THEN {t} ELSE {}]

\* The maps under k are stored, or the write fails and nobody is told.
TrySet(k, m) == stored' = [stored EXCEPT ![k] = m] \/ UNCHANGED stored

-----------------------------------------------------------------------------
(* ensure_loaded *)

(* The scope has no maps yet: it takes the legacy ones ... *)
MigrateCopies ==
  /\ due = "ready" /\ ~health.loaded /\ ~stored[active].there /\ stored[Legacy].there
  /\ TrySet(active, stored[Legacy]) /\ due' = "wipe"
  /\ UNCHANGED <<active, health, verdicts, earned>>

(* ... which are then emptied. *)
MigrateWipes ==
  /\ due = "wipe" /\ TrySet(Legacy, EmptyMaps) /\ due' = "ready"
  /\ UNCHANGED <<active, health, verdicts, earned>>

(* Maps without totals get them, and are stored again. *)
ReadMaps ==
  LET m == IF stored[active].there THEN stored[active] ELSE EmptyMaps
  IN  /\ due = "ready" /\ ~health.loaded /\ (stored[active].there \/ ~stored[Legacy].there)
      /\ health' = [loaded |-> TRUE,
                    maps |-> IF m.tot \/ ~stored[active].there THEN [m EXCEPT !.tot = TRUE]
                             ELSE [m EXCEPT !.tot = TRUE, !.totals = rebuild_provider_totals(m)]]
      /\ due' = IF stored[active].there /\ ~m.tot THEN "persist" ELSE "ready"
      /\ UNCHANGED <<active, stored, verdicts, earned>>

persist ==
  /\ due = "persist" /\ TrySet(active, health.maps) /\ due' = "ready"
  /\ UNCHANGED <<active, health, verdicts, earned>>

Loaded == due = "ready" /\ health.loaded

-----------------------------------------------------------------------------
(* set_verdict: a stream that played is not turned into a failed one; a      *)
(* verdict that is there already changes nothing.                            *)
apply_provider_delta(m, t, after) ==
  LET p == provider_from_memory_key[t]
  IN  [m.totals EXCEPT ![p] = Floor(@ + credited_global_delta(Net(m, t), after))]

set_verdict(t, next) ==
  /\ Loaded /\ next # health.maps /\ verdicts < MaxVerdicts /\ verdicts' = verdicts + 1
  /\ health' = [health EXCEPT !.maps =
                  [next EXCEPT !.totals = apply_provider_delta(health.maps, t, Net(next, t))]]
  /\ due' = "persist" /\ earned' = [earned EXCEPT ![active] = @ \cup {t}]
  /\ UNCHANGED <<active, stored>>

record_server(t, v) == set_verdict(t, [health.maps EXCEPT !.server[t] = v])
record_stream_up(t) == set_verdict(t, [health.maps EXCEPT !.stream[t] = UP])
record_stream_fail(t) == /\ health.maps.stream[t] # UP
                         /\ set_verdict(t, [health.maps EXCEPT !.stream[t] = FAIL])

(* Clears the active scope only. *)
health_clear_all ==
  /\ due = "ready" /\ health' = [loaded |-> TRUE, maps |-> [EmptyMaps EXCEPT !.tot = TRUE]]
  /\ due' = "persist" /\ UNCHANGED <<active, stored, verdicts, earned>>

\* The maps of the scope that was active stay in memory.
SwitchKeepsMaps(s) ==
  /\ due = "ready" /\ active' = s /\ UNCHANGED <<health, stored, due, verdicts, earned>>

set_identity_scope(s) ==
  /\ due = "ready" /\ active' = s /\ health' = [loaded |-> FALSE, maps |-> EmptyMaps]
  /\ UNCHANGED <<stored, due, verdicts, earned>>

(* The process stops: the next one has the default scope until it is told. *)
Restart ==
  /\ active' = DefaultScope /\ health' = [loaded |-> FALSE, maps |-> EmptyMaps] /\ due' = "ready"
  /\ UNCHANGED <<stored, verdicts, earned>>

-----------------------------------------------------------------------------
HealthNext ==
  \/ MigrateCopies \/ MigrateWipes \/ ReadMaps \/ persist
  \/ \E t \in Titles : \/ record_server(t, UP) \/ record_server(t, FAIL)
                       \/ record_stream_up(t) \/ record_stream_fail(t)
  \/ health_clear_all \/ Restart
  \/ \E s \in Scopes : set_identity_scope(s)

HealthSpec == HealthInit /\ [][HealthNext]_healthVars

-----------------------------------------------------------------------------
(* Properties *)

TotalsBacked(m) == \A p \in Providers :
  m.totals[p] \in 0..MapThenSumSet(LAMBDA t : Floor(Net(m, t)), Of(p))

(* A provider's running total is never more than what its titles are worth  *)
(* now, in memory and in storage: whatever rises and falls were floored, and *)
(* however often the maps were stored, read, migrated or lost in between, no *)
(* provider keeps a score none of its titles backs (credited_global_delta's  *)
(* "phantom").                                                               *)
NoPhantomTotal == /\ TotalsBacked(health.maps) /\ \A s \in Scopes : TotalsBacked(stored[s])

Verdicts(m) == {t \in Titles : m.server[t] # 0 \/ m.stream[t] # 0}

(* An identity is scored by what was recorded under it, or before there were *)
(* identities: a switch, a migration or a restart between two writes never   *)
(* shows the verdicts of one identity to another or stores them under it.    *)
ScopesApart ==
  /\ Verdicts(health.maps) \subseteq earned[active] \cup earned[Legacy]
  /\ \A s \in Scopes : Verdicts(stored[s]) \subseteq earned[s] \cup earned[Legacy]
=============================================================================
