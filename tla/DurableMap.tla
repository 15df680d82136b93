----------------------------- MODULE DurableMap -----------------------------
(***************************************************************************)
(* What a caller of crates/storage may rely on while the process can be    *)
(* killed at any point: a map that is changed atomically.  A set that      *)
(* returned Ok survives; one that failed or was cut short either happened  *)
(* or did not.  The map as a whole is a version number, 0 when empty.      *)
(***************************************************************************)
EXTENDS Naturals

CONSTANT MaxSets \* bound: calls of set

VARIABLES durable, \* the version that survives
          live,    \* the version get reads
          phase    \* "closed", "open" or "setting"

vars == <<durable, live, phase>>

Init ==
    /\ durable = 0
    /\ live = 0
    /\ phase = "closed"

Open ==
    /\ phase = "closed"
    /\ phase' = "open"
    /\ live' = durable
    /\ UNCHANGED durable

Set ==
    /\ phase = "open"
    /\ phase' = "setting"
    /\ live' \in live + 1 .. MaxSets
    /\ UNCHANGED durable

\* The change takes effect, all at once.
Commit ==
    /\ phase = "setting"
    /\ durable' = live
    /\ UNCHANGED <<live, phase>>

Ok ==
    /\ phase = "setting"
    /\ durable = live
    /\ phase' = "open"
    /\ UNCHANGED <<durable, live>>

\* An error leaves memory ahead of what survives.
Err ==
    /\ phase = "setting"
    /\ durable # live
    /\ phase' = "open"
    /\ UNCHANGED <<durable, live>>

Crash ==
    /\ phase' = "closed"
    /\ live' = 0
    /\ UNCHANGED durable

Next == Open \/ Set \/ Commit \/ Ok \/ Err \/ Crash

Spec == Init /\ [][Next]_vars
=============================================================================
