------------------------------ MODULE HlsAhead ------------------------------
(***************************************************************************)
(* crates/proxy/src/hls.rs: the cache of unwrapped HLS segments that the   *)
(* proxy fills ahead of the player.  Concurrent requests and prefetches of *)
(* one segment share one upstream fetch through a slot.                    *)
(*                                                                         *)
(* slot[u] is the slot the map holds for URL u.  A waiter keeps the slot   *)
(* it began with (an Arc): once that slot leaves the map, the waiter's     *)
(* record holds its value.  A segment is its number of bytes.  Which URLs  *)
(* a playlist or a served segment prefetches is left open here; module     *)
(* HlsPlaylist has the windows.                                            *)
(***************************************************************************)
EXTENDS Integers, Sequences, FiniteSets, SequencesExt

CONSTANTS Urls,           \* segment URLs
          Clients,        \* player requests in flight at a time
          Sizes,          \* bytes of an unwrapped segment
          AHEAD_MAX_SEGS, AHEAD_MAX_BYTES

ASSUME AheadConstants == /\ Sizes \subseteq Nat \ {0} /\ Clients \cap Urls = {}
                         /\ AHEAD_MAX_SEGS \in Nat \ {0} /\ AHEAD_MAX_BYTES \in Nat

(* The task that prefetches u is named u: at most one prefetch of a URL at a *)
(* time; a second one would only wait, as a client does.                     *)
Tasks == Clients \cup Urls

Pending == 0   \* no value yet
Miss == -1     \* the fetch failed
Empty == -2    \* no slot

VARIABLES slot,     \* slot[u]: Empty, Pending, Miss or the bytes it holds
          order,    \* stored URLs, oldest first
          total,    \* bytes stored
          task,     \* task[t]: a call of ensure_stripped_segment
          sweeps,   \* URLs whose abandon has not run its deferred removal
          orphaned  \* ghost: URLs whose slot lost its owner with a connection

aheadVars == <<slot, order, total, task, sweeps, orphaned>>

\* old: the value of the slot it waits on, once that slot has left the map
IdleTask == [pc |-> "idle", url |-> CHOOSE u \in Urls : TRUE, old |-> Empty, try |-> 1]

AheadInit ==
  /\ slot = [u \in Urls |-> Empty] /\ order = <<>> /\ total = 0
  /\ task = [t \in Tasks |-> IdleTask] /\ sweeps = {} /\ orphaned = {}

(* The slots of S leave the map: their waiters keep them. *)
Detached(S) == [w \in Tasks |-> IF task[w].pc = "wait" /\ task[w].url \in S /\ task[w].old = Empty
                                THEN [task[w] EXCEPT !.old = slot[task[w].url]] ELSE task[w]]
Seen(t) == IF task[t].old = Empty THEN slot[task[t].url] ELSE task[t].old
EnsureReturns(t) == task' = [task EXCEPT ![t] = IdleTask]

-----------------------------------------------------------------------------
(* schedule_png_ahead and schedule_png_next_after prefetch; a player asks. *)

EnsureSegment(t, u) ==
  /\ task[t].pc = "idle" /\ task' = [task EXCEPT ![t] = [IdleTask EXCEPT !.pc = "begin", !.url = u]]
  /\ UNCHANGED <<slot, order, total, sweeps, orphaned>>

spawn_png_prefetch(u) == EnsureSegment(u, u)
hls_proxy_handler(c, u) == EnsureSegment(c, u)

(* begin: Ready, Wait or Owner; a slot that missed is replaced. *)
begin(t) ==
  LET u == task[t].url IN
  /\ task[t].pc = "begin"
  /\ \/ slot[u] > 0 /\ EnsureReturns(t) /\ UNCHANGED <<slot, orphaned>>
     \/ /\ slot[u] = Pending /\ task' = [task EXCEPT ![t].pc = "wait"]
        /\ UNCHANGED <<slot, orphaned>>
     \/ /\ slot[u] \in {Empty, Miss} /\ slot' = [slot EXCEPT ![u] = Pending]
        /\ task' = [Detached({u}) EXCEPT ![t].pc = "fetch"] /\ orphaned' = orphaned \ {u}
  /\ UNCHANGED <<order, total, sweeps>>

\* Every miss and every timeout is followed by another try.
RetryForever(t) == task' = [task EXCEPT ![t].pc = "begin", ![t].old = Empty]

(* The first try is followed by one more begin; the second ends in 502. *)
TryAgain(t) == IF task[t].try = 1
               THEN task' = [task EXCEPT ![t].pc = "begin", ![t].old = Empty, ![t].try = 2]
               ELSE EnsureReturns(t)

wait_ready(t) ==
  /\ task[t].pc = "wait"
  /\ \/ Seen(t) > 0 /\ EnsureReturns(t)
     \/ Seen(t) = Miss /\ TryAgain(t)
  /\ UNCHANGED <<slot, order, total, sweeps, orphaned>>

(* 25 s without a value. *)
WaitTimesOut(t) ==
  /\ task[t].pc = "wait" /\ Seen(t) = Pending /\ TryAgain(t)
  /\ UNCHANGED <<slot, order, total, sweeps, orphaned>>

(* fetch_and_store_segment: the slot is finished before the lock is taken. *)
FetchOk(t, size) ==
  /\ task[t].pc = "fetch" /\ task' = [task EXCEPT ![t].pc = "store"]
  /\ slot' = [slot EXCEPT ![task[t].url] = size]
  /\ UNCHANGED <<order, total, sweeps, orphaned>>

abandon(t) ==
  /\ task[t].pc = "fetch" /\ sweeps' = sweeps \cup {task[t].url}
  /\ slot' = [slot EXCEPT ![task[t].url] = Miss] /\ EnsureReturns(t)
  /\ UNCHANGED <<order, total, orphaned>>

\* The removal does not look at what is in the slot.
SweepAlways(u) ==
  /\ u \in sweeps /\ sweeps' \in {sweeps, sweeps \ {u}}
  /\ slot' = [slot EXCEPT ![u] = Empty] /\ task' = Detached({u})
  /\ UNCHANGED <<order, total, orphaned>>

(* The removal abandon spawns; there may be several for one URL. *)
AbandonRemoves(u) ==
  /\ u \in sweeps /\ sweeps' \in {sweeps, sweeps \ {u}}
  /\ IF slot[u] # Miss THEN UNCHANGED <<slot, task>>
     ELSE slot' = [slot EXCEPT ![u] = Empty] /\ task' = Detached({u})
  /\ UNCHANGED <<order, total, orphaned>>

Bytes(u) == IF slot[u] > 0 THEN slot[u] ELSE 0
SumBytes(S) == MapThenSumSet(Bytes, S)
Oldest(ord, k) == {ord[i] : i \in 1..k}

\* Evicted slots leave the map, their bytes stay counted.
KeepCounting(tot, ord, k) == tot

Left(tot, ord, k) == IF SumBytes(Oldest(ord, k)) > tot THEN 0
                     ELSE tot - SumBytes(Oldest(ord, k))

(* How many of the oldest entries store evicts: until both limits hold, and *)
(* never the only entry that is left.                                       *)
Evicted(ord, tot) ==
  Min({k \in 0..(Len(ord) - 1) :
         \/ k = Len(ord) - 1
         \/ Len(ord) - k <= AHEAD_MAX_SEGS /\ Left(tot, ord, k) <= AHEAD_MAX_BYTES})

store(t) ==
  LET ord == Append(order, task[t].url)
      tot == total + slot[task[t].url]
      k   == Evicted(ord, tot)
      out == Oldest(ord, k)
  IN  /\ task[t].pc = "store"
      /\ order' = SubSeq(ord, k + 1, Len(ord)) /\ total' = Left(tot, ord, k)
      /\ slot' = [u \in Urls |-> IF u \in out THEN Empty ELSE slot[u]]
      /\ task' = [Detached(out) EXCEPT ![t] = IdleTask] /\ orphaned' = orphaned \ out
      /\ UNCHANGED sweeps

(* The player closes its connection: the handler is dropped where it awaits. *)
Disconnect(c) ==
  /\ task[c].pc # "idle" /\ EnsureReturns(c)
  /\ orphaned' = IF task[c].pc \in {"fetch", "store"} THEN orphaned \cup {task[c].url} ELSE orphaned
  /\ UNCHANGED <<slot, order, total, sweeps>>

-----------------------------------------------------------------------------
AheadStep(t) ==
  \/ begin(t) \/ wait_ready(t) \/ WaitTimesOut(t) \/ abandon(t) \/ store(t)
  \/ \E size \in Sizes : FetchOk(t, size)

AheadNext ==
  \/ \E u \in Urls : spawn_png_prefetch(u) \/ AbandonRemoves(u)
  \/ \E c \in Clients, u \in Urls : hls_proxy_handler(c, u)
  \/ \E t \in Tasks : AheadStep(t)
  \/ \E c \in Clients : Disconnect(c)

(* The runtime polls a request's task and its timer expires.  An upstream    *)
(* fetch may hang: the proxy's HTTP client has no timeout.                   *)
AheadFairness == \A c \in Clients : WF_aheadVars(begin(c) \/ wait_ready(c) \/ WaitTimesOut(c))

AheadSpec == AheadInit /\ [][AheadNext]_aheadVars /\ AheadFairness

-----------------------------------------------------------------------------
(* Properties *)

(* The accounting of store is exact whatever fetches, misses, evictions and  *)
(* deferred removals overlap: a URL is listed once, its slot is filled,      *)
(* total is the bytes of the listed slots, and both limits hold (a segment   *)
(* larger than the cache stays alone).                                       *)
AheadAccounting ==
  /\ \A i, j \in DOMAIN order : order[i] = order[j] => i = j
  /\ \A u \in ToSet(order) : slot[u] > 0
  /\ total = SumBytes(ToSet(order))
  /\ Len(order) <= AHEAD_MAX_SEGS /\ (total <= AHEAD_MAX_BYTES \/ Len(order) = 1)

(* Concurrent callers share one fetch: no two tasks fetch a URL at once, and *)
(* a slot others wait on is being fetched, unless its owner's connection was *)
(* closed in mid-fetch.                                                      *)
OneFetchPerUrl ==
  /\ \A t1, t2 \in Tasks : (/\ task[t1].pc = "fetch" /\ task[t2].pc = "fetch"
                            /\ task[t1].url = task[t2].url) => t1 = t2
  /\ \A u \in Urls \ orphaned : slot[u] = Pending
                       => \E t \in Tasks : task[t].pc = "fetch" /\ task[t].url = u

(* A request that waits for another's fetch ends or fetches itself, even if  *)
(* that fetch hangs or its owner has gone.                                   *)
WaitersEnd == \A c \in Clients : task[c].pc = "wait" ~> task[c].pc \in {"idle", "fetch"}
==============================================================================
