------------------------------ MODULE ProxyProofs -----------------------------
(***************************************************************************)
(* Four parts of the streaming proxy for any values of their constants:    *)
(* HlsAhead fetches a segment once at a time, ProxyServer serves the URLs  *)
(* it gave out, SeekProxy gives a player the bytes of the upstream file,   *)
(* and HlsPlaylist rewrites playlists of any length, fetches ahead of them *)
(* and answers ranges of them and segments in a shell.                     *)
(***************************************************************************)
EXTENDS HlsAhead, ProxyServer, SeekProxy, MCPlaylist, SetLemmas, SequenceTheorems, TLAPS

-----------------------------------------------------------------------------
(* HlsAhead.  The property alone is not inductive: an eviction or a deferred *)
(* removal would free a slot that is still being filled.  They cannot,       *)
(* because an owner's slot is pending until it is filled, filled until it is *)
(* listed, and only listed slots are evicted.                                *)

TaskPcs == {"idle", "begin", "wait", "fetch", "store"}
Calls == [pc : TaskPcs, url : Urls \cup {IdleTask.url}, old : Int, try : {1, 2}]

AheadTypeOK ==
  /\ slot \in [Urls -> Int] /\ order \in Seq(Urls) /\ sweeps \subseteq Urls /\ orphaned \subseteq Urls
  /\ task \in [Tasks -> Calls] /\ \A t \in Tasks : task[t].pc # "idle" => task[t].url \in Urls

Owns(t) == task[t].pc \in {"fetch", "store"}

(* An owner's slot is pending, then filled and not yet listed. *)
OwnersFill ==
  \A t \in Tasks :
    /\ task[t].pc = "fetch" => slot[task[t].url] = Pending
    /\ task[t].pc = "store" => /\ slot[task[t].url] > 0
                               /\ \A i \in 1..Len(order) : order[i] # task[t].url

OneOwner ==
  \A t1, t2 \in Tasks : Owns(t1) /\ Owns(t2) /\ task[t1].url = task[t2].url => t1 = t2

ListedFilled ==
  /\ \A i \in 1..Len(order) : slot[order[i]] > 0
  /\ \A i, j \in 1..Len(order) : order[i] = order[j] => i = j

PendingOwned ==
  \A u \in Urls \ orphaned : slot[u] = Pending => \E t \in Tasks : task[t].pc = "fetch" /\ task[t].url = u

AheadInv == AheadTypeOK /\ OwnersFill /\ OneOwner /\ ListedFilled /\ PendingOwned

-----------------------------------------------------------------------------
\* store evicts at most all entries but the newest.
LEMMA EvictedRange ==
  ASSUME NEW ord \in Seq(Urls), Len(ord) > 0, NEW tot
  PROVE  Evicted(ord, tot) \in 0..(Len(ord) - 1)
<1> DEFINE S == {k \in 0..(Len(ord) - 1) :
                   \/ k = Len(ord) - 1
                   \/ Len(ord) - k <= AHEAD_MAX_SEGS /\ Left(tot, ord, k) <= AHEAD_MAX_BYTES}
<1>1. Len(ord) - 1 \in Nat /\ Len(ord) - 1 \in S
  OBVIOUS
<1>2. S \in SUBSET (0..(Len(ord) - 1)) /\ S # {}
  BY <1>1
<1>3. Min(S) \in S
  BY <1>1, <1>2, BoundedMin
<1> QED
  BY <1>2, <1>3 DEF Evicted

\* Detaching waiters moves no task.
LEMMA DetachedStays ==
  ASSUME AheadTypeOK, NEW S \in SUBSET Urls
  PROVE  /\ Detached(S) \in [Tasks -> Calls]
         /\ \A w \in Tasks : Detached(S)[w].pc = task[w].pc /\ Detached(S)[w].url = task[w].url
  BY DEF AheadTypeOK, Detached, Calls

\* A task that does nothing is a task.
LEMMA IdleIsCall == IdleTask \in Calls /\ IdleTask.pc = "idle"
  BY DEF IdleTask, Calls, TaskPcs, Empty

-----------------------------------------------------------------------------
\* The first state satisfies the invariant.
LEMMA InitAheadInv == AheadInit => AheadInv
<1> SUFFICES ASSUME AheadInit PROVE AheadInv
  OBVIOUS
<1>1. \A t \in Tasks : task[t].pc = "idle"
  BY IdleIsCall DEF AheadInit
<1>2. AheadTypeOK
  BY <1>1, IdleIsCall DEF AheadInit, AheadTypeOK, Empty
<1> QED
  BY <1>1, <1>2 DEF AheadInit, AheadInv, OwnersFill, OneOwner, Owns, ListedFilled, PendingOwned,
                    Pending, Empty

(* A step that fills, frees and lists nothing and makes no owner keeps the   *)
(* invariant, if an owner that leaves is recorded as gone.                   *)
LEMMA QuietKeeps ==
  ASSUME AheadInv, NEW t \in Tasks, NEW c \in Calls, c.pc \notin {"fetch", "store"},
         c.pc # "idle" => c.url \in Urls, task' = [task EXCEPT ![t] = c],
         UNCHANGED <<slot, order, sweeps>>,
         orphaned' = IF Owns(t) THEN orphaned \cup {task[t].url} ELSE orphaned
  PROVE  AheadInv'
<1>1. /\ task'[t] = c /\ \A w \in Tasks : w # t => task'[w] = task[w]
      /\ task' \in [Tasks -> Calls]
  BY DEF AheadInv, AheadTypeOK
<1>2. Owns(t) => task[t].url \in Urls
  BY DEF AheadInv, AheadTypeOK, Owns
<1>3. AheadTypeOK'
  BY <1>1, <1>2 DEF AheadInv, AheadTypeOK
<1>4. \A w \in Tasks : (Owns(w)' => Owns(w) /\ w # t)
  BY <1>1 DEF Owns
<1>5. OwnersFill' /\ OneOwner' /\ ListedFilled'
  BY <1>1, <1>4 DEF AheadInv, OwnersFill, OneOwner, ListedFilled, Owns
<1>6. PendingOwned'
  BY <1>1 DEF AheadInv, PendingOwned, Owns
<1> QED
  BY <1>3, <1>5, <1>6 DEF AheadInv

\* A request starts.
LEMMA EnsureKeeps ==
  ASSUME AheadInv, NEW t \in Tasks, NEW u \in Urls, EnsureSegment(t, u)
  PROVE  AheadInv'
<1> DEFINE c == [IdleTask EXCEPT !.pc = "begin", !.url = u]
<1>1. c \in Calls /\ c.pc = "begin" /\ c.url = u
  <2>1. "begin" \in TaskPcs /\ u \in Urls \cup {IdleTask.url}
    BY DEF TaskPcs
  <2>2. c \in Calls
    BY <2>1, IdleIsCall, Zenon DEF Calls
  <2>3. c.pc = "begin" /\ c.url = u
    BY IdleIsCall DEF Calls
  <2> QED
    BY <2>2, <2>3
<1>2. ~Owns(t)
  BY DEF EnsureSegment, Owns
<1> HIDE DEF c
<1>3. task' = [task EXCEPT ![t] = c] /\ UNCHANGED <<slot, order, sweeps, orphaned>>
  BY DEF EnsureSegment, c
<1> QED
  BY <1>1, <1>2, <1>3, QuietKeeps

\* A task waits, tries again or returns without the slot.
LEMMA WaitKeeps ==
  ASSUME AheadInv, NEW t \in Tasks,
         \/ begin(t) /\ UNCHANGED slot
         \/ wait_ready(t) \/ WaitTimesOut(t)
  PROVE  AheadInv'
<1> DEFINE wait == [task[t] EXCEPT !.pc = "wait"]
           again == [task[t] EXCEPT !.pc = "begin", !.old = Empty, !.try = 2]
<1>1. task[t] \in Calls /\ (task[t].pc # "idle" => task[t].url \in Urls)
  BY DEF AheadInv, AheadTypeOK
<1>2. wait \in Calls /\ wait.pc = "wait" /\ wait.url = task[t].url
  BY <1>1 DEF Calls, TaskPcs
<1>3. again \in Calls /\ again.pc = "begin" /\ again.url = task[t].url
  <2>1. "begin" \in TaskPcs /\ Empty \in Int /\ 2 \in {1, 2}
    BY DEF TaskPcs, Empty
  <2>2. again \in Calls
    BY <1>1, <2>1, Zenon DEF Calls
  <2>3. again.pc = "begin" /\ again.url = task[t].url
    BY <1>1 DEF Calls
  <2> QED
    BY <2>2, <2>3
<1>4. /\ task[t].pc \in {"begin", "wait"} /\ UNCHANGED <<slot, order, sweeps, orphaned>>
      /\ \E c \in {IdleTask, wait, again} : task' = [task EXCEPT ![t] = c]
  <2>1. task \in [Tasks -> Calls] /\ slot \in [Urls -> Int]
    BY DEF AheadInv, AheadTypeOK
  <2>2. [task EXCEPT ![t].pc = "wait"] = [task EXCEPT ![t] = wait]
    BY <2>1, Zenon
  <2>3. [task EXCEPT ![t].pc = "begin", ![t].old = Empty, ![t].try = 2]
          = [task EXCEPT ![t] = again]
    BY <2>1, Zenon
  <2> HIDE DEF wait, again
  <2>4. CASE begin(t) /\ UNCHANGED slot
    <3>1. ~(slot[task[t].url] \in {Empty, Miss}
             /\ slot' = [slot EXCEPT ![task[t].url] = Pending])
      BY <1>1, <2>1, <2>4 DEF begin, Empty, Miss, Pending
    <3> QED
      BY <2>2, <2>4, <3>1 DEF begin, EnsureReturns
  <2>5. CASE wait_ready(t) \/ WaitTimesOut(t)
    BY <2>3, <2>5 DEF wait_ready, WaitTimesOut, TryAgain, EnsureReturns
  <2> QED
    BY <2>4, <2>5
<1> HIDE DEF wait, again
<1>5. PICK c \in {IdleTask, wait, again} : task' = [task EXCEPT ![t] = c]
  BY <1>4
<1>6. c \in Calls /\ c.pc \notin {"fetch", "store"} /\ (c.pc # "idle" => c.url \in Urls)
  BY <1>1, <1>2, <1>3, <1>4, IdleIsCall
<1>7. ~Owns(t)
  BY <1>4 DEF Owns
<1> QED
  BY <1>4, <1>5, <1>6, <1>7, QuietKeeps

\* A player goes away.
LEMMA DisconnectKeeps ==
  ASSUME AheadInv, NEW c \in Clients, Disconnect(c)
  PROVE  AheadInv'
  BY QuietKeeps, IdleIsCall DEF Disconnect, EnsureReturns, Owns, Tasks

(* A task takes an empty slot, or one whose fetch has missed: nobody owns it. *)
LEMMA BeginKeeps ==
  ASSUME AheadInv, NEW t \in Tasks, begin(t), slot' # slot
  PROVE  AheadInv'
<1> DEFINE u == task[t].url
<1>1. /\ task \in [Tasks -> Calls] /\ slot \in [Urls -> Int] /\ order \in Seq(Urls)
      /\ u \in Urls
  BY DEF AheadInv, AheadTypeOK, begin
<1>2. /\ task[t].pc = "begin" /\ slot[u] \in {Empty, Miss} /\ slot' = [slot EXCEPT ![u] = Pending]
      /\ task' = [Detached({u}) EXCEPT ![t].pc = "fetch"] /\ orphaned' = orphaned \ {u}
      /\ UNCHANGED <<order, sweeps>>
  BY DEF begin
<1>3. /\ Detached({u}) \in [Tasks -> Calls]
      /\ \A w \in Tasks : Detached({u})[w].pc = task[w].pc /\ Detached({u})[w].url = task[w].url
  BY <1>1, DetachedStays DEF AheadInv
<1>4. /\ task' \in [Tasks -> Calls] /\ task'[t].pc = "fetch" /\ task'[t].url = u
      /\ \A w \in Tasks : w # t => task'[w].pc = task[w].pc /\ task'[w].url = task[w].url
  BY <1>2, <1>3 DEF Calls, TaskPcs
<1>5. /\ slot'[u] = Pending /\ \A v \in Urls : v # u => slot'[v] = slot[v]
      /\ slot' \in [Urls -> Int] /\ ~(slot[u] > 0) /\ slot[u] # Pending
  BY <1>1, <1>2 DEF Pending, Empty, Miss
<1> HIDE DEF u
<1>6. \A i \in 1..Len(order) : order[i] \in Urls /\ order[i] # u
  BY <1>1, <1>5 DEF AheadInv, ListedFilled
<1>7. \A w \in Tasks : Owns(w) => task[w].url # u /\ task[w].url \in Urls
  BY <1>1, <1>5 DEF AheadInv, AheadTypeOK, OwnersFill, Owns
<1>8. ~Owns(t)
  BY <1>2 DEF Owns
<1>9. AheadTypeOK'
  <2>1. \A w \in Tasks : task'[w].pc # "idle" => task'[w].url \in Urls
    BY <1>1, <1>4 DEF AheadInv, AheadTypeOK
  <2>2. order' \in Seq(Urls) /\ sweeps' \subseteq Urls /\ orphaned' \subseteq Urls
    BY <1>1, <1>2 DEF AheadInv, AheadTypeOK
  <2> QED
    BY <1>4, <1>5, <2>1, <2>2 DEF AheadTypeOK
<1>10. OwnersFill'
  <2>1. ASSUME NEW w \in Tasks, w # t, Owns(w)
        PROVE  slot'[task'[w].url] = slot[task[w].url] /\ task'[w].url = task[w].url
    BY <1>4, <1>5, <1>7, <2>1
  <2>2. UNCHANGED order
    BY <1>2
  <2> QED
    BY <1>4, <1>5, <2>1, <2>2 DEF AheadInv, OwnersFill, Owns
<1>11. OneOwner'
  BY <1>4, <1>7 DEF AheadInv, OneOwner, Owns
<1>12. ListedFilled'
  BY <1>2, <1>5, <1>6 DEF AheadInv, ListedFilled
<1>13. PendingOwned'
  <2> SUFFICES ASSUME NEW v \in Urls, v \notin orphaned', slot'[v] = Pending
               PROVE  \E w \in Tasks : task'[w].pc = "fetch" /\ task'[w].url = v
    BY DEF PendingOwned
  <2>1. CASE v = u
    BY <1>4, <2>1
  <2>2. CASE v # u
    <3>1. v \in Urls \ orphaned /\ slot[v] = Pending
      BY <1>2, <1>5, <2>2
    <3>2. PICK w \in Tasks : task[w].pc = "fetch" /\ task[w].url = v
      BY <3>1 DEF AheadInv, PendingOwned
    <3> QED
      BY <1>2, <1>4, <3>2
  <2> QED
    BY <2>1, <2>2
<1> QED
  BY <1>9, <1>10, <1>11, <1>12, <1>13 DEF AheadInv

\* The owner fills the slot, or gives it up.
LEMMA FetchedKeeps ==
  ASSUME AheadInv, NEW t \in Tasks, abandon(t) \/ \E size \in Sizes : FetchOk(t, size)
  PROVE  AheadInv'
<1> DEFINE u == task[t].url
<1>1. /\ task \in [Tasks -> Calls] /\ slot \in [Urls -> Int] /\ order \in Seq(Urls)
      /\ u \in Urls /\ slot[u] = Pending /\ task[t].pc = "fetch"
  BY DEF AheadInv, AheadTypeOK, OwnersFill, FetchOk, abandon
<1> DEFINE Filled(v) == /\ slot' = [slot EXCEPT ![u] = v] /\ v # Pending
                        /\ \/ v > 0 /\ task' = [task EXCEPT ![t].pc = "store"]
                           \/ task' = [task EXCEPT ![t] = IdleTask]
                        /\ sweeps' \subseteq Urls /\ UNCHANGED <<order, orphaned>>
<1>2. \E v \in Int : Filled(v)
  <2>1. CASE abandon(t)
    <3>1. sweeps \subseteq Urls /\ Miss \in Int /\ Miss # Pending
      BY DEF AheadInv, AheadTypeOK, Miss, Pending
    <3>2. Filled(Miss)
      BY <1>1, <2>1, <3>1 DEF abandon, EnsureReturns
    <3> QED
      BY <3>1, <3>2
  <2>2. ASSUME NEW size \in Sizes, FetchOk(t, size) PROVE size \in Int /\ Filled(size)
    <3>1. size \in Int /\ size > 0 /\ size # Pending
      BY AheadConstants DEF Pending
    <3> QED
      BY <2>2, <3>1 DEF FetchOk, AheadInv, AheadTypeOK
  <2> QED
    BY <2>1, <2>2
<1>3. PICK v \in Int : Filled(v)
  BY <1>2
<1>4. /\ task' \in [Tasks -> Calls]
      /\ \A w \in Tasks : w # t => task'[w].pc = task[w].pc /\ task'[w].url = task[w].url
      /\ \/ v > 0 /\ task'[t].pc = "store" /\ task'[t].url = u
         \/ task'[t].pc = "idle"
  <2>1. CASE v > 0 /\ task' = [task EXCEPT ![t].pc = "store"]
    BY <1>1, <2>1 DEF Calls, TaskPcs
  <2>2. CASE task' = [task EXCEPT ![t] = IdleTask]
    BY <1>1, <2>2, IdleIsCall
  <2> QED
    BY <1>3, <2>1, <2>2
<1>5. /\ slot'[u] = v /\ \A w \in Urls : w # u => slot'[w] = slot[w]
      /\ slot' \in [Urls -> Int] /\ v # Pending /\ UNCHANGED <<order, orphaned>>
      /\ sweeps' \subseteq Urls
  BY <1>1, <1>3
<1> HIDE DEF u, Filled
<1>6. \A i \in 1..Len(order) : order[i] \in Urls /\ order[i] # u
  BY <1>1 DEF AheadInv, ListedFilled, Pending
<1>7. \A w \in Tasks : Owns(w) /\ w # t => task[w].url # u /\ task[w].url \in Urls
  BY <1>1 DEF AheadInv, AheadTypeOK, OneOwner, Owns, u
<1>8. AheadTypeOK'
  BY <1>1, <1>4, <1>5 DEF AheadInv, AheadTypeOK
<1>9. OwnersFill'
  <2>1. ASSUME NEW w \in Tasks, w # t, Owns(w)
        PROVE  slot'[task'[w].url] = slot[task[w].url] /\ task'[w].url = task[w].url
    BY <1>4, <1>5, <1>7, <2>1
  <2> QED
    BY <1>4, <1>5, <1>6, <2>1 DEF AheadInv, OwnersFill, Owns
<1>10. OneOwner'
  BY <1>4, <1>7 DEF AheadInv, OneOwner, Owns
<1>11. ListedFilled'
  BY <1>5, <1>6 DEF AheadInv, ListedFilled
<1>12. PendingOwned'
  <2> SUFFICES ASSUME NEW x \in Urls, x \notin orphaned', slot'[x] = Pending
               PROVE  \E w \in Tasks : task'[w].pc = "fetch" /\ task'[w].url = x
    BY DEF PendingOwned
  <2>1. x # u /\ slot[x] = Pending /\ x \in Urls \ orphaned
    BY <1>5
  <2>2. PICK w \in Tasks : task[w].pc = "fetch" /\ task[w].url = x
    BY <2>1 DEF AheadInv, PendingOwned
  <2>3. w # t
    BY <2>1, <2>2 DEF u
  <2> QED
    BY <1>4, <2>2, <2>3
<1> QED
  BY <1>8, <1>9, <1>10, <1>11, <1>12 DEF AheadInv

\* The deferred removal frees a missed slot only.
LEMMA RemovesKeeps ==
  ASSUME AheadInv, NEW u \in Urls, AbandonRemoves(u)
  PROVE  AheadInv'
<1>1. CASE UNCHANGED <<slot, task>>
  BY <1>1 DEF AbandonRemoves, AheadInv, AheadTypeOK, OwnersFill, OneOwner, Owns, ListedFilled,
              PendingOwned
<1>2. CASE slot[u] = Miss /\ slot' = [slot EXCEPT ![u] = Empty] /\ task' = Detached({u})
  <2>1. /\ task' \in [Tasks -> Calls]
        /\ \A w \in Tasks : task'[w].pc = task[w].pc /\ task'[w].url = task[w].url
    BY <1>2, DetachedStays DEF AheadInv
  <2>2. /\ \A v \in Urls : v # u => slot'[v] = slot[v]
        /\ slot'[u] = Empty /\ slot[u] = Miss /\ slot' \in [Urls -> Int]
    BY <1>2 DEF AheadInv, AheadTypeOK, Empty
  <2>3. UNCHANGED <<order, orphaned>> /\ sweeps' \subseteq sweeps
    BY DEF AbandonRemoves
  <2>4. AheadTypeOK'
    BY <2>1, <2>2, <2>3 DEF AheadInv, AheadTypeOK
  <2>5. \A w \in Tasks : Owns(w) => task[w].url # u /\ task[w].url \in Urls
    BY <2>2 DEF AheadInv, AheadTypeOK, OwnersFill, Owns, Pending, Miss
  <2>6. OwnersFill' /\ OneOwner'
    BY <2>1, <2>2, <2>3, <2>5 DEF AheadInv, OwnersFill, OneOwner, Owns
  <2>7. order \in Seq(Urls) /\ ~(slot[u] > 0)
    BY <2>2 DEF AheadInv, AheadTypeOK, Miss
  <2>8. \A i \in 1..Len(order) : order[i] \in Urls /\ order[i] # u
    BY <2>7 DEF AheadInv, ListedFilled
  <2>9. ListedFilled'
    BY <2>2, <2>3, <2>8 DEF AheadInv, ListedFilled
  <2>10. PendingOwned'
    BY <2>1, <2>2, <2>3 DEF AheadInv, PendingOwned, Pending, Empty
  <2> QED
    BY <2>4, <2>6, <2>9, <2>10 DEF AheadInv
<1> QED
  BY <1>1, <1>2 DEF AbandonRemoves

(* A filled slot is listed and the oldest are evicted: none of them is owned, *)
(* and those that stay are distinct.                                         *)
LEMMA StoreKeeps ==
  ASSUME AheadInv, NEW t \in Tasks, store(t)
  PROVE  AheadInv'
<1> DEFINE u == task[t].url
           ord == Append(order, u)
           k == Evicted(ord, total + slot[u])
           out == Oldest(ord, k)
<1>1. /\ task \in [Tasks -> Calls] /\ slot \in [Urls -> Int] /\ order \in Seq(Urls)
      /\ u \in Urls /\ slot[u] > 0 /\ task[t].pc = "store"
      /\ \A i \in 1..Len(order) : order[i] # u
  BY DEF AheadInv, AheadTypeOK, OwnersFill, store
<1>2. /\ ord \in Seq(Urls) /\ Len(ord) = Len(order) + 1 /\ ord[Len(ord)] = u
      /\ \A i \in 1..Len(order) : ord[i] = order[i]
  BY <1>1
<1>3. /\ order' = SubSeq(ord, k + 1, Len(ord))
      /\ slot' = [v \in Urls |-> IF v \in out THEN Empty ELSE slot[v]]
      /\ task' = [Detached(out) EXCEPT ![t] = IdleTask] /\ orphaned' = orphaned \ out
      /\ UNCHANGED sweeps
  BY DEF store
<1>4. Len(order) \in Nat /\ Len(ord) \in Nat /\ Len(ord) > 0
  BY <1>1, <1>2
<1> HIDE DEF ord
<1>5. k \in 0..(Len(ord) - 1)
  BY <1>2, <1>4, EvictedRange
<1> HIDE DEF k
<1>6. \A i, j \in 1..Len(ord) : ord[i] = ord[j] => i = j
  <2>1. \A i \in 1..Len(ord) : i = Len(ord) \/ i \in 1..Len(order)
    BY <1>2, <1>4
  <2>2. \A i, j \in 1..Len(order) : order[i] = order[j] => i = j
    BY DEF AheadInv, ListedFilled
  <2> HIDE DEF u
  <2> QED
    BY Zenon, <1>1, <1>2, <2>1, <2>2
<1>7. \A i \in 1..Len(ord) : ord[i] \in Urls /\ slot[ord[i]] > 0
  <2>1. \A i \in 1..Len(ord) : i = Len(ord) \/ i \in 1..Len(order)
    BY <1>2, <1>4
  <2>2. \A i \in 1..Len(order) : order[i] \in Urls /\ slot[order[i]] > 0
    BY <1>1 DEF AheadInv, ListedFilled
  <2> HIDE DEF u
  <2> QED
    BY Zenon, <1>1, <1>2, <2>1, <2>2
<1>8. out \in SUBSET Urls /\ \A v \in out : \E i \in 1..k : v = ord[i]
  BY <1>2, <1>4, <1>5, <1>7 DEF Oldest
<1>9. /\ order' \in Seq(Urls) /\ Len(order') = Len(ord) - k
      /\ \A i \in 1..Len(order') : order'[i] = ord[i + k] /\ i + k \in 1..Len(ord)
  BY <1>2, <1>3, <1>4, <1>5
<1>10. \A i \in 1..Len(order') : order'[i] \notin out
  BY <1>4, <1>5, <1>6, <1>8, <1>9
<1> HIDE DEF out
<1>11. /\ Detached(out) \in [Tasks -> Calls]
       /\ \A w \in Tasks : Detached(out)[w].pc = task[w].pc /\ Detached(out)[w].url = task[w].url
  BY <1>8, DetachedStays DEF AheadInv
<1>12. /\ task' \in [Tasks -> Calls] /\ task'[t].pc = "idle"
       /\ \A w \in Tasks : w # t => task'[w].pc = task[w].pc /\ task'[w].url = task[w].url
  BY <1>3, <1>11, IdleIsCall
<1> HIDE DEF u
<1>13. \A w \in Tasks : Owns(w) /\ w # t =>
         /\ task[w].url \in Urls \ out
         /\ \A i \in 1..Len(order') : order'[i] # task[w].url
  <2> SUFFICES ASSUME NEW w \in Tasks, Owns(w), w # t
               PROVE  task[w].url \in Urls /\ \A i \in 1..Len(ord) : ord[i] # task[w].url
    BY <1>4, <1>5, <1>8, <1>9
  <2>1. task[w].url \in Urls /\ task[w].url # u
    BY <1>1 DEF AheadInv, AheadTypeOK, OneOwner, Owns, u
  <2>2. \A i \in 1..Len(order) : order[i] # task[w].url
    BY <2>1 DEF AheadInv, OwnersFill, ListedFilled, Owns, Pending
  <2> QED
    BY <1>2, <1>4, <2>1, <2>2
<1>14. AheadTypeOK'
  <2>1. slot' \in [Urls -> Int] /\ orphaned' \subseteq Urls /\ sweeps' \subseteq Urls
    BY <1>1, <1>3 DEF AheadInv, AheadTypeOK, Empty
  <2>2. \A w \in Tasks : task'[w].pc # "idle" => task'[w].url \in Urls
    BY <1>12 DEF AheadInv, AheadTypeOK
  <2> QED
    BY <1>9, <1>12, <2>1, <2>2 DEF AheadTypeOK
<1>15. OwnersFill'
  <2>1. ASSUME NEW w \in Tasks, w # t, Owns(w)
        PROVE  slot'[task'[w].url] = slot[task[w].url] /\ task'[w].url = task[w].url
    BY <1>3, <1>12, <1>13, <2>1
  <2> QED
    BY <1>12, <1>13, <2>1 DEF AheadInv, OwnersFill, Owns
<1>16. OneOwner'
  BY <1>12 DEF AheadInv, OneOwner, Owns
<1>17. ListedFilled'
  <2>1. ASSUME NEW i \in 1..Len(order') PROVE slot'[order'[i]] > 0
    <3>1. order'[i] \in Urls \ out /\ slot[order'[i]] > 0
      BY Zenon, <1>7, <1>9, <1>10
    <3>2. slot'[order'[i]] = slot[order'[i]]
      BY Zenon, <1>3, <3>1
    <3> QED
      BY <3>1, <3>2
  <2>2. ASSUME NEW i \in 1..Len(order'), NEW j \in 1..Len(order'), order'[i] = order'[j] PROVE i = j
    <3>1. i + k = j + k
      BY Zenon, <1>6, <1>9, <2>2
    <3> QED
      BY <1>4, <1>5, <1>9, <3>1
  <2> QED
    BY <2>1, <2>2 DEF ListedFilled
<1>18. PendingOwned'
  <2> SUFFICES ASSUME NEW v \in Urls, v \notin orphaned', slot'[v] = Pending
               PROVE  \E w \in Tasks : task'[w].pc = "fetch" /\ task'[w].url = v
    BY DEF PendingOwned
  <2>1. v \notin out /\ slot[v] = Pending
    BY <1>3 DEF Pending, Empty
  <2>2. v \in Urls \ orphaned
    BY <1>3, <2>1
  <2>3. PICK w \in Tasks : task[w].pc = "fetch" /\ task[w].url = v
    BY <2>1, <2>2 DEF AheadInv, PendingOwned
  <2> QED
    BY <1>1, <1>12, <2>3
<1> QED
  BY <1>14, <1>15, <1>16, <1>17, <1>18 DEF AheadInv

\* Every step keeps the invariant.
LEMMA NextAheadInv == AheadInv /\ [AheadNext]_aheadVars => AheadInv'
<1> SUFFICES ASSUME AheadInv, [AheadNext]_aheadVars PROVE AheadInv'
  OBVIOUS
<1>1. CASE UNCHANGED aheadVars
  BY <1>1 DEF aheadVars, AheadInv, AheadTypeOK, OwnersFill, OneOwner, Owns, ListedFilled,
              PendingOwned
<1>2. ASSUME NEW u \in Urls, spawn_png_prefetch(u) \/ AbandonRemoves(u) PROVE AheadInv'
  BY <1>2, EnsureKeeps, RemovesKeeps DEF spawn_png_prefetch, Tasks
<1>3. ASSUME NEW c \in Clients, NEW u \in Urls, hls_proxy_handler(c, u) PROVE AheadInv'
  BY <1>3, EnsureKeeps DEF hls_proxy_handler, Tasks
<1>4. ASSUME NEW t \in Tasks, AheadStep(t) PROVE AheadInv'
  BY <1>4, BeginKeeps, WaitKeeps, FetchedKeeps, StoreKeeps DEF AheadStep
<1> QED
  BY <1>1, <1>2, <1>3, <1>4, DisconnectKeeps DEF AheadNext

(* Concurrent callers share one fetch of a segment, and a slot others wait   *)
(* on is being fetched unless its owner's connection was closed              *)
(* (hls.rs, ensure_stripped_segment).                                        *)
THEOREM FetchedOnce == AheadSpec => []OneFetchPerUrl
<1>1. AheadInv => OneFetchPerUrl
  BY DEF AheadInv, OneOwner, Owns, PendingOwned, OneFetchPerUrl
<1> QED
  BY InitAheadInv, NextAheadInv, <1>1, PTL DEF AheadSpec
-----------------------------------------------------------------------------
(* The accounting: total is the sum over the listed URLs of what their slots *)
(* hold.  Only store moves what is listed; no other step moves a listed slot. *)

Held == [u \in Urls |-> Bytes(u)]
Listed == Stretch(order, 0, Len(order))

AccountInv ==
  /\ AheadInv /\ total = Total(Held, Listed)
  /\ Len(order) <= AHEAD_MAX_SEGS /\ (total <= AHEAD_MAX_BYTES \/ Len(order) = 1)

\* A slot holds its bytes when it is filled, and none otherwise.
LEMMA HeldIs ==
  ASSUME AheadInv
  PROVE  \A u \in Urls : Held[u] \in Nat /\ Held[u] = IF slot[u] > 0 THEN slot[u] ELSE 0
  BY DEF AheadInv, AheadTypeOK, Held, Bytes

\* The sum of the model is the total.
LEMMA BytesSum ==
  ASSUME AheadInv, NEW S \in SUBSET Urls, IsFiniteSet(S)
  PROVE  SumBytes(S) = Total(Held, S)
<1> DEFINE sums(g) == g = [s \in SUBSET S |-> IF s = {} THEN 0 ELSE Bytes(Taken(s)) + g[s \ {Taken(s)}]]
           c == CHOOSE g : sums(g)
<1>1. \A u \in S : Held[u] \in Int
  BY HeldIs
<1>2. \A s \in SUBSET S : s # {} => Held[Taken(s)] = Bytes(Taken(s))
  BY TakenIn DEF Held
<1>3. SumBytes(S) = c[S]
  BY DEF SumBytes, MapThenSumSet, MapThenFoldSet, Taken
<1>4. PICK g : SumsTo(g, Held, S)
  BY <1>1, SumExists
<1>5. sums(g)
  BY <1>2, <1>4 DEF SumsTo
<1>6. sums(c)
  <2> HIDE DEF sums
  <2> QED
    BY <1>5
<1> HIDE DEF c
<1>7. SumsTo(c, Held, S)
  BY <1>2, <1>6 DEF SumsTo
<1>8. Total(Held, S) = c[S]
  BY <1>1, <1>7, TotalIs
<1> QED
  BY <1>3, <1>8

\* The list is finite.
LEMMA ListedFinite ==
  ASSUME AheadInv
  PROVE  IsFiniteSet(Listed) /\ Listed \in SUBSET Urls
<1>1. Len(order) \in Nat /\ 0 \in Nat /\ \A i \in 1..Len(order) : order[i] \in Urls
  BY DEF AheadInv, AheadTypeOK
<1>2. IsFiniteSet(Stretch(order, 0, Len(order)))
  BY <1>1, StretchFinite
<1> QED
  BY <1>1, <1>2 DEF Listed, Stretch

\* The first state satisfies the invariant.
LEMMA InitAccount == AheadInit => AccountInv
<1> SUFFICES ASSUME AheadInit PROVE AccountInv
  OBVIOUS
<1>1. order = <<>> /\ total = 0 /\ Len(order) = 0
  BY DEF AheadInit
<1>2. Listed = {}
  BY <1>1 DEF Listed, Stretch
<1>3. Total(Held, Listed) = 0
  BY <1>2, FS_EmptySet, TotalType
<1> QED
  BY <1>1, <1>3, InitAheadInv, AheadConstants DEF AccountInv

\* Slots that hold nothing, and those that are being filled, are not listed.
LEMMA UnlistedKeeps ==
  ASSUME AccountInv, AheadInv', UNCHANGED <<order, total>>,
         \A u \in Urls : slot[u] > 0 => slot'[u] = slot[u]
  PROVE  AccountInv'
<1>1. /\ Len(order) \in Nat /\ \A i \in 1..Len(order) : order[i] \in Urls /\ slot[order[i]] > 0
      /\ slot' \in [Urls -> Int]
  BY DEF AccountInv, AheadInv, AheadTypeOK, ListedFilled
<1>2. IsFiniteSet(Listed) /\ Listed' = Listed /\ Listed \subseteq Urls
  <2>1. Listed' = Listed
    BY DEF Listed
  <2> QED
    BY <2>1, ListedFinite DEF AccountInv
<1>3. \A u \in Listed : Held[u] \in Int /\ Held'[u] = Held[u]
  <2>1. \A u \in Listed : u \in Urls /\ slot[u] > 0 /\ slot'[u] = slot[u]
    BY <1>1 DEF Listed, Stretch
  <2> QED
    BY <2>1, HeldIs DEF AccountInv, Held, Bytes
<1>4. Total(Held', Listed) = Total(Held, Listed)
  BY <1>2, <1>3, TotalSame
<1> QED
  BY <1>2, <1>4 DEF AccountInv

\* A slot that its owner still fetches is not filled.
LEMMA OwnedNotFilled ==
  ASSUME AheadInv, NEW t \in Tasks, task[t].pc = "fetch"
  PROVE  ~(slot[task[t].url] > 0)
  BY DEF AheadInv, OwnersFill, Pending

\* store evicts until both limits hold, or one entry is left.
LEMMA EvictedEnough ==
  ASSUME NEW ord \in Seq(Urls), Len(ord) > 0, NEW tot
  PROVE  LET k == Evicted(ord, tot)
         IN  k = Len(ord) - 1 \/ (Len(ord) - k <= AHEAD_MAX_SEGS /\ Left(tot, ord, k) <= AHEAD_MAX_BYTES)
<1> DEFINE S == {k \in 0..(Len(ord) - 1) :
                   \/ k = Len(ord) - 1
                   \/ Len(ord) - k <= AHEAD_MAX_SEGS /\ Left(tot, ord, k) <= AHEAD_MAX_BYTES}
<1>1. Len(ord) - 1 \in Nat /\ Len(ord) - 1 \in S
  OBVIOUS
<1>2. S \in SUBSET (0..(Len(ord) - 1)) /\ S # {}
  BY <1>1
<1>3. Min(S) \in S
  BY <1>1, <1>2, BoundedMin
<1> QED
  BY <1>3 DEF Evicted

\* What is evicted and what stays make up what was listed with the new one.
LEMMA StoreAccounts ==
  ASSUME AccountInv, AheadInv', NEW t \in Tasks, store(t)
  PROVE  AccountInv'
<1> DEFINE u == task[t].url
           ord == Append(order, u)
           tot == total + slot[u]
           k == Evicted(ord, tot)
           out == Oldest(ord, k)
           rest == Stretch(ord, k, Len(ord))
<1>1. /\ slot \in [Urls -> Int] /\ order \in Seq(Urls) /\ AheadInv
      /\ u \in Urls /\ slot[u] > 0 /\ \A i \in 1..Len(order) : order[i] # u
  BY DEF AccountInv, AheadInv, AheadTypeOK, OwnersFill, store
<1>2. /\ ord \in Seq(Urls) /\ Len(ord) = Len(order) + 1 /\ ord[Len(ord)] = u
      /\ \A i \in 1..Len(order) : ord[i] = order[i]
  BY <1>1
<1>3. /\ order' = SubSeq(ord, k + 1, Len(ord)) /\ total' = Left(tot, ord, k)
      /\ slot' = [v \in Urls |-> IF v \in out THEN Empty ELSE slot[v]]
  BY DEF store
<1>4. Len(order) \in Nat /\ Len(ord) \in Nat /\ Len(ord) > 0
  BY <1>1, <1>2
<1> HIDE DEF ord
<1>5. k \in 0..(Len(ord) - 1)
  BY <1>2, <1>4, EvictedRange
<1>6. k = Len(ord) - 1 \/ (Len(ord) - k <= AHEAD_MAX_SEGS /\ Left(tot, ord, k) <= AHEAD_MAX_BYTES)
  BY <1>2, <1>4, EvictedEnough
<1> HIDE DEF k
<1>7. \A i \in 1..Len(ord) : i = Len(ord) \/ i \in 1..Len(order)
  BY <1>2, <1>4
<1>8. \A i, j \in 1..Len(ord) : ord[i] = ord[j] => i = j
  <2>1. \A i, j \in 1..Len(order) : order[i] = order[j] => i = j
    BY <1>1 DEF AheadInv, ListedFilled
  <2> HIDE DEF u
  <2> QED
    BY Zenon, <1>1, <1>2, <1>7, <2>1
<1>9. \A i \in 1..Len(ord) : ord[i] \in Urls
  BY <1>2
<1> DEFINE all == Stretch(ord, 0, Len(ord))
<1>10. /\ out = Stretch(ord, 0, k) /\ out \in SUBSET Urls /\ rest \in SUBSET Urls /\ all \in SUBSET Urls
       /\ out \cup rest = all /\ out \cap rest = {}
  <2>1. out = Stretch(ord, 0, k)
    BY <1>5 DEF Oldest, Stretch
  <2>2. out \in SUBSET Urls /\ rest \in SUBSET Urls /\ all \in SUBSET Urls /\ out \cup rest = all
    BY <1>4, <1>5, <1>9, <2>1 DEF Stretch
  <2>3. out \cap rest = {}
    BY <1>4, <1>5, <1>8, <2>1 DEF Stretch
  <2> QED
    BY <2>1, <2>2, <2>3
<1>11. IsFiniteSet(out) /\ IsFiniteSet(rest) /\ IsFiniteSet(all)
  BY <1>4, <1>5, <1>10, StretchFinite
<1>12. \A v \in Urls : Held[v] \in Nat /\ Held[v] = IF slot[v] > 0 THEN slot[v] ELSE 0
  BY <1>1, HeldIs
<1>13. Total(Held, all) = tot
  <2>1. u \in all /\ all \ {u} = Listed
    <3>1. u \in all
      BY <1>2, <1>4 DEF Stretch
    <3>2. \A v \in all \ {u} : v \in Listed
      BY <1>2, <1>4, <1>7 DEF Stretch, Listed
    <3>3. \A v \in Listed : v \in all \ {u}
      BY <1>1, <1>2, <1>4 DEF Stretch, Listed
    <3> QED
      BY <3>1, <3>2, <3>3
  <2> HIDE DEF all, u
  <2>2. Total(Held, all) = Held[u] + Total(Held, all \ {u})
    BY <1>10, <1>11, <1>12, <2>1, TotalRemove
  <2>3. total = Total(Held, Listed) /\ Held[u] = slot[u] /\ slot[u] \in Int
    BY <1>1, <1>12 DEF AccountInv
  <2>4. Total(Held, Listed) \in Int
    BY <1>10, <1>11, <1>12, <2>1, FS_Subset, TotalType
  <2>5. Total(Held, all) = slot[u] + Total(Held, Listed)
    BY Zenon, <2>1, <2>2, <2>3
  <2>6. tot = total + slot[u]
    BY DEF u
  <2> HIDE DEF tot
  <2> QED
    BY <2>3, <2>4, <2>5, <2>6
<1> HIDE DEF all, rest, out, tot
<1>14. /\ Total(Held, all) = Total(Held, out) + Total(Held, rest)
       /\ Total(Held, out) \in Nat /\ Total(Held, rest) \in Nat
  <2>1. \A v \in out \cup rest : Held[v] \in Int /\ Held[v] \in Nat
    BY <1>10, <1>12
  <2>2. Total(Held, out \cup rest) = Total(Held, out) + Total(Held, rest)
    BY <1>10, <1>11, <2>1, TotalUnion
  <2> QED
    BY <1>10, <1>11, <2>1, <2>2, TotalNat
<1>15. total' = Total(Held, rest)
  <2>1. SumBytes(Oldest(ord, k)) = Total(Held, out)
    BY <1>1, <1>10, <1>11, BytesSum DEF out
  <2>2. Left(tot, ord, k) = IF Total(Held, out) > tot THEN 0 ELSE tot - Total(Held, out)
    BY <2>1 DEF Left
  <2> QED
    BY <1>3, <1>13, <1>14, <2>2
<1>16. /\ Len(order') = Len(ord) - k
       /\ \A i \in 1..Len(order') : order'[i] = ord[i + k]
  BY <1>2, <1>3, <1>4, <1>5
<1>17. Listed' = rest
  <2>1. \A v \in rest : v \in Stretch(order', 0, Len(order'))
    <3> SUFFICES ASSUME NEW i \in (k + 1)..Len(ord)
                 PROVE  \E j \in 1..Len(order') : order'[j] = ord[i]
      BY <1>16 DEF rest, Stretch
    <3>1. i - k \in 1..Len(order') /\ (i - k) + k = i
      BY <1>4, <1>5, <1>16
    <3> QED
      BY <1>16, <3>1
  <2>2. \A v \in Stretch(order', 0, Len(order')) : v \in rest
    <3> SUFFICES ASSUME NEW i \in 1..Len(order')
                 PROVE  \E j \in (k + 1)..Len(ord) : order'[i] = ord[j]
      BY <1>16 DEF rest, Stretch
    <3>1. i + k \in (k + 1)..Len(ord)
      BY <1>4, <1>5, <1>16
    <3> QED
      BY <1>16, <3>1
  <2> QED
    BY <2>1, <2>2 DEF Listed
<1>18. Total(Held', rest) = Total(Held, rest)
  <2>1. \A v \in rest : v \in Urls /\ slot'[v] = slot[v]
    BY <1>3, <1>10
  <2>2. \A v \in rest : Held[v] \in Int /\ Held'[v] = Held[v]
    BY <1>12, <2>1 DEF Held, Bytes
  <2> QED
    BY <1>11, <2>2, TotalSame
<1>19. Len(order') <= AHEAD_MAX_SEGS /\ (total' <= AHEAD_MAX_BYTES \/ Len(order') = 1)
  <2>1. AHEAD_MAX_SEGS \in Nat /\ AHEAD_MAX_SEGS >= 1
    BY AheadConstants
  <2>2. CASE k = Len(ord) - 1
    BY <1>4, <1>16, <2>1, <2>2
  <2>3. CASE Len(ord) - k <= AHEAD_MAX_SEGS /\ Left(tot, ord, k) <= AHEAD_MAX_BYTES
    BY <1>3, <1>16, <2>3
  <2> QED
    BY <1>6, <2>2, <2>3
<1> QED
  BY <1>15, <1>17, <1>18, <1>19 DEF AccountInv

\* Every step keeps it.
LEMMA NextAccount == AccountInv /\ [AheadNext]_aheadVars => AccountInv'
<1> SUFFICES ASSUME AccountInv, [AheadNext]_aheadVars PROVE AccountInv'
  OBVIOUS
<1>1. AheadInv /\ AheadInv' /\ slot \in [Urls -> Int] /\ task \in [Tasks -> Calls]
  BY NextAheadInv DEF AccountInv, AheadInv, AheadTypeOK
<1>2. CASE UNCHANGED aheadVars
  BY <1>1, <1>2, UnlistedKeeps DEF aheadVars
<1>3. ASSUME NEW t \in Tasks, NEW u \in Urls, EnsureSegment(t, u) PROVE AccountInv'
  BY <1>1, <1>3, UnlistedKeeps DEF EnsureSegment
<1>4. ASSUME NEW u \in Urls, AbandonRemoves(u) PROVE AccountInv'
  <2>1. UNCHANGED <<order, total>> /\ (UNCHANGED slot \/ (slot[u] = Miss /\ slot' = [slot EXCEPT ![u] = Empty]))
    BY <1>4 DEF AbandonRemoves
  <2>2. \A v \in Urls : slot[v] > 0 => slot'[v] = slot[v]
    BY <1>1, <2>1 DEF Miss
  <2> QED
    BY <1>1, <2>1, <2>2, UnlistedKeeps
<1>5. ASSUME NEW t \in Tasks, begin(t) PROVE AccountInv'
  <2> DEFINE u == task[t].url
  <2>1. /\ UNCHANGED <<order, total>>
        /\ UNCHANGED slot \/ (slot[u] \in {Empty, Miss} /\ slot' = [slot EXCEPT ![u] = Pending])
    BY <1>5 DEF begin
  <2>2. \A v \in Urls : slot[v] > 0 => slot'[v] = slot[v]
    BY <1>1, <2>1 DEF Miss, Empty
  <2> QED
    BY <1>1, <2>1, <2>2, UnlistedKeeps
<1>6. ASSUME NEW t \in Tasks, wait_ready(t) \/ WaitTimesOut(t) PROVE AccountInv'
  BY <1>1, <1>6, UnlistedKeeps DEF wait_ready, WaitTimesOut
<1>7. ASSUME NEW t \in Tasks, abandon(t) \/ \E size \in Sizes : FetchOk(t, size) PROVE AccountInv'
  <2> DEFINE u == task[t].url
  <2>1. UNCHANGED <<order, total>> /\ task[t].pc = "fetch" /\ \E v : slot' = [slot EXCEPT ![u] = v]
    BY <1>7 DEF abandon, FetchOk
  <2>2. ~(slot[u] > 0)
    BY <1>1, <2>1, OwnedNotFilled
  <2>3. \A v \in Urls : slot[v] > 0 => slot'[v] = slot[v]
    BY <1>1, <2>1, <2>2
  <2> QED
    BY <1>1, <2>1, <2>3, UnlistedKeeps
<1>8. ASSUME NEW t \in Tasks, store(t) PROVE AccountInv'
  BY <1>1, <1>8, StoreAccounts
<1>9. ASSUME NEW c \in Clients, Disconnect(c) PROVE AccountInv'
  BY <1>1, <1>9, UnlistedKeeps DEF Disconnect
<1> QED
  BY <1>2, <1>3, <1>4, <1>5, <1>6, <1>7, <1>8, <1>9
     DEF AheadNext, AheadStep, spawn_png_prefetch, hls_proxy_handler, Tasks

(* Whatever fetches, misses, evictions and deferred removals overlap, a URL   *)
(* is listed once, its slot is filled, total is the bytes of the listed       *)
(* slots, and both limits hold (hls.rs, store).                               *)
THEOREM Accounted == AheadSpec => []AheadAccounting
<1>1. AccountInv => AheadAccounting
  <2> SUFFICES ASSUME AccountInv PROVE AheadAccounting
    OBVIOUS
  <2>1. /\ order \in Seq(Urls) /\ Len(order) \in Nat /\ DOMAIN order = 1..Len(order)
        /\ \A i \in 1..Len(order) : slot[order[i]] > 0
        /\ \A i, j \in 1..Len(order) : order[i] = order[j] => i = j
    BY DEF AccountInv, AheadInv, AheadTypeOK, ListedFilled
  <2>2. ToSet(order) = Listed
    BY <2>1 DEF ToSet, Listed, Stretch
  <2>3. IsFiniteSet(Listed) /\ Listed \in SUBSET Urls
    BY ListedFinite DEF AccountInv
  <2>4. SumBytes(Listed) = Total(Held, Listed)
    BY <2>3, BytesSum DEF AccountInv
  <2>5. \A u \in Listed : slot[u] > 0
    BY <2>1 DEF Listed, Stretch
  <2> QED
    BY <2>1, <2>2, <2>4, <2>5 DEF AccountInv, AheadAccounting
<1> QED
  BY InitAccount, NextAccount, <1>1, PTL DEF AheadSpec


-----------------------------------------------------------------------------
(* ProxyServer.  A URL that is owed is served: the app holds the port and    *)
(* token of the instance that listens, and a session that is owed has fewer  *)
(* than MAX_SESSIONS - 1 newer ones, so that neither the eviction of old     *)
(* sessions nor that of the ones over the limit reaches it.                  *)

ExtSessions == [id : Nat, born : Nat]

ProxyTypeOK ==
  /\ clock \in Nat /\ starts \in Nat /\ instance \in Nat /\ port \in Nat
  /\ server = [port |-> server.port, token |-> server.token]
  /\ handed \in Seq(ExtSessions)

(* The app holds the port and token of the instance that listens. *)
AppServed == server.port > 0 => listening /\ server.port = port /\ server.token = instance
LanServed == mounted # -1 /\ lanPlays => mounted \in routes

(* Sessions are numbered as they are made, and those owed are there. *)
SessionsKept ==
  /\ \A i \in 1..Len(handed) : handed[i].id = i /\ handed[i].born <= clock
  /\ sessions \subseteq Stretch(handed, 0, Len(handed))
  /\ \A i \in 1..Len(handed) : Owed(i) => handed[i] \in sessions

ProxyInv == ProxyTypeOK /\ AppServed /\ LanServed /\ SessionsKept /\ ~refused

(* A session that has fewer than MAX_SESSIONS - 1 newer ones makes room for  *)
(* none: all others that are live are older, or among those newer ones.      *)
LEMMA NewestStay ==
  ASSUME ProxyInv, NEW i \in 1..Len(handed), handed[i] \in Live, Len(handed) + 1 - i < MAX_SESSIONS
  PROVE  handed[i] \in evict_stale
<1> DEFINE s == handed[i]
           old == {r \in Live : r.id < s.id}
           new == {r \in Live : r.id > s.id}
<1>1. /\ Len(handed) \in Nat /\ \A j \in 1..Len(handed) : handed[j].id = j
      /\ Live \subseteq Stretch(handed, 0, Len(handed)) /\ MAX_SESSIONS \in Nat /\ i \in Nat
  BY ProxyConstants DEF ProxyInv, ProxyTypeOK, SessionsKept, Live
<1>2. IsFiniteSet(Live) /\ IsFiniteSet(old) /\ IsFiniteSet(new)
  <2>1. IsFiniteSet(Stretch(handed, 0, Len(handed)))
    BY <1>1, StretchFinite
  <2>2. IsFiniteSet(Live)
    BY <1>1, <2>1, FS_Subset
  <2> QED
    BY <2>2, FS_Subset
<1>3. Cardinality(new) <= Len(handed) - i /\ Cardinality(new) \in Nat
  <2> DEFINE T == Stretch(handed, i, Len(handed))
  <2>1. new \subseteq T
    BY <1>1 DEF Stretch
  <2>2. IsFiniteSet(T) /\ Cardinality(T) <= Len(handed) - i
    BY <1>1, StretchFinite
  <2> HIDE DEF T
  <2>3. Cardinality(new) <= Cardinality(T)
    BY <2>1, <2>2, FS_Subset
  <2>4. Cardinality(T) \in Nat /\ Cardinality(new) \in Nat
    BY <1>2, <2>2, FS_CardinalityType
  <2> QED
    BY <1>1, <2>2, <2>3, <2>4
<1>4. Live = (old \cup new) \cup {s}
  BY <1>1 DEF Stretch
<1>5. Cardinality(Live) <= Cardinality(old) + Cardinality(new) + 1
  <2>1. /\ IsFiniteSet(old \cup new)
        /\ Cardinality(old \cup new) = Cardinality(old) + Cardinality(new) - Cardinality(old \cap new)
    BY <1>2, FS_Union
  <2>2. Cardinality(old \cap new) \in Nat /\ Cardinality(old) \in Nat /\ Cardinality(old \cup new) \in Nat
    BY <1>2, <2>1, FS_Intersection, FS_CardinalityType
  <2>3. Cardinality(Live) \in {Cardinality(old \cup new), Cardinality(old \cup new) + 1}
    BY <1>4, <2>1, FS_AddElement
  <2> QED
    BY <1>3, <2>1, <2>2, <2>3
<1>6. Cardinality(old) + MAX_SESSIONS > Cardinality(Live)
  BY <1>1, <1>2, <1>3, <1>5, FS_CardinalityType
<1> QED
  BY <1>6 DEF evict_stale

\* A session has a number and a time.
LEMMA SessionFields == \A s \in ExtSessions : s.id \in Nat /\ s.born \in Nat
  BY DEF ExtSessions

\* The first state satisfies the invariant.
LEMMA InitProxyInv == ProxyInit => ProxyInv
  BY DEF ProxyInit, ProxyInv, ProxyTypeOK, AppServed, LanServed, SessionsKept, Stretch

\* A new session takes the place of one that is not owed.
LEMMA CreateKeeps ==
  ASSUME ProxyInv, create_ext_session
  PROVE  ProxyInv'
<1> DEFINE new == [id |-> Len(handed) + 1, born |-> clock]
<1>1. /\ listening /\ handed' = Append(handed, new) /\ sessions' = evict_stale \cup {new}
      /\ UNCHANGED <<instance, listening, port, starts, server, mounted, routes, lanPlays, clock,
                     refused>>
  BY DEF create_ext_session, ProxyInv, AppServed
<1>2. new \in ExtSessions /\ Len(handed) \in Nat
  <2>1. Len(handed) \in Nat /\ clock \in Nat
    BY DEF ProxyInv, ProxyTypeOK
  <2> QED
    BY <2>1 DEF ExtSessions
<1>3. /\ handed' \in Seq(ExtSessions) /\ Len(handed') = Len(handed) + 1
      /\ handed'[Len(handed) + 1] = new /\ \A i \in 1..Len(handed) : handed'[i] = handed[i]
  BY <1>1, <1>2 DEF ProxyInv, ProxyTypeOK
<1>4. new.id = Len(handed) + 1 /\ new.born = clock
  OBVIOUS
<1> HIDE DEF new
<1>5. \A i \in 1..Len(handed') : i \in 1..Len(handed) \/ i = Len(handed) + 1
  BY <1>2, <1>3
<1>6. \A i \in 1..Len(handed') : handed'[i].id = i /\ handed'[i].born <= clock'
  BY <1>1, <1>2, <1>3, <1>4, <1>5 DEF ProxyInv, SessionsKept, ProxyTypeOK
<1>7. sessions' \subseteq Stretch(handed', 0, Len(handed'))
  <2>1. evict_stale \subseteq Stretch(handed, 0, Len(handed))
    BY DEF evict_stale, Live, ProxyInv, SessionsKept
  <2>2. Stretch(handed, 0, Len(handed)) \subseteq Stretch(handed', 0, Len(handed')) /\ new \in Stretch(handed', 0, Len(handed'))
    BY <1>2, <1>3 DEF Stretch
  <2> QED
    BY <1>1, <2>1, <2>2
<1>8. ASSUME NEW i \in 1..Len(handed'), Owed(i)' PROVE handed'[i] \in sessions'
  <2>1. CASE i = Len(handed) + 1
    BY <1>1, <1>3, <2>1
  <2>2. CASE i \in 1..Len(handed)
    <3>1. Last(handed') = new /\ Last(handed) = handed[Len(handed)] /\ Len(handed) \in 1..Len(handed)
      BY <1>2, <1>3, <2>2 DEF Last
    <3>2. handed[i].born + SESSION_TTL > clock /\ Len(handed) + 1 - i < MAX_SESSIONS
      BY <1>3, <1>4, <1>8, <2>2, <3>1 DEF Owed
    <3>3. /\ handed[i].born \in Nat /\ handed[Len(handed)].born \in Nat /\ clock \in Nat
          /\ handed[Len(handed)].born <= clock
          /\ MAX_SESSIONS \in Nat /\ SESSION_TTL \in Nat
      <4>1. \A j \in 1..Len(handed) : handed[j] \in ExtSessions
        BY DEF ProxyInv, ProxyTypeOK
      <4>2. \A j \in 1..Len(handed) : handed[j].born \in Nat /\ handed[j].born <= clock
        BY <4>1, SessionFields DEF ProxyInv, SessionsKept
      <4> QED
        BY <2>2, <3>1, <4>2, ProxyConstants DEF ProxyInv, ProxyTypeOK
    <3>4. Owed(i)
      BY <1>2, <2>2, <3>1, <3>2, <3>3 DEF Owed
    <3>5. handed[i] \in Live
      BY <2>2, <3>2, <3>3, <3>4 DEF Live, ProxyInv, SessionsKept
    <3> QED
      BY <1>1, <1>3, <2>2, <3>2, <3>5, NewestStay
  <2> QED
    BY <1>5, <2>1, <2>2
<1> QED
  BY <1>1, <1>3, <1>6, <1>7, <1>8 DEF ProxyInv, ProxyTypeOK, AppServed, LanServed, SessionsKept

\* Every step keeps the invariant.
LEMMA NextProxyInv == ProxyInv /\ [ProxyNext]_proxyVars => ProxyInv'
<1> SUFFICES ASSUME ProxyInv, [ProxyNext]_proxyVars PROVE ProxyInv'
  OBVIOUS
<1>1. ASSUME NEW bound \in BOOLEAN, proxy_start(bound)
      PROVE  /\ instance' \in Nat /\ port' \in Nat /\ starts' \in Nat
             /\ handed' \in Seq(ExtSessions) /\ SessionsKept'
             /\ bound => listening' /\ instance' = port'
  BY <1>1 DEF proxy_start, ProxyInv, ProxyTypeOK, SessionsKept, Stretch
<1>2. ASSUME NoStart, clock' \in Nat, clock' >= clock
      PROVE  /\ instance' \in Nat /\ port' \in Nat /\ starts' \in Nat
             /\ handed' \in Seq(ExtSessions) /\ SessionsKept'
  <2>1. /\ handed' = handed /\ sessions' = sessions /\ clock \in Nat
        /\ handed \in Seq(ExtSessions)
    BY <1>2 DEF NoStart, ProxyInv, ProxyTypeOK
  <2>2. \A i \in 1..Len(handed) : handed[i] \in ExtSessions
    BY <2>1
  <2>3. \A i \in 1..Len(handed) : handed[i].id = i /\ handed[i].born \in Nat /\ handed[i].born <= clock'
    BY <1>2, <2>1, <2>2, SessionFields DEF ProxyInv, SessionsKept, ProxyTypeOK
  <2>4. /\ sessions \subseteq Stretch(handed, 0, Len(handed))
        /\ \A i \in 1..Len(handed) : Owed(i) => handed[i] \in sessions
    BY DEF ProxyInv, SessionsKept
  <2> QED
    BY <1>2, <2>1, <2>3, <2>4 DEF NoStart, ProxyInv, ProxyTypeOK, SessionsKept, Stretch, Owed
<1>3. ASSUME NEW bound \in BOOLEAN, LocalServerStart(bound) PROVE ProxyInv'
  <2>1. /\ server'.port > 0 => bound /\ server'.port = port' /\ server'.token = instance'
        /\ server' = [port |-> server'.port, token |-> server'.token]
    BY <1>3 DEF LocalServerStart, ProxyInv, ProxyTypeOK
  <2> QED
    BY <1>1, <1>3, <2>1 DEF LocalServerStart, ProxyInv, ProxyTypeOK, AppServed, LanServed
<1>4. CASE LocalServerStop
  BY <1>4 DEF LocalServerStop, ProxyInv, ProxyTypeOK, AppServed, LanServed, SessionsKept, Stretch, Owed
<1>5. ASSUME NEW bound \in BOOLEAN, lan_server_start(bound) PROVE ProxyInv'
  <2>1. server.port > 0 => NoStart
    BY <1>5 DEF lan_server_start, StartIfMissing, ProxyInv, AppServed
  <2>2. NoStart \/ proxy_start(bound)
    BY <1>5 DEF lan_server_start, StartIfMissing
  <2>3. clock' \in Nat /\ clock' >= clock
    BY <1>5 DEF lan_server_start, ProxyInv, ProxyTypeOK
  <2> QED
    BY <1>1, <1>2, <1>5, <2>1, <2>2, <2>3
       DEF lan_server_start, NoStart, ProxyInv, ProxyTypeOK, AppServed, LanServed
<1>6. CASE lan_server_stop \/ register_route
  <2>1. NoStart /\ clock' \in Nat /\ clock' >= clock
    BY <1>6 DEF lan_server_stop, register_route, ProxyInv, ProxyTypeOK
  <2> QED
    BY <1>2, <1>6, <2>1 DEF lan_server_stop, register_route, NoStart, ProxyInv, ProxyTypeOK, AppServed, LanServed
<1>7. ASSUME require_proxy_token \/ token_proxy_handler \/ Tick \/ \E i \in 1..MaxExt : ext_proxy_handler(i)
      PROVE  ProxyInv'
  <2>1. NoStart /\ clock' \in Nat /\ clock' >= clock /\ UNCHANGED <<server, mounted, routes, lanPlays>>
    BY <1>7 DEF require_proxy_token, token_proxy_handler, Tick, ext_proxy_handler, ProxyInv, ProxyTypeOK
  <2>2. \A i \in DOMAIN handed : Owed(i) => handed[i] \in sessions
    BY DEF ProxyInv, ProxyTypeOK, SessionsKept
  <2>3. ~refused'
    BY <1>7, <2>2 DEF require_proxy_token, token_proxy_handler, Tick, ext_proxy_handler, ProxyInv, AppServed, LanServed
  <2> QED
    BY <1>2, <2>1, <2>3 DEF NoStart, ProxyInv, ProxyTypeOK, AppServed, LanServed
<1>8. CASE UNCHANGED proxyVars
  BY <1>8 DEF proxyVars, ProxyInv, ProxyTypeOK, AppServed, LanServed, SessionsKept, Stretch, Owed
<1> QED
  BY <1>3, <1>4, <1>5, <1>6, <1>7, <1>8, CreateKeeps DEF ProxyNext

(* For any limits, lifetimes and numbers of starts: no request for a URL     *)
(* that was given away is refused while its service is on                    *)
(* (require_proxy_token, ext_proxy_handler, token_proxy_handler).            *)
THEOREM Served == ProxySpec => []UrlsServed
<1>1. ProxyInv => UrlsServed
  BY DEF ProxyInv, UrlsServed
<1> QED
  BY InitProxyInv, NextProxyInv, <1>1, PTL DEF ProxySpec

-----------------------------------------------------------------------------
(* SeekProxy.  Until one of the faults happens, a chunk file holds the bytes *)
(* of its own positions, and the one downloader that runs asks for the       *)
(* position its files end at.  Both are needed: the file is appended to, so  *)
(* that a piece lands where the file ends and not where the downloader is.   *)

Busy == {"probe", "wait", "up", "closing"}
BeenUp == {"up", "closing", "stopped"}
Sessions == [pc : {"none", "stop", "failed", "stopped"} \cup Busy, len : Nat, have : [Chunks -> Int]]
Loaders == [pc : {"off", "request", "stream", "end", "abort"}, at : Nat, src : Nat, attempt : Nat]
Readers == [pc : {"idle", "read"}, s : SeekSessions \cup {0}, pos : Nat, end : Int]

SeekTypeOK ==
  /\ seek \in SeekSessions \cup {0}
  /\ file \in [Chunks -> Seq(Nat)] /\ unlanded \in [Chunks -> Nat]
  /\ session \in [SeekSessions -> Sessions]
  /\ loader \in [SeekSessions -> Loaders]
  /\ reader \in Readers
  /\ reader.pc = "read" => /\ reader.s \in SeekSessions /\ session[reader.s].pc \in BeenUp
                           /\ reader.pos <= reader.end /\ reader.end < Length

(* One session at a time starts, runs or closes, with the only downloader    *)
(* whose pieces go to the files; the one that waits for it to close comes    *)
(* next.                                                                     *)
OneRuns ==
  /\ \A s \in SeekSessions : session[s].pc = "up" <=> seek = s
  /\ \A s, r \in SeekSessions : session[s].pc \in Busy /\ session[r].pc \in Busy => s = r
  /\ \A s, r \in SeekSessions :
       session[s].pc = "stop" /\ session[r].pc \in {"stop", "probe", "wait", "up"} => s = r
  /\ \A s \in SeekSessions :
       /\ loader[s].pc \in {"request", "stream", "end"} => session[s].pc \in {"wait", "up"}
       /\ loader[s].pc = "abort" => session[s].pc \in {"closing", "stopped"}
       /\ session[s].pc \in {"none", "stop", "probe"} => loader[s].at = 0
       /\ loader[s].pc \in {"stream", "abort"} => loader[s].src = loader[s].at
       /\ session[s].pc \in {"wait"} \cup BeenUp => session[s].len = Length
  /\ file = NoFiles \/ \E s \in SeekSessions : session[s].pc \in {"wait", "up", "closing"}

(* A downloader that still adds to the files. *)
Adds(s) == \/ loader[s].pc \in {"request", "stream"}
           \/ loader[s].pc = "abort" /\ session[s].pc = "closing"

(* How much of chunk c there is when position at comes next. *)
Reached(at, c) == IF at <= chunk_start(c) THEN 0
                  ELSE IF at <= chunk_start(c) + CHUNK_SIZE THEN at - chunk_start(c) ELSE CHUNK_SIZE

BytesRight ==
  /\ \A c \in Chunks : \A i \in 1..Len(file[c]) : file[c][i] = chunk_start(c) + i - 1
  /\ \A s \in SeekSessions : Adds(s) =>
       /\ loader[s].at < Length
       /\ \A c \in Chunks : Len(file[c]) = Reached(loader[s].at, c)

SeekGood == SeekTypeOK /\ OneRuns /\ BytesRight /\ ~garbled
SeekInv == mixed = {} => SeekGood

-----------------------------------------------------------------------------
\* The chunk a position is in, and the ones before and after it.
LEMMA ChunkOf ==
  ASSUME NEW p \in Nat
  PROVE  /\ chunk_index(p) \in Nat /\ chunk_start(chunk_index(p)) <= p
         /\ p < chunk_start(chunk_index(p)) + CHUNK_SIZE
         /\ chunk_start(chunk_index(p)) \in Nat
  BY SeekConstants DEF chunk_index, chunk_start

\* A chunk ends before the next ones start.
LEMMA ChunksApart ==
  ASSUME NEW a \in Nat, NEW b \in Nat, a < b
  PROVE  /\ chunk_start(a) \in Nat /\ chunk_start(b) \in Nat
         /\ chunk_start(a) + CHUNK_SIZE <= chunk_start(b)
<1>1. PICK d \in Nat : b = a + 1 + d
  <2>1. b - a - 1 \in Nat /\ b = a + 1 + (b - a - 1)
    OBVIOUS
  <2> QED
    BY <2>1
<1>2. CHUNK_SIZE \in Nat /\ d * CHUNK_SIZE \in Nat /\ a * CHUNK_SIZE \in Nat
  BY SeekConstants
<1>3. b * CHUNK_SIZE = a * CHUNK_SIZE + CHUNK_SIZE + d * CHUNK_SIZE
  BY <1>1, <1>2
<1> QED
  BY <1>2, <1>3 DEF chunk_start

\* Every position of the file is in a chunk.
LEMMA InChunks ==
  ASSUME NEW p \in Nat, p < Length
  PROVE  chunk_index(p) \in Chunks
<1> DEFINE c == chunk_index(p)
           e == chunk_index(2 * Length)
<1>1. 2 * Length \in Nat /\ p < 2 * Length
  BY SeekConstants
<1>2. /\ c \in Nat /\ e \in Nat /\ chunk_start(c) <= p /\ 2 * Length < chunk_start(e) + CHUNK_SIZE
      /\ chunk_start(c) \in Nat /\ chunk_start(e) \in Nat
  BY <1>1, ChunkOf
<1>3. CASE e < c
  <2>1. chunk_start(e) + CHUNK_SIZE <= chunk_start(c)
    BY <1>2, <1>3, ChunksApart
  <2> QED
    BY <1>1, <1>2, <2>1, SeekConstants
<1>4. CASE c <= e
  BY <1>2, <1>4 DEF Chunks
<1> QED
  BY <1>2, <1>3, <1>4

\* The smaller and the larger of two numbers.
LEMMA MinMax ==
  ASSUME NEW a \in Int, NEW b \in Int
  PROVE  /\ Min({a, b}) \in Int /\ Max({a, b}) \in Int
         /\ Min({a, b}) \in {a, b} /\ Min({a, b}) <= a /\ Min({a, b}) <= b
         /\ Max({a, b}) \in {a, b} /\ Max({a, b}) >= a /\ Max({a, b}) >= b
<1>1. \E x \in {a, b} : \A y \in {a, b} : x <= y
  OBVIOUS
<1>2. \E x \in {a, b} : \A y \in {a, b} : x >= y
  OBVIOUS
<1> QED
  BY <1>1, <1>2 DEF Min, Max

\* What a file holds after a piece was appended.
LEMMA Appended ==
  ASSUME NEW y \in Seq(Nat), NEW x \in Seq(Nat), NEW n \in Int, Len(x) = n
  PROVE  /\ Len(y \o x) = Len(y) + n
         /\ \A i \in 1..(Len(y) + n) : (y \o x)[i] = IF i <= Len(y) THEN y[i] ELSE x[i - Len(y)]
  OBVIOUS

\* The size that a chunk file should have is a number.
LEMMA ExpectedSize ==
  ASSUME NEW s, session[s].len \in Int, NEW c \in Chunks
  PROVE  chunk_expected_size(s, c) \in Int
<1>1. chunk_start(c) \in Int /\ session[s].len - chunk_start(c) \in Int /\ CHUNK_SIZE \in Int
  BY SeekConstants DEF Chunks, chunk_start
<1> DEFINE m == Min({session[s].len - chunk_start(c), CHUNK_SIZE})
<1>2. m \in Int
  BY <1>1, MinMax
<1> HIDE DEF m
<1>3. 0 \in Int
  OBVIOUS
<1>4. Max({0, m}) \in Int
  BY Zenon, <1>2, <1>3, MinMax
<1> QED
  BY <1>4 DEF chunk_expected_size, m

(* A step that moves neither files nor bytes, and no downloader to a new     *)
(* request, keeps what is right.                                             *)
LEMMA FilesStay ==
  ASSUME SeekGood, seek' \in SeekSessions \cup {0}, file' = file, unlanded' \in [Chunks -> Nat],
         session' \in [SeekSessions -> Sessions],
         loader' \in [SeekSessions -> Loaders], reader' = reader, garbled' = garbled,
         \A s \in SeekSessions : session[s].pc \in BeenUp => session'[s].pc \in BeenUp,
         OneRuns',
         \A s \in SeekSessions : Adds(s)' => Adds(s) /\ loader'[s].at = loader[s].at
  PROVE  SeekGood'
<1>1. SeekTypeOK'
  BY DEF SeekGood, SeekTypeOK
<1>2. BytesRight'
  BY DEF SeekGood, BytesRight, chunk_start, Reached
<1> QED
  BY <1>1, <1>2 DEF SeekGood

\* A step of the reader, as long as it was given the right bytes.
LEMMA ReaderMoves ==
  ASSUME SeekGood, UNCHANGED <<seek, session, loader, file, unlanded>>, ~garbled', reader' \in Readers,
         reader'.pc = "read" => /\ reader'.s \in SeekSessions /\ session[reader'.s].pc \in BeenUp
                                /\ reader'.pos <= reader'.end /\ reader'.end < Length
  PROVE  SeekGood'
  BY DEF SeekGood, SeekTypeOK, OneRuns, BytesRight, Adds, chunk_start, Reached

(* No files are right for any downloader that is off or at its first byte.   *)
LEMMA NoFilesRight ==
  ASSUME SeekGood, seek' \in SeekSessions \cup {0}, file' = NoFiles, unlanded' \in [Chunks -> Nat],
         session' \in [SeekSessions -> Sessions],
         loader' \in [SeekSessions -> Loaders], reader' = reader, garbled' = garbled,
         \A s \in SeekSessions : session[s].pc \in BeenUp => session'[s].pc \in BeenUp,
         OneRuns',
         \A s \in SeekSessions : Adds(s)' => loader'[s].at = 0
  PROVE  SeekGood'
<1>1. file' \in [Chunks -> Seq(Nat)] /\ \A c \in Chunks : Len(file'[c]) = 0
  BY DEF NoFiles
<1>2. \A c \in Chunks : Reached(0, c) = 0
  <2>1. \A c \in Chunks : chunk_start(c) \in Nat
    BY SeekConstants DEF Chunks, chunk_start
  <2> QED
    BY <2>1 DEF Reached
<1>3. SeekTypeOK'
  BY <1>1 DEF SeekGood, SeekTypeOK
<1>4. BytesRight'
  BY <1>1, <1>2, SeekConstants DEF BytesRight, Reached, chunk_start
<1> QED
  BY <1>3, <1>4 DEF SeekGood

\* What an abort does to the downloaders.
LEMMA AbortIs ==
  ASSUME SeekTypeOK, NEW s \in SeekSessions, Abort(s)
  PROVE  /\ loader' \in [SeekSessions -> Loaders]
         /\ \A r \in SeekSessions :
              /\ loader'[r].at = loader[r].at /\ loader'[r].src = loader[r].src
              /\ loader'[r].pc = IF r # s THEN loader[r].pc
                                 ELSE IF loader[s].pc = "stream" THEN "abort" ELSE "off"
<1> DEFINE p == IF loader[s].pc = "stream" THEN "abort" ELSE "off"
<1>1. loader' = [loader EXCEPT ![s].pc = p] /\ p \in {"abort", "off"}
  BY DEF Abort
<1> HIDE DEF p
<1>2. /\ loader' \in [SeekSessions -> Loaders]
      /\ \A r \in SeekSessions :
           /\ loader'[r].at = loader[r].at /\ loader'[r].src = loader[r].src
           /\ loader'[r].pc = IF r # s THEN loader[r].pc ELSE p
  BY <1>1 DEF SeekTypeOK, Loaders
<1> QED
  BY <1>2 DEF p

\* The proxy that runs is told to stop.
LEMMA ClosingAdds ==
  ASSUME SeekGood, Abort(seek), seek # 0,
         \A r \in SeekSessions : \/ session[r].pc = "none"
                                 \/ session'[r].pc = IF r = seek THEN "closing" ELSE session[r].pc
  PROVE  \A r \in SeekSessions : Adds(r)' => Adds(r) /\ loader'[r].at = loader[r].at
<1>1. seek \in SeekSessions /\ session[seek].pc = "up" /\ SeekTypeOK
  BY DEF SeekGood, SeekTypeOK, OneRuns
<1>2. \A r \in SeekSessions :
        /\ loader'[r].at = loader[r].at
        /\ loader'[r].pc = IF r # seek THEN loader[r].pc
                           ELSE IF loader[seek].pc = "stream" THEN "abort" ELSE "off"
  BY <1>1, AbortIs
<1> QED
  BY <1>1, <1>2 DEF Adds, SeekGood, OneRuns

\* A session starts, or waits for the one before it to stop.
LEMMA StartKeeps ==
  ASSUME SeekGood, NEW s \in SeekSessions, seek111477_start(s)
  PROVE  SeekGood'
<1>1. /\ session[s].pc = "none" /\ seek' = 0 /\ UNCHANGED <<file, unlanded, reader, garbled>>
      /\ 0 \notin SeekSessions /\ s # seek
      /\ \A r \in SeekSessions : session[r].pc \notin {"stop", "probe", "wait", "closing"}
  BY SeekConstants DEF seek111477_start, Starting, Closing, SeekGood, OneRuns, filesVars
<1>2. \A r \in SeekSessions : session[r].pc = "up" <=> seek = r
  BY DEF SeekGood, OneRuns
<1>3. CASE seek = 0
  <2>1. session' = [session EXCEPT ![s].pc = "probe"] /\ loader' = loader
    BY <1>3 DEF seek111477_start
  <2>2. /\ session' \in [SeekSessions -> Sessions]
        /\ \A r \in SeekSessions : /\ session'[r].pc = IF r = s THEN "probe" ELSE session[r].pc
                                   /\ session'[r].len = session[r].len
    BY <2>1 DEF SeekGood, SeekTypeOK, Sessions, Busy
  <2>3. file = NoFiles /\ \A r \in SeekSessions : loader[r].pc \notin {"request", "stream", "end"}
    BY <1>1, <1>2, <1>3 DEF SeekGood, OneRuns
  <2>4. OneRuns'
    BY <1>1, <1>2, <1>3, <2>1, <2>2, <2>3 DEF SeekGood, OneRuns, Busy, BeenUp
  <2>5. \A r \in SeekSessions : Adds(r)' => Adds(r) /\ loader'[r].at = loader[r].at
    BY <1>1, <2>1, <2>2, <2>3 DEF Adds
  <2>6. \A r \in SeekSessions : session[r].pc \in BeenUp => session'[r].pc \in BeenUp
    BY <1>1, <2>2 DEF BeenUp
  <2> QED
    BY <1>1, <2>1, <2>2, <2>4, <2>5, <2>6, FilesStay DEF SeekGood, SeekTypeOK
<1>4. CASE seek # 0
  <2>1. /\ session' = [session EXCEPT ![s].pc = "stop", ![seek].pc = "closing"] /\ Abort(seek)
        /\ seek \in SeekSessions /\ session[seek].pc = "up" /\ SeekTypeOK
    BY <1>2, <1>4 DEF seek111477_start, SeekGood, SeekTypeOK
  <2>2. /\ session' \in [SeekSessions -> Sessions]
        /\ \A r \in SeekSessions :
             /\ session'[r].pc = IF r = s THEN "stop" ELSE IF r = seek THEN "closing" ELSE session[r].pc
             /\ session'[r].len = session[r].len
    BY <1>1, <2>1 DEF SeekTypeOK, Sessions, Busy
  <2>3. /\ loader' \in [SeekSessions -> Loaders]
        /\ \A r \in SeekSessions :
             /\ loader'[r].at = loader[r].at /\ loader'[r].src = loader[r].src
             /\ loader'[r].pc = IF r # seek THEN loader[r].pc
                                ELSE IF loader[seek].pc = "stream" THEN "abort" ELSE "off"
    BY <2>1, AbortIs
  <2>4. OneRuns'
    BY <1>1, <1>2, <2>1, <2>2, <2>3 DEF SeekGood, OneRuns, Busy, BeenUp
  <2>5. \A r \in SeekSessions : Adds(r)' => Adds(r) /\ loader'[r].at = loader[r].at
    BY <1>1, <1>4, <2>1, <2>2, ClosingAdds
  <2>6. \A r \in SeekSessions : session[r].pc \in BeenUp => session'[r].pc \in BeenUp
    BY <1>1, <2>2 DEF BeenUp
  <2> QED
    BY <1>1, <2>1, <2>2, <2>3, <2>4, <2>5, <2>6, FilesStay DEF SeekTypeOK
<1> QED
  BY <1>3, <1>4

\* The host stops the proxy.
LEMMA StopKeeps ==
  ASSUME SeekGood, seek111477_stop
  PROVE  SeekGood'
<1>1. /\ seek # 0 /\ seek \in SeekSessions /\ seek' = 0 /\ 0 \notin SeekSessions
      /\ session[seek].pc = "up" /\ SeekTypeOK /\ Abort(seek)
      /\ session' = [session EXCEPT ![seek].pc = "closing"]
      /\ UNCHANGED <<file, unlanded, reader, garbled>>
  BY SeekConstants DEF seek111477_stop, filesVars, SeekGood, SeekTypeOK, OneRuns
<1>2. /\ session' \in [SeekSessions -> Sessions]
      /\ \A r \in SeekSessions : /\ session'[r].pc = IF r = seek THEN "closing" ELSE session[r].pc
                                 /\ session'[r].len = session[r].len
  BY <1>1 DEF SeekTypeOK, Sessions, Busy
<1>3. /\ loader' \in [SeekSessions -> Loaders]
      /\ \A r \in SeekSessions :
           /\ loader'[r].at = loader[r].at /\ loader'[r].src = loader[r].src
           /\ loader'[r].pc = IF r # seek THEN loader[r].pc
                              ELSE IF loader[seek].pc = "stream" THEN "abort" ELSE "off"
  BY <1>1, AbortIs
<1>4. OneRuns'
  BY <1>1, <1>2, <1>3 DEF SeekGood, OneRuns, Busy, BeenUp
<1>5. \A r \in SeekSessions : Adds(r)' => Adds(r) /\ loader'[r].at = loader[r].at
  BY <1>1, <1>2, ClosingAdds
<1>6. \A r \in SeekSessions : session[r].pc \in BeenUp => session'[r].pc \in BeenUp
  BY <1>2 DEF BeenUp
<1> QED
  BY <1>1, <1>2, <1>3, <1>4, <1>5, <1>6, FilesStay DEF SeekTypeOK

\* The cache directory of the proxy that closes is removed.
LEMMA RemoveKeeps ==
  ASSUME SeekGood, NEW s \in SeekSessions, remove_dir_all(s)
  PROVE  SeekGood'
<1>1. /\ session[s].pc = "closing" /\ file' = NoFiles /\ unlanded' \in [Chunks -> Nat]
      /\ UNCHANGED <<seek, loader, reader, garbled>>
      /\ \A r \in SeekSessions \ {s} : session[r].pc \notin Busy
  BY DEF remove_dir_all, NoCache, NoBytes, SeekGood, OneRuns, Busy
<1>2. \A r \in SeekSessions :
        session'[r] = IF r = s THEN [session[r] EXCEPT !.pc = "stopped"]
                      ELSE IF session[r].pc = "stop" THEN [session[r] EXCEPT !.pc = "probe"]
                      ELSE session[r]
  BY DEF remove_dir_all
<1>3. /\ session' \in [SeekSessions -> Sessions]
      /\ \A r \in SeekSessions :
           /\ session'[r].pc = IF r = s THEN "stopped"
                               ELSE IF session[r].pc = "stop" THEN "probe" ELSE session[r].pc
           /\ session'[r].len = session[r].len
  BY <1>2 DEF remove_dir_all, SeekGood, SeekTypeOK, Sessions, Busy
<1>4. \A r \in SeekSessions : loader[r].pc \in {"off", "abort"}
  BY <1>1 DEF SeekGood, SeekTypeOK, OneRuns, Busy, Loaders
<1>5. OneRuns'
  BY <1>1, <1>3, <1>4 DEF SeekGood, OneRuns, Busy, BeenUp
<1>6. \A r \in SeekSessions : ~Adds(r)'
  BY <1>1, <1>3, <1>4 DEF Adds, Busy
<1>7. \A r \in SeekSessions : session[r].pc \in BeenUp => session'[r].pc \in BeenUp
  BY <1>3 DEF BeenUp
<1> QED
  BY <1>1, <1>3, <1>5, <1>6, <1>7, NoFilesRight DEF SeekGood, SeekTypeOK

\* The aborted downloader is gone.
LEMMA AbortedKeeps ==
  ASSUME SeekGood, NEW s \in SeekSessions, Aborted(s)
  PROVE  SeekGood'
<1>1. /\ UNCHANGED <<seek, session, file, unlanded, reader, garbled>>
      /\ loader' = [loader EXCEPT ![s].pc = "off"]
  BY DEF Aborted, filesVars
<1>2. /\ loader' \in [SeekSessions -> Loaders]
      /\ \A r \in SeekSessions : /\ loader'[r].at = loader[r].at /\ loader'[r].src = loader[r].src
                                 /\ loader'[r].pc = IF r = s THEN "off" ELSE loader[r].pc
  BY <1>1 DEF SeekGood, SeekTypeOK, Loaders
<1>3. OneRuns'
  BY <1>1, <1>2 DEF SeekGood, OneRuns
<1>4. \A r \in SeekSessions : Adds(r)' => Adds(r) /\ loader'[r].at = loader[r].at
  BY <1>1, <1>2 DEF Adds
<1> QED
  BY <1>1, <1>2, <1>3, <1>4, FilesStay DEF SeekGood, SeekTypeOK

\* A proxy that starts finds no chunk files, and starts at the first byte.
LEMMA ProbeKeeps ==
  ASSUME SeekGood, NEW s \in SeekSessions, probe(s), mixed' = {}
  PROVE  SeekGood'
<1>1. /\ session[s].pc = "probe" /\ UNCHANGED <<seek, file, unlanded, reader, garbled>>
      /\ \A r \in SeekSessions \ {s} : session[r].pc \notin Busy
      /\ file = NoFiles /\ \A r \in SeekSessions : loader[r].pc \in {"off", "abort"}
      /\ loader[s].at = 0 /\ loader[s] \in Loaders /\ unlanded \in [Chunks -> Nat] /\ loader[s].pc = "off"
  BY DEF probe, filesVars, SeekGood, SeekTypeOK, OneRuns, Busy, Loaders
<1>2. CASE follow_redirects_fails(s) /\ loader' = loader
  <2>1. /\ session' \in [SeekSessions -> Sessions]
        /\ \A r \in SeekSessions : /\ session'[r].pc = IF r = s THEN "failed" ELSE session[r].pc
                                   /\ session'[r].len = session[r].len
    BY <1>2 DEF follow_redirects_fails, SeekGood, SeekTypeOK, Sessions
  <2>2. OneRuns'
    BY <1>1, <1>2, <2>1 DEF SeekGood, OneRuns, Busy, BeenUp
  <2>3. \A r \in SeekSessions : ~Adds(r)'
    BY <1>1, <1>2, <2>1 DEF Adds, Busy
  <2>4. \A r \in SeekSessions : session[r].pc \in BeenUp => session'[r].pc \in BeenUp
    BY <1>1, <2>1 DEF BeenUp
  <2> QED
    BY <1>1, <1>2, <2>1, <2>2, <2>3, <2>4, NoFilesRight DEF SeekGood, SeekTypeOK
<1>3. ASSUME NEW l \in {Length} \cup WrongLengths,
             session' = [session EXCEPT ![s].pc = "wait", ![s].len = l,
                                        ![s].have = [c \in Chunks |-> Landed(c)]],
             loader' = [loader EXCEPT ![s].pc = "request"], Notes("misprobed", l # Length)
      PROVE  SeekGood'
  <2>0. l = Length /\ l \in Nat
    BY <1>3, SeekConstants DEF Notes
  <2>1. /\ session' \in [SeekSessions -> Sessions]
        /\ \A r \in SeekSessions : /\ session'[r].pc = IF r = s THEN "wait" ELSE session[r].pc
                                   /\ session'[r].len = IF r = s THEN Length ELSE session[r].len
    <3> DEFINE h == [c \in Chunks |-> Landed(c)]
    <3>1. h \in [Chunks -> Int]
      BY DEF SeekGood, SeekTypeOK, Landed
    <3>2. session' = [session EXCEPT ![s].pc = "wait", ![s].len = l, ![s].have = h]
      BY <1>3
    <3> HIDE DEF h
    <3> QED
      BY <2>0, <3>1, <3>2 DEF SeekGood, SeekTypeOK, Sessions, Busy
  <2>2. /\ loader' \in [SeekSessions -> Loaders]
        /\ \A r \in SeekSessions : /\ loader'[r].at = loader[r].at /\ loader'[r].src = loader[r].src
                                   /\ loader'[r].pc = IF r = s THEN "request" ELSE loader[r].pc
    BY <1>3 DEF SeekGood, SeekTypeOK, Loaders
  <2>3. OneRuns'
    BY <1>1, <2>1, <2>2 DEF SeekGood, OneRuns, Busy, BeenUp
  <2>4. \A r \in SeekSessions : Adds(r)' => loader'[r].at = 0
    BY <1>1, <2>1, <2>2 DEF Adds, Busy
  <2>5. \A r \in SeekSessions : session[r].pc \in BeenUp => session'[r].pc \in BeenUp
    BY <1>1, <2>1 DEF BeenUp
  <2> QED
    BY <1>1, <2>1, <2>2, <2>3, <2>4, <2>5, NoFilesRight DEF SeekGood, SeekTypeOK
<1> QED
  BY <1>2, <1>3 DEF probe

\* The first byte arrives, and the session is up.
LEMMA FirstByteKeeps ==
  ASSUME SeekGood, NEW s \in SeekSessions, FirstByte(s)
  PROVE  SeekGood'
<1>1. /\ session[s].pc = "wait" /\ seek' = s /\ UNCHANGED <<loader, file, unlanded, reader, garbled>>
      /\ session' = [session EXCEPT ![s].pc = "up"]
      /\ \A r \in SeekSessions \ {s} : session[r].pc \notin Busy
  BY DEF FirstByte, filesVars, SeekGood, OneRuns, Busy
<1>2. /\ session' \in [SeekSessions -> Sessions]
      /\ \A r \in SeekSessions : /\ session'[r].pc = IF r = s THEN "up" ELSE session[r].pc
                                 /\ session'[r].len = session[r].len
  BY <1>1 DEF SeekGood, SeekTypeOK, Sessions, Busy
<1>3. OneRuns'
  BY <1>1, <1>2 DEF SeekGood, OneRuns, Busy, BeenUp
<1>4. \A r \in SeekSessions : Adds(r)' => Adds(r) /\ loader'[r].at = loader[r].at
  BY <1>1, <1>2 DEF Adds
<1>5. \A r \in SeekSessions : session[r].pc \in BeenUp => session'[r].pc \in BeenUp
  BY <1>2 DEF BeenUp
<1> QED
  BY <1>1, <1>2, <1>3, <1>4, <1>5, FilesStay DEF SeekGood, SeekTypeOK

\* A downloader asks again from where it is.
LEMMA RequestKeeps ==
  ASSUME SeekGood, NEW s \in SeekSessions, RequestRange(s) \/ StreamEnds(s), mixed' = {}
  PROVE  SeekGood'
<1>1. /\ UNCHANGED <<seek, session, file, unlanded, reader, garbled>>
      /\ loader[s].pc \in {"request", "stream"}
      /\ loader[s] \in Loaders /\ MAX_RECONNECTS \in Nat
  BY SeekConstants DEF RequestRange, StreamEnds, filesVars, SeekGood, SeekTypeOK
<1>2. PICK l \in Loaders : /\ loader' = [loader EXCEPT ![s] = l] /\ l.at = loader[s].at
                           /\ l.pc \in {"request", "stream", "end"}
                           /\ l.pc = "stream" => l.src = l.at
  <2>1. CASE StreamEnds(s)
    <3> DEFINE l == [loader[s] EXCEPT !.pc = "request"]
    <3>1. loader' = [loader EXCEPT ![s] = l]
      BY Zenon, <1>1, <2>1 DEF StreamEnds
    <3>2. l \in Loaders /\ l.at = loader[s].at /\ l.pc = "request"
      BY <1>1 DEF Loaders
    <3> QED
      BY Zenon, <3>1, <3>2
  <2>2. CASE Retry(s)
    <3> DEFINE p == IF loader[s].attempt < MAX_RECONNECTS THEN "request" ELSE "end"
               l == [loader[s] EXCEPT !.attempt = @ + 1, !.pc = p]
    <3>1. loader' = [loader EXCEPT ![s].attempt = @ + 1, ![s].pc = p]
      BY <2>2 DEF Retry
    <3>2. p \in {"request", "end"}
      OBVIOUS
    <3> HIDE DEF p
    <3>3. loader' = [loader EXCEPT ![s] = l]
      BY <3>1 DEF SeekGood, SeekTypeOK
    <3>4. loader[s].attempt + 1 \in Nat
      BY <1>1 DEF Loaders
    <3>5. l.at = loader[s].at /\ l.pc = p
      BY <1>1 DEF Loaders
    <3>6. l \in Loaders
      BY Zenon, <1>1, <3>2, <3>4 DEF Loaders
    <3> QED
      BY Zenon, <3>2, <3>3, <3>5, <3>6
  <2>3. CASE RequestRange(s) /\ try_unlock_download_lock(s)
    <3> DEFINE l == [loader[s] EXCEPT !.attempt = 0]
    <3>1. loader' = [loader EXCEPT ![s] = l] /\ loader[s].pc = "request"
      BY Zenon, <2>3 DEF RequestRange, try_unlock_download_lock
    <3>2. l \in Loaders /\ l.at = loader[s].at /\ l.pc = "request"
      BY <1>1, <3>1 DEF Loaders
    <3> QED
      BY Zenon, <3>1, <3>2
  <2>4. CASE loader' = [loader EXCEPT ![s].pc = "stream", ![s].src = loader[s].at, ![s].attempt = 0]
    <3> DEFINE l == [loader[s] EXCEPT !.pc = "stream", !.src = loader[s].at, !.attempt = 0]
    <3>1. loader' = [loader EXCEPT ![s] = l]
      BY <2>4 DEF SeekGood, SeekTypeOK
    <3>2. l \in Loaders /\ l.at = loader[s].at /\ l.pc = "stream" /\ l.src = l.at
      BY <1>1 DEF Loaders
    <3> QED
      BY Zenon, <3>1, <3>2
  <2> QED
    BY <2>1, <2>2, <2>3, <2>4 DEF RequestRange
<1>3. loader' \in [SeekSessions -> Loaders] /\ \A r \in SeekSessions \ {s} : loader'[r] = loader[r]
  BY <1>2 DEF SeekGood, SeekTypeOK
<1>4. loader'[s] = l
  BY <1>2 DEF SeekGood, SeekTypeOK
<1>5. OneRuns'
  BY <1>1, <1>2, <1>3, <1>4 DEF SeekGood, OneRuns
<1>6. \A r \in SeekSessions : Adds(r)' => Adds(r) /\ loader'[r].at = loader[r].at
  BY <1>1, <1>2, <1>3, <1>4 DEF Adds
<1> QED
  BY <1>1, <1>2, <1>3, <1>4, <1>5, <1>6, FilesStay DEF SeekGood, SeekTypeOK

\* The caches are cleared while no proxy starts or runs.
LEMMA PurgeKeeps ==
  ASSUME SeekGood, purge_cache, mixed' = {}
  PROVE  SeekGood'
<1>1. /\ ~InUse /\ file' = NoFiles /\ unlanded' \in [Chunks -> Nat]
      /\ UNCHANGED <<seek, session, loader, reader, garbled>>
  BY DEF purge_cache, Notes, NoCache, NoBytes
<1>2. \A s \in SeekSessions : loader[s].pc \in {"off", "end"} /\ session[s].pc # "wait"
  BY <1>1 DEF InUse, Starting
<1>3. OneRuns'
  BY <1>1 DEF SeekGood, OneRuns
<1>4. \A r \in SeekSessions : ~Adds(r)'
  BY <1>1, <1>2 DEF Adds
<1> QED
  BY <1>1, <1>3, <1>4, NoFilesRight DEF SeekGood, SeekTypeOK

\* Writes land.
LEMMA LandKeeps ==
  ASSUME SeekGood, NEW c \in Chunks, Land(c)
  PROVE  SeekGood'
<1>1. /\ UNCHANGED <<seek, session, loader, file, reader, garbled>> /\ unlanded \in [Chunks -> Nat]
  BY DEF Land, SeekGood, SeekTypeOK
<1>2. unlanded' \in [Chunks -> Nat]
  BY <1>1 DEF Land
<1>3. OneRuns'
  BY <1>1 DEF SeekGood, OneRuns
<1>4. \A r \in SeekSessions : Adds(r)' => Adds(r) /\ loader'[r].at = loader[r].at
  BY <1>1 DEF Adds
<1> QED
  BY <1>1, <1>2, <1>3, <1>4, FilesStay DEF SeekGood, SeekTypeOK

(* A piece of n bytes at position at, which end in chunk k, adds to chunk k   *)
(* and to no other.                                                           *)
LEMMA PieceReaches ==
  ASSUME NEW at \in Nat, NEW n \in Nat \ {0}, NEW k \in Nat,
         chunk_start(k) <= at, at + n <= chunk_start(k) + CHUNK_SIZE
  PROVE  /\ Reached(at, k) = at - chunk_start(k) /\ Reached(at + n, k) = Reached(at, k) + n
         /\ \A c \in Nat \ {k} : Reached(at + n, c) = Reached(at, c)
<1>1. CHUNK_SIZE \in Nat \ {0} /\ chunk_start(k) \in Nat
  BY SeekConstants DEF chunk_start
<1>2. Reached(at, k) = at - chunk_start(k) /\ Reached(at + n, k) = Reached(at, k) + n
  BY <1>1 DEF Reached
<1>3. ASSUME NEW c \in Nat, c < k
      PROVE  Reached(at + n, c) = Reached(at, c)
  <2>1. chunk_start(c) \in Nat /\ chunk_start(c) + CHUNK_SIZE <= at
    BY <1>1, <1>3, ChunksApart
  <2>2. Reached(at, c) = CHUNK_SIZE /\ Reached(at + n, c) = CHUNK_SIZE
    BY <1>1, <2>1 DEF Reached
  <2> QED
    BY <2>2
<1>4. ASSUME NEW c \in Nat, k < c
      PROVE  Reached(at + n, c) = Reached(at, c)
  <2>1. chunk_start(c) \in Nat /\ at + n <= chunk_start(c)
    BY <1>1, <1>4, ChunksApart
  <2> QED
    BY <1>1, <2>1 DEF Reached
<1> QED
  BY <1>2, <1>3, <1>4

\* A downloader appends a piece to the file of its position.
LEMMA PieceKeeps ==
  ASSUME SeekGood, NEW s \in SeekSessions, NEW n \in NetSizes, NEW opened \in BOOLEAN,
         Piece(s, n, opened), mixed' = {}
  PROVE  SeekGood'
<1> DEFINE at == loader[s].at
           k == chunk_index(at)
<1>0. /\ Wrong(s, n, opened) = {} /\ loader[s].pc \in {"stream", "abort"}
      /\ loader[s].src + n <= Length /\ UNCHANGED <<seek, reader, garbled>>
      /\ IF opened THEN Append1(k, n, loader[s].src) ELSE UNCHANGED filesVars
  BY DEF Piece
<1>1. /\ n \in Nat \ {0} /\ CHUNK_SIZE \in Nat \ {0} /\ Length \in Nat \ {0}
      /\ loader[s] \in Loaders /\ at \in Nat /\ loader[s].src = at
  BY <1>0, SeekConstants DEF SeekGood, SeekTypeOK, OneRuns, Loaders
<1>20. chunk_index(at + n - 1) = k /\ opened /\ session[s].pc # "stopped"
  <2>1. \A f \in {"straddle", "unwritten", "shared"} :
          ~(\/ f = "straddle" /\ chunk_index(at + n - 1) # k
            \/ f = "unwritten" /\ ~opened
            \/ f = "shared" /\ session[s].pc = "stopped")
    BY <1>0 DEF Wrong
  <2> QED
    BY <2>1
<1>2. /\ at + n <= Length /\ unlanded' = [unlanded EXCEPT ![k] = @ + n]
      /\ file' = [file EXCEPT ![k] = @ \o [i \in 1..n |-> at + i - 1]]
  BY <1>0, <1>1, <1>20 DEF Append1
<1>3. ~(at + n - 1 >= session[s].len) /\ session[s].len = Length /\ Adds(s)
      /\ session[s].pc \in {"wait", "up", "closing"}
  <2>1. session[s].pc \in {"wait", "up", "closing"}
    BY <1>0, <1>20 DEF SeekGood, OneRuns
  <2>2. session[s].len = Length
    BY <2>1 DEF SeekGood, OneRuns, BeenUp
  <2>3. Adds(s)
    BY <1>0, <1>20 DEF SeekGood, OneRuns, Adds
  <2> QED
    BY <1>1, <1>2, <2>1, <2>2, <2>3
<1>4. /\ session' = [session EXCEPT ![s].have = add_range(s, at, at + n - 1)]
      /\ loader' = [loader EXCEPT ![s].at = at + n - 1 + 1, ![s].src = at + n,
                                  ![s].pc = IF loader[s].pc = "abort" THEN "off"
                                            ELSE IF at + n - 1 >= session[s].len THEN "spin"
                                            ELSE IF at + n - 1 + 1 = session[s].len THEN "end"
                                            ELSE "stream"]
  BY <1>1, <1>3 DEF Piece
<1>5. k \in Nat /\ k \in Chunks /\ chunk_start(k) \in Nat /\ chunk_start(k) <= at
  <2>1. at < Length
    BY <1>1, <1>2
  <2> HIDE DEF at
  <2>2. k \in Nat /\ chunk_start(k) \in Nat /\ chunk_start(k) <= at
    BY <1>1, ChunkOf
  <2>3. k \in Chunks
    BY <1>1, <2>1, InChunks
  <2> QED
    BY <2>2, <2>3
<1>6. at + n <= chunk_start(k) + CHUNK_SIZE
  <2>1. at + n - 1 \in Nat
    BY <1>1
  <2>2. at + n - 1 < chunk_start(k) + CHUNK_SIZE
    BY <1>20, <2>1, ChunkOf
  <2> QED
    BY <1>1, <1>5, <2>2
<1>7. /\ Reached(at, k) = at - chunk_start(k) /\ Reached(at + n, k) = Reached(at, k) + n
      /\ \A c \in Nat \ {k} : Reached(at + n, c) = Reached(at, c)
  BY <1>1, <1>5, <1>6, PieceReaches
<1>8. /\ session' \in [SeekSessions -> Sessions]
      /\ \A r \in SeekSessions : session'[r].pc = session[r].pc /\ session'[r].len = session[r].len
  <2> DEFINE h == add_range(s, at, at + n - 1)
  <2>1. session[s] \in Sessions /\ session[s].have \in [Chunks -> Int]
    BY DEF SeekGood, SeekTypeOK, Sessions
  <2>2. h \in [Chunks -> Int]
    <3> SUFFICES ASSUME NEW c \in Chunks, NEW e \in Int, e = chunk_start(c) + chunk_expected_size(s, c) - 1
                 PROVE  Max({Min({at + n - 1, e}) - chunk_start(c) + 1, session[s].have[c]}) \in Int
      <4>1. session[s].len \in Int
        BY <1>1, <1>3
      <4>2. \A c \in Chunks : chunk_start(c) \in Int /\ chunk_expected_size(s, c) \in Int
        BY <4>1, SeekConstants, ExpectedSize DEF Chunks, chunk_start
      <4>3. \A c \in Chunks : chunk_start(c) + chunk_expected_size(s, c) - 1 \in Int
        BY <4>2
      <4> QED
        BY <2>1, <4>3 DEF add_range
    <3>1. chunk_start(c) \in Int
      BY SeekConstants DEF Chunks, chunk_start
    <3>2. at + n - 1 \in Int
      BY <1>1
    <3>3. Min({at + n - 1, e}) \in Int
      BY <3>2, MinMax
    <3> DEFINE m == Min({at + n - 1, e}) - chunk_start(c) + 1
    <3>4. m \in Int /\ session[s].have[c] \in Int
      BY <2>1, <3>1, <3>3
    <3>5. Max({m, session[s].have[c]}) \in Int
      <4> HIDE DEF m
      <4> QED
        BY Zenon, <3>4, MinMax
    <3> QED
      BY <3>5
  <2>3. session' = [session EXCEPT ![s].have = h]
    BY <1>4
  <2> HIDE DEF h
  <2> QED
    BY <2>2, <2>3 DEF SeekGood, SeekTypeOK, Sessions
<1>9. PICK l \in Loaders : /\ loader' = [loader EXCEPT ![s] = l] /\ l.at = at + n /\ l.src = at + n
                           /\ l.pc \in {"stream", "end", "off"}
                           /\ l.pc = "stream" => at + n < Length
                           /\ l.pc \in {"stream", "end"} => loader[s].pc = "stream"
  <2> DEFINE p == IF loader[s].pc = "abort" THEN "off"
                  ELSE IF at + n = Length THEN "end" ELSE "stream"
             l == [loader[s] EXCEPT !.at = at + n, !.src = at + n, !.pc = p]
  <2>1. at + n \in Nat /\ at + n - 1 + 1 = at + n
    BY <1>1
  <2>2. loader' = [loader EXCEPT ![s].at = at + n, ![s].src = at + n, ![s].pc = p]
    BY <1>3, <1>4, <2>1
  <2>3. /\ p \in {"stream", "end", "off"} /\ (p = "stream" => at + n < Length)
        /\ p \in {"stream", "end"} => loader[s].pc = "stream"
    BY <1>0, <1>1, <1>2, <2>1
  <2> HIDE DEF p
  <2>4. loader' = [loader EXCEPT ![s] = l]
    BY <2>2 DEF SeekGood, SeekTypeOK
  <2>5. l.at = at + n /\ l.src = at + n /\ l.pc = p
    BY <1>1 DEF Loaders
  <2>6. l \in Loaders
    BY Zenon, <1>1, <2>1, <2>3 DEF Loaders
  <2> QED
    BY Zenon, <2>3, <2>4, <2>5, <2>6
<1>10. /\ loader' \in [SeekSessions -> Loaders] /\ loader'[s] = l
       /\ \A r \in SeekSessions \ {s} : loader'[r] = loader[r]
  BY <1>9 DEF SeekGood, SeekTypeOK
<1>11. file' \in [Chunks -> Seq(Nat)] /\ \A c \in Chunks \ {k} : file'[c] = file[c]
  <2>1. [i \in 1..n |-> at + i - 1] \in Seq(Nat)
    BY <1>1
  <2>2. file \in [Chunks -> Seq(Nat)] /\ file[k] \in Seq(Nat)
    BY <1>5 DEF SeekGood, SeekTypeOK
  <2> QED
    BY <1>2, <1>5, <2>1, <2>2
<1>12. /\ Len(file'[k]) = Len(file[k]) + n
       /\ \A i \in 1..Len(file'[k]) : file'[k][i] = IF i <= Len(file[k]) THEN file[k][i]
                                                   ELSE at + (i - Len(file[k])) - 1
  <2> DEFINE x == [i \in 1..n |-> at + i - 1]
             y == file[k]
  <2>1. x \in Seq(Nat) /\ Len(x) = n /\ \A i \in 1..n : x[i] = at + i - 1
    BY <1>1
  <2>2. y \in Seq(Nat) /\ Len(y) \in Nat /\ file'[k] = y \o x
    <3>1. file' = [file EXCEPT ![k] = @ \o x]
      BY <1>2
    <3> HIDE DEF x, k
    <3> QED
      BY <1>5, <3>1 DEF SeekGood, SeekTypeOK
  <2> HIDE DEF x, y, at
  <2>3. /\ Len(y \o x) = Len(y) + n
        /\ \A i \in 1..(Len(y) + n) : (y \o x)[i] = IF i <= Len(y) THEN y[i] ELSE x[i - Len(y)]
    <3>1. n \in Int
      BY <1>1
    <3> QED
      BY Zenon, <2>1, <2>2, <3>1, Appended
  <2>4. \A i \in 1..(Len(y) + n) : i > Len(y) => x[i - Len(y)] = at + (i - Len(y)) - 1
    <3> SUFFICES ASSUME NEW i \in 1..(Len(y) + n), i > Len(y)
                 PROVE  x[i - Len(y)] = at + (i - Len(y)) - 1
      OBVIOUS
    <3>1. i - Len(y) \in 1..n
      BY <1>1, <2>2
    <3> QED
      BY <2>1, <3>1
  <2>5. \A i \in 1..Len(file'[k]) : file'[k][i] = IF i <= Len(y) THEN y[i] ELSE at + (i - Len(y)) - 1
    BY <1>1, <2>2, <2>3, <2>4
  <2> QED
    BY <2>2, <2>3, <2>5 DEF y
<1>13. Len(file[k]) = at - chunk_start(k) /\ \A c \in Chunks : Len(file[c]) = Reached(at, c)
  BY <1>3, <1>5, <1>7 DEF SeekGood, BytesRight
<1>14. \A r \in SeekSessions \ {s} : ~Adds(r)
  BY <1>3 DEF SeekGood, OneRuns, Busy, Adds
<1>15. \A c \in Chunks : \A i \in 1..Len(file'[c]) : file'[c][i] = chunk_start(c) + i - 1
  <2>1. \A c \in Chunks \ {k} : \A i \in 1..Len(file'[c]) : file'[c][i] = chunk_start(c) + i - 1
    BY <1>11 DEF SeekGood, BytesRight
  <2>2. \A i \in 1..Len(file'[k]) : file'[k][i] = chunk_start(k) + i - 1
    <3>1. \A i \in 1..Len(file[k]) : file[k][i] = chunk_start(k) + i - 1
      BY <1>5 DEF SeekGood, BytesRight
    <3> DEFINE m == Len(file[k])
               z == Len(file'[k])
    <3>2. m = at - chunk_start(k) /\ m \in Nat /\ z = m + n
      BY <1>1, <1>5, <1>12, <1>13
    <3>3. ASSUME NEW i \in 1..z
          PROVE  file'[k][i] = chunk_start(k) + i - 1
      <4>1. file'[k][i] = IF i <= m THEN file[k][i] ELSE at + (i - m) - 1
        BY <1>12, <3>3
      <4>2. i \in Nat \ {0} /\ (i <= m => file[k][i] = chunk_start(k) + i - 1)
        BY <1>1, <3>1, <3>2, <3>3
      <4> HIDE DEF m, z, at, k
      <4> QED
        BY <1>1, <1>5, <3>2, <4>1, <4>2
    <3> QED
      BY <3>3
  <2> QED
    BY <2>1, <2>2
<1>16. \A c \in Chunks : Len(file'[c]) = Reached(at + n, c)
  <2>1. \A c \in Chunks : c \in Nat
    BY DEF Chunks
  <2> HIDE DEF at, k
  <2> QED
    BY <1>7, <1>11, <1>12, <1>13, <2>1
<1>17. BytesRight'
  <2>1. ASSUME NEW r \in SeekSessions, Adds(r)'
        PROVE  loader'[r].at < Length /\ \A c \in Chunks : Len(file'[c]) = Reached(loader'[r].at, c)
    <3>1. r = s
      BY <1>8, <1>10, <1>14, <2>1 DEF Adds
    <3>2. loader'[r] = l /\ l.at = at + n
      BY <1>9, <1>10, <3>1
    <3>3. at + n < Length
      BY <1>9, <2>1, <3>2 DEF Adds
    <3> HIDE DEF at
    <3> QED
      BY <1>16, <3>2, <3>3
  <2> QED
    BY <1>15, <2>1 DEF BytesRight, chunk_start, Reached
<1>18. OneRuns'
  <2> HIDE DEF at
  <2>1. l.at = l.src /\ loader'[s] = l
    BY <1>9, <1>10
  <2> QED
    BY <1>0, <1>3, <1>8, <1>9, <1>10, <2>1 DEF SeekGood, OneRuns
<1>19. unlanded' \in [Chunks -> Nat]
  <2> HIDE DEF k
  <2> QED
    BY <1>1, <1>2, <1>5 DEF SeekGood, SeekTypeOK
<1> QED
  BY <1>0, <1>8, <1>10, <1>11, <1>17, <1>18, <1>19 DEF SeekGood, SeekTypeOK

\* A player asks for a range of the file.
LEMMA ServeKeeps ==
  ASSUME SeekGood, NEW s \in SeekSessions, NEW a \in Positions, NEW b \in Positions,
         serve_root(s, a, b)
  PROVE  SeekGood'
<1> DEFINE pr == parse_range(a, b, session[s].len)
<1>1. /\ UNCHANGED <<seek, session, loader, file, unlanded, garbled>>
      /\ reader' = [pc |-> "read", s |-> s, pos |-> pr[1], end |-> pr[2]]
      /\ session[s].pc = "up" /\ session[s].len = Length
  BY DEF serve_root, filesVars, SeekGood, OneRuns, BeenUp
<1>2. /\ pr[1] \in Nat /\ pr[2] \in Int /\ pr[1] <= pr[2] /\ pr[2] < Length
  <2>1. Length \in Nat \ {0} /\ a \in Nat /\ b \in Nat /\ a < Length /\ Length - 1 \in Int
    BY SeekConstants DEF Positions
  <2>2. /\ Min({b, Length - 1}) \in {b, Length - 1} /\ Min({b, Length - 1}) <= Length - 1
    <3>1. b \in Int
      BY <2>1
    <3> QED
      BY Zenon, <2>1, <3>1, MinMax
  <2>3. CASE a > b \/ a >= Length
    BY <1>1, <2>1, <2>3 DEF parse_range
  <2>4. CASE ~(a > b \/ a >= Length)
    BY <1>1, <2>1, <2>2, <2>4 DEF parse_range
  <2> QED
    BY <2>3, <2>4
<1> HIDE DEF pr
<1>3. reader' \in Readers
  <2>1. s \in SeekSessions \cup {0}
    OBVIOUS
  <2> QED
    BY <1>1, <1>2, <2>1 DEF Readers
<1>4. reader'.pos = pr[1] /\ reader'.end = pr[2] /\ reader'.s = s /\ session[s].pc \in BeenUp
  BY <1>1 DEF BeenUp
<1> QED
  BY <1>1, <1>2, <1>3, <1>4, ReaderMoves DEF SeekGood

\* One turn of the reading loop.
LEMMA ReadKeeps ==
  ASSUME SeekGood, ReadTurn
  PROVE  SeekGood'
<1> DEFINE p == reader.pos
           c == chunk_index(p)
           off == p - chunk_start(c)
           want == Min({reader.end - p + 1, chunk_expected_size(reader.s, c) - off})
           got == Max({0, Min({want, Landed(c) - off})})
<1>1. /\ UNCHANGED <<seek, session, loader, file, unlanded>>
      /\ \/ reader' = IdleReader /\ garbled' = garbled
         \/ /\ reader' = IF p + got > reader.end THEN IdleReader ELSE [reader EXCEPT !.pos = p + got]
            /\ garbled' = (garbled \/ \E i \in 1..got : file[c][off + i] # p + i - 1)
  BY DEF ReadTurn, filesVars
<1>2. /\ reader \in Readers /\ p \in Nat /\ reader.end \in Int /\ p <= reader.end /\ reader.end < Length
      /\ reader.pc = "read" /\ Length \in Nat
      /\ reader.s \in SeekSessions /\ session[reader.s].pc \in BeenUp /\ session[reader.s].len \in Int
  BY SeekConstants DEF ReadTurn, SeekGood, SeekTypeOK, Readers, Sessions
<1>3. c \in Chunks /\ c \in Nat /\ chunk_start(c) \in Nat /\ off \in Nat
  BY <1>2, ChunkOf, InChunks
<1>4. /\ file[c] \in Seq(Nat) /\ Len(file[c]) \in Nat
      /\ Landed(c) \in Int /\ Landed(c) <= Len(file[c])
  <2>1. file[c] \in Seq(Nat) /\ unlanded[c] \in Nat
    BY <1>3 DEF SeekGood, SeekTypeOK
  <2> HIDE DEF c
  <2> QED
    BY <2>1 DEF Landed
<1>5. got \in Nat /\ (got # 0 => got <= Len(file[c]) - off)
  <2>1. /\ reader.end - p + 1 \in Int /\ chunk_expected_size(reader.s, c) - off \in Int
        /\ Landed(c) - off \in Int
    <3>1. chunk_expected_size(reader.s, c) \in Int
      BY <1>2, <1>3, ExpectedSize
    <3> HIDE DEF off, c, p
    <3> QED
      BY <1>2, <1>3, <1>4, <3>1
  <2>2. want \in Int
    <3>1. Min({reader.end - p + 1, chunk_expected_size(reader.s, c) - off}) \in Int
      <4> HIDE DEF off, c, p
      <4> QED
        BY Zenon, <2>1, MinMax
    <3> QED
      BY <3>1
  <2> DEFINE m == Min({want, Landed(c) - off})
  <2> HIDE DEF want
  <2>3. m \in Int /\ m <= Landed(c) - off
    <3>1. /\ Min({want, Landed(c) - off}) \in Int
          /\ Min({want, Landed(c) - off}) <= Landed(c) - off
      <4> HIDE DEF off, c
      <4> QED
        BY Zenon, <2>1, <2>2, MinMax
    <3> QED
      BY <3>1
  <2> HIDE DEF m, off, c
  <2>4. Max({0, m}) \in {0, m} /\ Max({0, m}) >= 0
    <3>1. 0 \in Int
      OBVIOUS
    <3> QED
      BY Zenon, <2>3, <3>1, MinMax
  <2>5. got = Max({0, m})
    BY DEF m
  <2> HIDE DEF got
  <2> QED
    BY <1>3, <1>4, <2>3, <2>4, <2>5
<1>6. \A i \in 1..got : file[c][off + i] = p + i - 1
  <2>1. \A j \in 1..Len(file[c]) : file[c][j] = chunk_start(c) + j - 1
    BY <1>3 DEF SeekGood, BytesRight
  <2>2. off + chunk_start(c) = p
    BY <1>2, <1>3
  <2> HIDE DEF off, c, got, p
  <2> SUFFICES ASSUME NEW i \in 1..got
               PROVE  file[c][off + i] = p + i - 1
    OBVIOUS
  <2>3. off + i \in 1..Len(file[c])
    BY <1>3, <1>4, <1>5
  <2>4. file[c][off + i] = chunk_start(c) + (off + i) - 1
    BY <2>1, <2>3
  <2> QED
    BY <1>2, <1>3, <1>5, <2>2, <2>4
<1>7. ~garbled'
  BY <1>1, <1>6 DEF SeekGood
<1> HIDE DEF got
<1>8. \/ reader' = IdleReader
      \/ p + got <= reader.end /\ reader' = [reader EXCEPT !.pos = p + got]
  BY <1>1, <1>2, <1>5
<1>9. /\ reader' \in Readers
      /\ reader'.pc = "read" => /\ reader'.s \in SeekSessions /\ session[reader'.s].pc \in BeenUp
                                /\ reader'.pos <= reader'.end /\ reader'.end < Length
  <2>1. p + got \in Nat
    BY <1>2, <1>5
  <2>2. CASE reader' = IdleReader
    BY <2>2 DEF IdleReader, Readers
  <2>3. CASE p + got <= reader.end /\ reader' = [reader EXCEPT !.pos = p + got]
    BY <1>2, <2>1, <2>3 DEF Readers
  <2> QED
    BY <1>8, <2>2, <2>3
<1> QED
  BY <1>1, <1>7, <1>9, ReaderMoves

-----------------------------------------------------------------------------
\* The first state satisfies the invariant.
LEMMA SeekInitInv == SeekInit => SeekInv
<1> SUFFICES ASSUME SeekInit, mixed = {}
             PROVE  SeekGood
  BY DEF SeekInv
<1>1. file = NoFiles /\ file \in [Chunks -> Seq(Nat)] /\ \A c \in Chunks : Len(file[c]) = 0
  <2>1. mixed # {"leftover"}
    OBVIOUS
  <2>2. file = NoFiles
    BY <2>1 DEF SeekInit
  <2> QED
    BY <2>2 DEF NoFiles
<1>2. SeekTypeOK
  BY <1>1, SeekConstants DEF SeekInit, SeekTypeOK, Sessions, Loaders, Readers, IdleReader, NoBytes
<1>3. OneRuns
  BY <1>1, SeekConstants DEF SeekInit, OneRuns, Busy, BeenUp
<1>4. BytesRight
  BY <1>1 DEF SeekInit, BytesRight, Adds
<1> QED
  BY <1>2, <1>3, <1>4 DEF SeekGood, SeekInit

\* A fault that has happened stays in the ghost.
LEMMA FaultsStay ==
  ASSUME SeekNext
  PROVE  mixed \subseteq mixed'
<1>1. \A s \in SeekSessions : /\ FirstByteTimesOut(s) => mixed \subseteq mixed'
                              /\ RequestRange(s) => mixed \subseteq mixed'
                              /\ probe(s) => mixed \subseteq mixed'
  BY DEF FirstByteTimesOut, RequestRange, probe, Notes
<1>2. \A s \in SeekSessions, n \in NetSizes, opened \in BOOLEAN :
        Piece(s, n, opened) => mixed \subseteq mixed'
  BY DEF Piece
<1>3. purge_cache => mixed \subseteq mixed'
  BY DEF purge_cache, Notes
<1>4. \A c \in Chunks : Land(c) \/ WritesSwap(c) \/ WriteFails(c) => mixed \subseteq mixed'
  BY DEF Land, WritesSwap, WriteFails
<1> QED
  BY <1>1, <1>2, <1>3, <1>4 DEF SeekNext, seek111477_start, FirstByte, seek111477_stop, StreamEnds,
                    remove_dir_all, Aborted, serve_root, ReadTurn

\* Every step keeps it.
LEMMA SeekNextInv == SeekInv /\ [SeekNext]_seekVars => SeekInv'
<1> SUFFICES ASSUME SeekInv, [SeekNext]_seekVars, mixed' = {}
             PROVE  SeekGood'
  BY DEF SeekInv
<1>1. CASE UNCHANGED seekVars
  BY <1>1 DEF SeekInv, SeekGood, SeekTypeOK, OneRuns, BytesRight, Adds, seekVars, filesVars, chunk_start,
              Reached
<1>2. CASE SeekNext
  <2>1. SeekGood
    BY <1>2, FaultsStay DEF SeekInv
  <2>2. ASSUME NEW s \in SeekSessions
        PROVE  seek111477_start(s) \/ probe(s) \/ FirstByte(s) => SeekGood'
    BY <2>1, StartKeeps, ProbeKeeps, FirstByteKeeps
  <2>8. ASSUME NEW s \in SeekSessions
        PROVE  remove_dir_all(s) \/ Aborted(s) => SeekGood'
    BY <2>1, RemoveKeeps, AbortedKeeps
  <2>9. ASSUME NEW c \in Chunks
        PROVE  /\ Land(c) => SeekGood'
               /\ ~WritesSwap(c) /\ ~WriteFails(c)
    BY <2>1, LandKeeps DEF WritesSwap, WriteFails
  <2>3. ASSUME NEW s \in SeekSessions
        PROVE  ~FirstByteTimesOut(s)
    BY DEF FirstByteTimesOut
  <2>4. seek111477_stop \/ purge_cache => SeekGood'
    BY <2>1, StopKeeps, PurgeKeeps
  <2>5. ASSUME NEW s \in SeekSessions
        PROVE  /\ RequestRange(s) \/ StreamEnds(s) => SeekGood'
               /\ \A n \in NetSizes, opened \in BOOLEAN : Piece(s, n, opened) => SeekGood'
    BY <2>1, RequestKeeps, PieceKeeps
  <2>6. ASSUME NEW s \in SeekSessions, NEW a \in Positions, NEW b \in Positions, serve_root(s, a, b)
        PROVE  SeekGood'
    BY <2>1, <2>6, ServeKeeps
  <2>7. ReadTurn => SeekGood'
    BY <2>1, ReadKeeps
  <2> QED
    BY <1>2, <2>2, <2>3, <2>4, <2>5, <2>6, <2>7, <2>8, <2>9 DEF SeekNext
<1> QED
  BY <1>1, <1>2

(* As long as none of these faults has happened, a player is never given a *)
(* byte of another position and the chunk lock is never held for good: the    *)
(* one downloader that runs asks for the position its chunk files end at.     *)
THEOREM Upstream == SeekSpec => []SeekServesUpstream
<1>1. SeekInv => SeekServesUpstream
  BY DEF SeekInv, SeekGood, SeekTypeOK, SeekServesUpstream, LockFree, Loaders
<1> QED
  BY SeekInitInv, SeekNextInv, <1>1, PTL DEF SeekSpec

-----------------------------------------------------------------------------
(* HlsPlaylist: the range a player asks of a playlist, and the bytes of a     *)
(* segment.  Both are functions of their inputs.                              *)

(* A range of a rewritten playlist of any length is answered with exactly    *)
(* the bytes it names that are there, whether it gives a first byte, a first  *)
(* and a last or the length of a tail, and with 416 when none of them is:     *)
(* playlist_byte_range never slices past the end or from a byte after the     *)
(* last.                                                                      *)
THEOREM RangesServed ==
  ASSUME NEW from \in Nat \cup {-1}, NEW to \in Nat \cup {-1}, from # -1 \/ to # -1, NEW len \in Nat
  PROVE  RangeServed([given |-> TRUE, from |-> from, to |-> to], len)
<1> DEFINE spec == [given |-> TRUE, from |-> from, to |-> to]
           r == playlist_byte_range(spec, len)
           asked == {b \in 0..(len - 1) : IF from = -1 THEN b >= len - to
                                         ELSE b >= from /\ (to = -1 \/ b <= to)}
<1>1. IF asked = {} THEN r = NotSatisfiable ELSE r.kind = "206" /\ r.first..r.last = asked
  <2>1. CASE from = -1
    <3>1. r = IF to <= 0 \/ len = 0 THEN NotSatisfiable
              ELSE [kind |-> "206", first |-> Max({0, len - to}), last |-> len - 1]
      BY <2>1 DEF playlist_byte_range
    <3>2. Max({0, len - to}) = IF 0 <= len - to THEN len - to ELSE 0
      <4>1. len - to \in Int /\ 0 \in Int
        OBVIOUS
      <4> QED
        BY <4>1, MinOfTwo
    <3>3. CASE to <= 0 \/ len = 0
      <4>1. asked = {}
        BY <2>1, <3>3
      <4> QED
        BY <3>1, <3>3, <4>1
    <3>4. CASE ~(to <= 0 \/ len = 0)
      <4>1. len - 1 \in asked
        BY <2>1, <3>4
      <4>2. Max({0, len - to})..(len - 1) = asked
        BY <2>1, <3>2, <3>4
      <4> HIDE DEF asked, r
      <4> QED
        BY <3>1, <3>4, <4>1, <4>2
    <3> QED
      BY <3>3, <3>4
  <2>2. CASE from # -1
    <3> DEFINE end == IF to = -1 THEN Max({0, len - 1}) ELSE to
    <3>1. r = IF len = 0 \/ from >= len \/ from > end THEN NotSatisfiable
              ELSE [kind |-> "206", first |-> from, last |-> Min({end, len - 1})]
      BY <2>2 DEF playlist_byte_range
    <3>2. end = IF to = -1 THEN (IF 0 <= len - 1 THEN len - 1 ELSE 0) ELSE to
      <4>1. len - 1 \in Int /\ 0 \in Int
        OBVIOUS
      <4> QED
        BY <4>1, MinOfTwo
    <3> HIDE DEF end
    <3>3. end \in Nat /\ Min({end, len - 1}) = IF end <= len - 1 THEN end ELSE len - 1
      BY <3>2, MinOfTwo
    <3>4. CASE len = 0 \/ from >= len \/ from > end
      <4>1. asked = {}
        BY <2>2, <3>2, <3>4
      <4> QED
        BY <3>1, <3>4, <4>1
    <3>5. CASE ~(len = 0 \/ from >= len \/ from > end)
      <4>1. from \in asked
        BY <2>2, <3>2, <3>5
      <4>2. from..Min({end, len - 1}) = asked
        BY <2>2, <3>2, <3>3, <3>5
      <4> HIDE DEF asked, r
      <4> QED
        BY <3>1, <3>5, <4>1, <4>2
    <3> QED
      BY <3>4, <3>5
  <2> QED
    BY <2>1, <2>2
<1> QED
  BY <1>1 DEF RangeServed

(* finish_hls_proxy_body labels a segment MPEG-TS exactly when it is that or  *)
(* hides it in one of the shells that strip_png_wrapper opens.                *)
THEOREM SegmentsServed == \A r \in Shells : SegmentServed(r)
<1> SUFFICES ASSUME NEW r \in Shells
             PROVE  SegmentServed(r)
  OBVIOUS
<1> DEFINE hidden == r.plain \/ r.chunk \/ r.pixels \/ r.iend = "ts" \/ r.at252
<1>1. r.shell \in {"none", "riff", "png"} /\ r.iend \in {"ts", "other", "none"}
  BY DEF Shells
<1>2. /\ r.plain => r.shell = "none"
      /\ r.chunk => r.shell = "riff"
      /\ r.pixels \/ r.at252 \/ r.iend # "none" => r.shell = "png"
      /\ r.at252 => ~ r.pixels /\ r.iend # "other"
  BY DEF Shells
<1>3. (strip_png_wrapper(r) = "ts") <=> hidden
  <2>1. CASE r.shell = "none"
    BY <1>2, <2>1, Zenon DEF strip_png_wrapper, IsTs
  <2>2. CASE r.shell = "riff"
    BY <1>2, <2>2, Zenon DEF strip_png_wrapper, IsTs
  <2>3. CASE r.shell = "png"
    BY <1>1, <1>2, <2>3, Zenon DEF strip_png_wrapper, IsTs
  <2> QED
    BY <1>1, <2>1, <2>2, <2>3
<1> HIDE DEF hidden
<1> QED
  BY <1>3 DEF SegmentServed, finish_hls_proxy_body, hidden

-----------------------------------------------------------------------------
(* HlsPlaylist: playlists of any length.  Both the rewritten playlist and     *)
(* what is fetched ahead are picked from the lines of the blocks, end to end; *)
(* to compare them is to compare the places that each of them picks.          *)

\* Any line of a playlist, with whatever its URI holds after double slashes.
Kinds == {"uri", "info", "inf", "sub", "key", "tag", "end", "blank"}
EntryKinds == {"info", "inf", "uri"}
Parts == [text : STRING, as : {"plain", "host", "dir", "file", "query"}]
AnyUri == [form : {"abs", "proto", "root", "rel"}, host : STRING, name : STRING, extra : Seq(Parts),
           esc : {"none", "reserved", "url"}]
AnyLine == {l \in [kind : Kinds, uri : AnyUri \cup {NoUri}, subs : BOOLEAN] : l.kind = "uri" => l.uri # NoUri}

\* An entry is a URI line, the tag it belongs to if it has one, and blank
\* lines between them; any other line stands by itself.
AnyBlock ==
  {b \in Seq(AnyLine) :
     \/ Len(b) = 1 /\ b[1].kind \notin {"info", "inf"}
     \/ /\ Len(b) >= 2 /\ b[1].kind \in {"info", "inf"} /\ b[Len(b)].kind = "uri"
        /\ \A j \in 2..(Len(b) - 1) : b[j].kind = "blank"}

\* What a playlist was asked with: its own base, and that of one nested in it.
Base == [host : STRING, dir : STRING]
Origins == [flixcloud : BOOLEAN, own : Base, nested : Base]

\* A URI that nothing mangles keeps its name and the host it names, and the
\* handler asks for it as it was resolved; a relative one is under the base,
\* unless what follows a double slash is taken for an authority.
LEMMA ResolvedIs ==
  ASSUME NEW u \in AnyUri, NEW base \in Base
  PROVE  LET r == resolve_url(u, base)
         IN  /\ r # NoUri
             /\ ~Mangled(u) => handler_target(r) = r /\ r.name = u.name /\ r.host = HostOf(u, base)
             /\ u.form = "rel" /\ (u.extra # <<>> => u.extra[1].as = "plain") =>
                  r.host = base.host /\ r.dir = base.dir
<1> DEFINE host == IF u.form \in {"abs", "proto"} THEN u.host ELSE base.host
           dir == IF u.form = "rel" THEN base.dir ELSE "own"
           v == [host |-> host, dir |-> dir, name |-> u.name, extra |-> u.extra, esc |-> u.esc]
           w == [host |-> u.extra[1].text, dir |-> "own",
                 name |-> IF u.extra[1].as \in {"host", "dir"} THEN u.name ELSE "other",
                 extra |-> Tail(u.extra), esc |-> u.esc]
           r == resolve_url(u, base)
<1>1. u.extra \in Seq(Parts) /\ Len(u.extra) \in Nat
  BY DEF AnyUri
<1>2. r = IF u.extra = <<>> \/ u.extra[1].as = "plain" THEN v ELSE w
  <2>1. u.extra # <<>> => Head(u.extra) = u.extra[1]
    BY <1>1
  <2>2. r = IF u.extra = <<>> \/ Head(u.extra).as = "plain" THEN v
            ELSE [v EXCEPT !.host = Head(u.extra).text, !.extra = Tail(u.extra), !.dir = "own",
                           !.name = IF Head(u.extra).as \in {"host", "dir"} THEN @ ELSE "other"]
    BY DEF resolve_url, collapse_double_authority
  <2> QED
    BY <2>1, <2>2
<1>3. ASSUME u.extra # <<>> PROVE /\ Tail(u.extra) \in Seq(Parts) /\ 1 \in DOMAIN u.extra
                                 /\ Tail(u.extra) # <<>> =>
                                      2 \in DOMAIN u.extra /\ Head(Tail(u.extra)) = u.extra[2]
  <2> DEFINE e == u.extra
  <2>1. e \in Seq(Parts) /\ e # <<>>
    BY <1>1, <1>3
  <2> HIDE DEF e
  <2>2. 1 \in DOMAIN e /\ Tail(e) \in Seq(Parts)
    BY <2>1, EmptySeq
  <2>3. ASSUME Tail(e) # <<>> PROVE 2 \in DOMAIN e /\ Head(Tail(e)) = e[2]
    BY <2>1, <2>2, <2>3, EmptySeq
  <2> QED
    BY <2>2, <2>3 DEF e
<1>4. "form" \in DOMAIN NoUri
  BY DEF NoUri
<1>5. "form" \notin DOMAIN v /\ "form" \notin DOMAIN w
  OBVIOUS
<1>6. r # NoUri
  BY <1>2, <1>4, <1>5
<1>7. ASSUME ~Mangled(u)
      PROVE  handler_target(r) = r /\ r.name = u.name /\ r.host = HostOf(u, base)
  <2>1. u.esc = "none" /\ \A i \in DOMAIN u.extra : u.extra[i].as = "plain" \/ (i = 1 /\ u.extra[i].as = "host")
    BY <1>7 DEF Mangled
  <2>2. r.esc = "none"
    BY <1>2, <2>1
  <2>3. urlencoding_decode(r) = r
    BY <2>2 DEF urlencoding_decode
  <2>4. r.extra = <<>> \/ Head(r.extra).as = "plain"
    <3>1. CASE u.extra = <<>> \/ u.extra[1].as = "plain"
      BY <1>2, <3>1
    <3>2. CASE ~(u.extra = <<>> \/ u.extra[1].as = "plain")
      <4>1. r.extra = Tail(u.extra)
        BY <1>2, <3>2
      <4>2. Tail(u.extra) # <<>> => u.extra[2].as = "plain" /\ Head(Tail(u.extra)) = u.extra[2]
        BY <1>3, <2>1, <3>2
      <4> QED
        BY <4>1, <4>2
    <3> QED
      BY <3>1, <3>2
  <2>5. handler_target(r) = r
    BY <2>3, <2>4 DEF handler_target, collapse_double_authority
  <2>6. r.name = u.name /\ r.host = HostOf(u, base)
    <3>1. CASE u.extra = <<>> \/ u.extra[1].as = "plain"
      BY <1>2, <3>1 DEF HostOf
    <3>2. CASE ~(u.extra = <<>> \/ u.extra[1].as = "plain")
      <4>1. r = w
        BY <1>2, <3>2
      <4>2. u.extra # <<>> /\ u.extra[1].as = "host"
        BY <1>3, <2>1, <3>2
      <4> QED
        BY <4>1, <4>2 DEF HostOf
    <3> QED
      BY <3>1, <3>2
  <2> QED
    BY <2>5, <2>6
<1>8. u.form = "rel" /\ (u.extra # <<>> => u.extra[1].as = "plain") => r.host = base.host /\ r.dir = base.dir
  BY <1>2
<1> QED
  BY <1>6, <1>7, <1>8

\* The lines of a playlist that a rewritten one starts with, and the
\* renditions that follow them as comments.
Shown(body) == {i \in DOMAIN body : body[i].kind # "sub"}
Hidden(body) == {i \in DOMAIN body : body[i].kind = "sub" /\ body[i].uri # NoUri}
RewrittenLine(l, base) ==
  [kind |-> l.kind, subs |-> FALSE, play |-> IF l.uri = NoUri THEN NoUri ELSE resolve_url(l.uri, base)]

\* R has the lines of A with their targets, and renditions after them.
RewrittenTo(R, A, base) ==
  \E M \in Nat : /\ DOMAIN R = 1..M /\ M >= Len(A)
                 /\ \A i \in 1..Len(A) : R[i] = RewrittenLine(A[i], base)
                 /\ \A i \in (Len(A) + 1)..M : R[i].kind = "sub"

\* RewriteLines keeps the lines that are no renditions, in their order, and
\* puts the renditions behind them.
LEMMA RewriteIs ==
  ASSUME NEW body \in Seq(AnyLine), NEW base
  PROVE  /\ Picked(body, Shown(body)) \in Seq(AnyLine)
         /\ RewrittenTo(RewriteLines(body, base), Picked(body, Shown(body)), base)
<1> DEFINE K == Shown(body)
           H == Hidden(body)
           A == Picked(body, K)
           S == Picked(body, H)
           N == Cardinality(K)
           C == Cardinality(H)
           u == Upwards(H)
           x == [i \in DOMAIN A |-> RewrittenLine(A[i], base)]
           y == [i \in DOMAIN S |-> RewrittenLine(S[i], base)]
           R == RewriteLines(body, base)
<1>1. DOMAIN body = 1..Len(body)
  OBVIOUS
<1>2. K \in SUBSET (1..Len(body)) /\ H \in SUBSET (1..Len(body)) /\ \A i \in H : body[i].kind = "sub"
  BY <1>1 DEF Shown, Hidden
<1>3. R = x \o y
  BY DEF RewriteLines, RewrittenLine, Shown, Hidden
<1> HIDE DEF K, H, R
<1>4. N \in Nat /\ A \in Seq(AnyLine) /\ Len(A) = N
  BY <1>2, PickedIs
<1>5. /\ C \in Nat /\ S \in Seq(AnyLine) /\ Len(S) = C /\ u \in [1..C -> H]
      /\ \A n \in 1..C : S[n] = body[u[n]]
  BY <1>2, PickedIs
<1>6. DOMAIN A = 1..N /\ DOMAIN S = 1..C
  <2> HIDE DEF A, S, N, C
  <2> QED
    BY <1>4, <1>5
<1>7. \A i \in 1..C : S[i].kind = "sub"
  <2> HIDE DEF S, C, u
  <2> SUFFICES ASSUME NEW i \in 1..C PROVE S[i].kind = "sub"
    OBVIOUS
  <2>1. u[i] \in H /\ S[i] = body[u[i]]
    BY <1>5
  <2>2. body[u[i]].kind = "sub"
    BY <1>2, <2>1
  <2> QED
    BY <2>1, <2>2
<1> HIDE DEF A, S, N, C, u
<1>8. \A i \in 1..N : x[i] = RewrittenLine(A[i], base)
  BY <1>6
<1>9. \A i \in 1..C : y[i] = RewrittenLine(S[i], base)
  BY <1>6
<1>10. \A i \in 1..C : y[i].kind = "sub"
  <2> SUFFICES ASSUME NEW i \in 1..C PROVE y[i].kind = "sub"
    OBVIOUS
  <2>1. RewrittenLine(S[i], base).kind = S[i].kind
    BY DEF RewrittenLine
  <2> HIDE DEF y
  <2> QED
    BY <1>7, <1>9, <2>1
<1> DEFINE T == {x[i] : i \in 1..N} \cup {y[i] : i \in 1..C}
<1>11. DOMAIN x = 1..N /\ DOMAIN y = 1..C /\ x = [i \in 1..N |-> x[i]] /\ y = [i \in 1..C |-> y[i]]
  BY <1>6
<1>12. x \in [1..N -> T] /\ y \in [1..C -> T]
  <2> HIDE DEF x, y
  <2> QED
    BY <1>11
<1> HIDE DEF x, y, T
<1>13. x \in Seq(T) /\ Len(x) = N /\ y \in Seq(T) /\ Len(y) = C
  BY <1>4, <1>5, <1>12
<1>14. /\ DOMAIN R = 1..(N + C)
       /\ \A i \in 1..N : R[i] = x[i]
       /\ \A i \in (N + 1)..(N + C) : R[i] = y[i - N]
  <2>1. x \o y \in Seq(T) /\ Len(x \o y) = N + C
    BY <1>13
  <2>2. \A i \in 1..N : (x \o y)[i] = x[i]
    BY <1>4, <1>5, <1>13
  <2>3. \A i \in (N + 1)..(N + C) : (x \o y)[i] = y[i - N]
    BY <1>4, <1>5, <1>13
  <2>4. DOMAIN (x \o y) = 1..(N + C)
    BY <2>1
  <2> QED
    BY <1>3, <2>2, <2>3, <2>4
<1>15. \A i \in (N + 1)..(N + C) : i - N \in 1..C
  BY <1>4, <1>5
<1>16. N + C \in Nat /\ N + C >= N
  BY <1>4, <1>5
<1>17. \A i \in 1..N : R[i] = RewrittenLine(A[i], base)
  BY <1>8, <1>14
<1>18. \A i \in (N + 1)..(N + C) : R[i].kind = "sub"
  BY <1>10, <1>14, <1>15
<1>19. RewrittenTo(R, A, base)
  <2> DEFINE Long(M) == /\ DOMAIN R = 1..M /\ M >= Len(A)
                        /\ \A i \in 1..Len(A) : R[i] = RewrittenLine(A[i], base)
                        /\ \A i \in (Len(A) + 1)..M : R[i].kind = "sub"
  <2>1. Long(N + C)
    BY <1>4, <1>14, <1>16, <1>17, <1>18
  <2> HIDE DEF Long
  <2>2. \E M \in Nat : Long(M)
    BY <1>16, <2>1
  <2> QED
    BY <2>2 DEF Long, RewrittenTo
<1> QED
  BY <1>4, <1>19 DEF K, A, R

\* X is what RewriteLines makes of body, with its targets sent on by P: it has
\* the lines of body but the renditions (Bare), and renditions after them.
Bare(body) == Picked(body, Shown(body))
SentBy(X, body, base, P) ==
  LET R == RewriteLines(body, base)
  IN  X = [i \in DOMAIN R |-> IF R[i].play = NoUri THEN R[i] ELSE [R[i] EXCEPT !.play = P[R[i].play]]]
Played(l, line, base, P) ==
  /\ l.kind = line.kind /\ ~l.subs
  /\ line.uri # NoUri => l.play = P[resolve_url(line.uri, base)]
Rewritten(X, body, base, P) ==
  /\ Bare(body) \in Seq(AnyLine)
  /\ \E M \in Nat : /\ DOMAIN X = 1..M /\ M >= Len(Bare(body))
                    /\ \A i \in (Len(Bare(body)) + 1)..M : X[i].kind = "sub"
  /\ \A i \in 1..Len(Bare(body)) : Played(X[i], Bare(body)[i], base, P)

\* A playlist whose targets are sent on has the lines of the one it is made of.
LEMMA ProxyLines ==
  ASSUME NEW body \in Seq(AnyLine), NEW base \in Base, NEW P, NEW X, SentBy(X, body, base, P)
  PROVE  Rewritten(X, body, base, P)
<1> DEFINE R == RewriteLines(body, base)
           A == Bare(body)
           N == Len(A)
<1>1. X = [i \in DOMAIN R |-> IF R[i].play = NoUri THEN R[i] ELSE [R[i] EXCEPT !.play = P[R[i].play]]]
  BY DEF SentBy
<1>2. A \in Seq(AnyLine) /\ RewrittenTo(R, A, base)
  BY RewriteIs DEF Bare
<1> HIDE DEF R, A
<1>3. N \in Nat
  BY <1>2
<1> PICK M \in Nat : /\ DOMAIN R = 1..M /\ M >= N
                     /\ \A i \in 1..N : R[i] = RewrittenLine(A[i], base)
                     /\ \A i \in (N + 1)..M : R[i].kind = "sub"
  BY <1>2 DEF RewrittenTo
<1>4. ASSUME NEW i \in 1..N PROVE Played(X[i], A[i], base, P)
  <2>1. i \in DOMAIN R /\ R[i] = RewrittenLine(A[i], base) /\ A[i] \in AnyLine
    BY <1>2
  <2>2. X[i] = IF R[i].play = NoUri THEN R[i] ELSE [R[i] EXCEPT !.play = P[R[i].play]]
    BY <1>1, <2>1
  <2>3. R[i] = [kind |-> A[i].kind, subs |-> FALSE, play |-> R[i].play]
    BY <2>1 DEF RewrittenLine
  <2>4. X[i].kind = A[i].kind /\ ~X[i].subs /\ (R[i].play # NoUri => X[i].play = P[R[i].play])
    BY <2>2, <2>3
  <2>5. ASSUME A[i].uri # NoUri
        PROVE  R[i].play = resolve_url(A[i].uri, base) /\ R[i].play # NoUri
    <3>1. A[i].uri \in AnyUri
      BY <2>1, <2>5 DEF AnyLine
    <3>2. R[i].play = resolve_url(A[i].uri, base)
      BY <2>1, <2>5 DEF RewrittenLine
    <3> QED
      BY <3>1, <3>2, ResolvedIs
  <2> QED
    BY <2>4, <2>5 DEF Played
<1>5. \A i \in (N + 1)..M : X[i].kind = "sub"
  <2> SUFFICES ASSUME NEW i \in (N + 1)..M PROVE X[i].kind = "sub"
    OBVIOUS
  <2>1. i \in DOMAIN R /\ R[i].kind = "sub"
    BY <1>3
  <2>2. X[i] = R[i] \/ X[i] = [R[i] EXCEPT !.play = P[R[i].play]]
    BY <1>1, <2>1
  <2>3. [R[i] EXCEPT !.play = P[R[i].play]].kind = R[i].kind
    OBVIOUS
  <2> QED
    BY <2>1, <2>2, <2>3
<1>6. DOMAIN X = 1..M
  BY <1>1
<1> QED
  BY <1>2, <1>4, <1>5, <1>6 DEF Rewritten, A

\* Y is made of lines of X as S is of lines of A, those that G holds.
Alike(Y, S, X, A, G) ==
  /\ S \in Seq(G) /\ DOMAIN Y = 1..Len(S)
  /\ \A n \in 1..Len(S) : \E m \in 1..Len(A) : Y[n] = X[m] /\ S[n] = A[m]
BareIn(body, G) == {i \in 1..Len(Bare(body)) : Bare(body)[i] \in G}
LinesIn(body, G) == {i \in DOMAIN body : body[i] \in G}
Lasting == {l \in AnyLine : l.kind # "sub"}

\* Picking from a rewritten playlist is picking from the one it was made of.
LEMMA PickedLines ==
  ASSUME NEW body \in Seq(AnyLine), NEW G \in SUBSET Lasting, NEW X
  PROVE  /\ Alike(Picked(X, BareIn(body, G)), Picked(body, LinesIn(body, G)), X, Bare(body), G)
         /\ Picked(Bare(body), BareIn(body, G)) = Picked(body, LinesIn(body, G))
<1> DEFINE K == Shown(body)
           A == Picked(body, K)
           V == LinesIn(body, G)
           S == Picked(body, V)
           W == BareIn(body, G)
           D == Cardinality(W)
           w == Upwards(W)
           Y == Picked(X, W)
<1>1. DOMAIN body = 1..Len(body) /\ K \in SUBSET (1..Len(body))
  BY DEF Shown
<1>2. V = {i \in K : body[i] \in G}
  BY DEF Shown, LinesIn, Lasting
<1>3. W = {i \in 1..Len(A) : A[i] \in G} /\ A = Bare(body)
  BY DEF BareIn, Bare
<1> HIDE DEF K, V, W
<1>4. A \in Seq(AnyLine) /\ Len(A) = Cardinality(K)
  BY <1>1, PickedIs
<1>5. Picked(Picked(body, K), Where(Picked(body, K), 1..Cardinality(K), G)) = Picked(body, Where(body, K, G))
  <2>1. K \in SUBSET (1..Len(body))
    BY <1>1
  <2> QED
    BY <2>1, PickWhere
<1>6. S = Picked(A, W)
  BY <1>2, <1>3, <1>4, <1>5 DEF Where
<1>7. W \in SUBSET (1..Len(A))
  BY <1>3
<1> HIDE DEF A, S
<1>8. /\ Picked(A, W) \in Seq(AnyLine) /\ Len(Picked(A, W)) = D /\ w \in [1..D -> W]
      /\ \A n \in 1..D : Picked(A, W)[n] = A[w[n]]
  BY <1>4, <1>7, PickedIs
<1>9. Y = [n \in 1..D |-> X[w[n]]]
  BY DEF Picked
<1> HIDE DEF D, w, Y
<1>10. Len(S) = D /\ S \in Seq(AnyLine)
  BY <1>6, <1>8
<1>11. DOMAIN Y = 1..Len(S)
  BY <1>9, <1>10
<1>12. ASSUME NEW n \in 1..Len(S)
       PROVE  S[n] \in G /\ \E m \in 1..Len(A) : Y[n] = X[m] /\ S[n] = A[m]
  <2>1. n \in 1..D /\ w[n] \in W
    BY <1>8, <1>10
  <2>2. Y[n] = X[w[n]] /\ S[n] = A[w[n]]
    BY <1>6, <1>8, <1>9, <2>1
  <2>3. w[n] \in 1..Len(A) /\ A[w[n]] \in G
    BY <1>3, <2>1
  <2> QED
    BY <2>2, <2>3
<1>13. S \in Seq(G)
  <2>1. S \in [1..Len(S) -> AnyLine] /\ Len(S) \in Nat
    BY <1>10
  <2>2. S \in [1..Len(S) -> G]
    BY <1>12, <2>1
  <2> QED
    BY <2>1, <2>2
<1>14. Alike(Y, S, X, A, G)
  BY <1>11, <1>12, <1>13 DEF Alike
<1> QED
  BY <1>3, <1>6, <1>14 DEF S, V, Y, W

\* The lines that make an entry, and those that name a media file or an image.
EntryLines == {l \in AnyLine : l.kind \in EntryKinds}
MediaLines == {l \in AnyLine : l.kind = "uri" /\ l.uri.name # "variant"}

\* Entries and media are no renditions.
LEMMA NoSubs == EntryLines \in SUBSET Lasting /\ MediaLines \in SUBSET Lasting
BY DEF EntryLines, MediaLines, EntryKinds, Lasting

\* The entries are the lines of three kinds.
LEMMA EntriesAre ==
  ASSUME NEW body \in Seq(AnyLine)
  PROVE  Entries(body) = Picked(body, LinesIn(body, EntryLines))
<1>1. \A i \in DOMAIN body : body[i] \in AnyLine
  OBVIOUS
<1>2. LinesIn(body, EntryLines) = {i \in DOMAIN body : body[i].kind \in {"info", "inf", "uri"}}
  BY <1>1 DEF EntryLines, EntryKinds, LinesIn
<1> QED
  BY <1>2 DEF Entries

\* Y plays the entries of S, one by one.
AllPlayed(Y, S, base, P) ==
  /\ S \in Seq(EntryLines) /\ DOMAIN Y = 1..Len(S)
  /\ \A n \in 1..Len(S) : Played(Y[n], S[n], base, P)

\* The entries of a rewritten playlist play those it was made of.
LEMMA EntriesRewritten ==
  ASSUME NEW body \in Seq(AnyLine), NEW base \in Base, NEW P, NEW X, SentBy(X, body, base, P)
  PROVE  AllPlayed(Entries(X), Entries(body), base, P)
<1> DEFINE A == Bare(body)
           W == BareIn(body, EntryLines)
<1>1. Rewritten(X, body, base, P)
  BY ProxyLines
<1>2. Alike(Picked(X, W), Picked(body, LinesIn(body, EntryLines)), X, A, EntryLines)
  BY NoSubs, PickedLines
<1>3. Entries(X) = Picked(X, W)
  <2> PICK M \in Nat : /\ DOMAIN X = 1..M /\ M >= Len(A)
                       /\ \A i \in (Len(A) + 1)..M : X[i].kind = "sub"
    BY <1>1 DEF Rewritten
  <2>1. /\ Len(A) \in Nat /\ \A i \in 1..Len(A) : A[i] \in AnyLine
        /\ \A i \in 1..Len(A) : X[i].kind = A[i].kind
    BY <1>1 DEF Rewritten, Played
  <2> HIDE DEF A
  <2>2. W = {i \in 1..Len(A) : A[i].kind \in EntryKinds}
    BY <2>1 DEF EntryLines, BareIn, A
  <2>3. {i \in 1..M : X[i].kind \in EntryKinds} = {i \in 1..Len(A) : A[i].kind \in EntryKinds}
    <3>1. "sub" \notin EntryKinds
      BY DEF EntryKinds
    <3>2. \A i \in 1..M : i \in 1..Len(A) \/ i \in (Len(A) + 1)..M
      BY <2>1
    <3>3. \A i \in 1..Len(A) : i \in 1..M
      BY <2>1
    <3> QED
      BY <2>1, <3>1, <3>2, <3>3
  <2>4. {i \in DOMAIN X : X[i].kind \in {"info", "inf", "uri"}} = W
    BY <2>2, <2>3 DEF EntryKinds
  <2> HIDE DEF W
  <2> QED
    BY <2>4 DEF Entries
<1>4. Entries(body) = Picked(body, LinesIn(body, EntryLines))
  BY EntriesAre
<1>5. Alike(Entries(X), Entries(body), X, A, EntryLines)
  BY <1>2, <1>3, <1>4
<1>6. \A n \in 1..Len(Entries(body)) : Played(Entries(X)[n], Entries(body)[n], base, P)
  BY <1>1, <1>5 DEF Alike, Rewritten
<1> QED
  BY <1>5, <1>6 DEF Alike, AllPlayed

\* Where the URI and the tags of an entry stand in its block.
LEMMA BlockIs ==
  ASSUME NEW b \in AnyBlock
  PROVE  /\ b \in Seq(AnyLine) /\ Len(b) \in Nat /\ Len(b) >= 1 /\ Last(b) = b[Len(b)]
         /\ \A c \in 1..Len(b) : b[c].kind = "uri" => c = Len(b)
         /\ \A c \in 1..Len(b) : b[c].kind \in {"info", "inf"} => c = 1 /\ Len(b) >= 2 /\ b[Len(b)].kind = "uri"
         /\ \A c \in 1..Len(b) : b[c].kind \in EntryKinds => c = 1 \/ c = Len(b)
         /\ Len(b) >= 2 => b[1].kind \in {"info", "inf"} /\ \A c \in 2..(Len(b) - 1) : b[c].kind = "blank"
<1>1. b \in Seq(AnyLine) /\ Len(b) \in Nat
  BY DEF AnyBlock
<1>2. \/ Len(b) = 1 /\ b[1].kind \notin {"info", "inf"}
      \/ /\ Len(b) >= 2 /\ b[1].kind \in {"info", "inf"} /\ b[Len(b)].kind = "uri"
         /\ \A j \in 2..(Len(b) - 1) : b[j].kind = "blank"
  BY DEF AnyBlock
<1>3. \A c \in 1..Len(b) : c = 1 \/ c = Len(b) \/ c \in 2..(Len(b) - 1)
  BY <1>1
<1>4. Last(b) = b[Len(b)]
  BY DEF Last
<1>5. CASE Len(b) = 1 /\ b[1].kind \notin {"info", "inf"}
  BY <1>1, <1>4, <1>5
<1>6. CASE /\ Len(b) >= 2 /\ b[1].kind \in {"info", "inf"} /\ b[Len(b)].kind = "uri"
           /\ \A j \in 2..(Len(b) - 1) : b[j].kind = "blank"
  BY <1>1, <1>3, <1>4, <1>6 DEF EntryKinds
<1> QED
  BY <1>2, <1>5, <1>6

\* The block that a line of a playlist belongs to, and its place there.
BlockOf(blocks, n) == CellOrder(blocks)[n][1]
PlaceIn(blocks, n) == CellOrder(blocks)[n][2]

\* Each line of a playlist stands at one place of one block, blocks in order.
LEMMA LinesOfBlocks ==
  ASSUME NEW blocks \in Seq(AnyBlock)
  PROVE  LET body == EndToEnd(blocks)
             of(n) == BlockOf(blocks, n)
             at(n) == PlaceIn(blocks, n)
         IN  /\ blocks \in Seq(Seq(AnyLine)) /\ body \in Seq(AnyLine) /\ Len(body) \in Nat
             /\ \A b \in 1..Len(blocks) : blocks[b] \in AnyBlock
             /\ Len(body) = Cardinality(Cells(blocks))
             /\ \A n \in 1..Len(body) : /\ of(n) \in 1..Len(blocks) /\ at(n) \in 1..Len(blocks[of(n)])
                                        /\ body[n] = blocks[of(n)][at(n)]
             /\ \A b \in 1..Len(blocks) : \A c \in 1..Len(blocks[b]) :
                  \E n \in 1..Len(body) : of(n) = b /\ at(n) = c
             /\ \A m, n \in 1..Len(body) : m < n <=> of(m) < of(n) \/ (of(m) = of(n) /\ at(m) < at(n))
<1> DEFINE body == EndToEnd(blocks)
           f == CellOrder(blocks)
           P == Cells(blocks)
           N == Cardinality(P)
<1>1. AnyBlock \subseteq Seq(AnyLine)
  BY DEF AnyBlock
<1>2. blocks \in Seq(Seq(AnyLine)) /\ \A b \in 1..Len(blocks) : blocks[b] \in AnyBlock
  BY <1>1
<1>3. /\ N \in Nat /\ f \in [1..N -> P]
      /\ body \in Seq(AnyLine) /\ Len(body) = N
      /\ \A n \in 1..N : body[n] = blocks[f[n][1]][f[n][2]]
      /\ \A x \in P : \E n \in 1..N : f[n] = x
      /\ \A m, n \in 1..N : m < n <=> f[m][1] < f[n][1] \/ (f[m][1] = f[n][1] /\ f[m][2] < f[n][2])
  BY <1>2, EndToEndIs
<1>4. /\ \A x \in P : x[1] \in 1..Len(blocks) /\ x[2] \in 1..Len(blocks[x[1]])
      /\ \A b \in 1..Len(blocks) : \A c \in 1..Len(blocks[b]) : <<b, c>> \in P
  BY <1>2, CellsIs
<1> HIDE DEF body, f, P, N
<1>5. \A n \in 1..N : f[n][1] \in 1..Len(blocks) /\ f[n][2] \in 1..Len(blocks[f[n][1]])
  BY <1>3, <1>4
<1>6. ASSUME NEW b \in 1..Len(blocks), NEW c \in 1..Len(blocks[b])
      PROVE  \E n \in 1..N : f[n][1] = b /\ f[n][2] = c
  <2>1. <<b, c>> \in P
    BY <1>4
  <2> PICK n \in 1..N : f[n] = <<b, c>>
    BY <1>3, <2>1
  <2>2. f[n][1] = b /\ f[n][2] = c
    OBVIOUS
  <2> QED
    BY <2>2
<1>7. Len(body) = N /\ N \in Nat /\ body \in Seq(AnyLine)
  BY <1>3
<1>8. \A n : BlockOf(blocks, n) = f[n][1] /\ PlaceIn(blocks, n) = f[n][2]
  BY DEF BlockOf, PlaceIn, f
<1>9. ASSUME NEW b \in 1..Len(blocks), NEW c \in 1..Len(blocks[b])
      PROVE  \E n \in 1..Len(body) : BlockOf(blocks, n) = b /\ PlaceIn(blocks, n) = c
  <2> PICK n \in 1..N : f[n][1] = b /\ f[n][2] = c
    BY <1>6
  <2>1. n \in 1..Len(body) /\ BlockOf(blocks, n) = b /\ PlaceIn(blocks, n) = c
    BY <1>7, <1>8
  <2> QED
    BY <2>1
<1>10. \A n \in 1..Len(body) : /\ BlockOf(blocks, n) \in 1..Len(blocks)
                               /\ PlaceIn(blocks, n) \in 1..Len(blocks[BlockOf(blocks, n)])
                               /\ body[n] = blocks[BlockOf(blocks, n)][PlaceIn(blocks, n)]
  <2> SUFFICES ASSUME NEW n \in 1..Len(body)
               PROVE  /\ BlockOf(blocks, n) \in 1..Len(blocks)
                      /\ PlaceIn(blocks, n) \in 1..Len(blocks[BlockOf(blocks, n)])
                      /\ body[n] = blocks[BlockOf(blocks, n)][PlaceIn(blocks, n)]
    OBVIOUS
  <2>1. n \in 1..N /\ BlockOf(blocks, n) = f[n][1] /\ PlaceIn(blocks, n) = f[n][2]
    BY <1>7, <1>8
  <2>2. body[n] = blocks[f[n][1]][f[n][2]]
    BY <1>3, <2>1
  <2>3. f[n][1] \in 1..Len(blocks) /\ f[n][2] \in 1..Len(blocks[f[n][1]])
    BY <1>5, <2>1
  <2> QED
    BY <2>1, <2>2, <2>3
<1>11. \A m, n \in 1..Len(body) :
         m < n <=> \/ BlockOf(blocks, m) < BlockOf(blocks, n)
                   \/ BlockOf(blocks, m) = BlockOf(blocks, n) /\ PlaceIn(blocks, m) < PlaceIn(blocks, n)
  BY <1>3, <1>7, <1>8
<1> QED
  BY <1>2, <1>7, <1>9, <1>10, <1>11 DEF body, N, P

\* The lines that leave a playlist that has decoys among real entries.
Decoys(body) == {i \in DOMAIN body : IsMedia(body[i]) /\ is_plain_image_uri(body[i].uri)}
Dropped(body) == UNION {DecoyLines(body, i) : i \in Decoys(body)}

\* The lines of body are those of the blocks, one block after the other.
Laid(body, blocks) ==
  /\ body \in Seq(AnyLine) /\ Len(body) \in Nat /\ DOMAIN body = 1..Len(body)
  /\ \A b \in 1..Len(blocks) : blocks[b] \in AnyBlock
  /\ \A n \in 1..Len(body) : /\ BlockOf(blocks, n) \in 1..Len(blocks)
                             /\ PlaceIn(blocks, n) \in 1..Len(blocks[BlockOf(blocks, n)])
                             /\ body[n] = blocks[BlockOf(blocks, n)][PlaceIn(blocks, n)]
  /\ \A b \in 1..Len(blocks) : \A c \in 1..Len(blocks[b]) :
       \E n \in 1..Len(body) : BlockOf(blocks, n) = b /\ PlaceIn(blocks, n) = c
  /\ \A m, n \in 1..Len(body) :
       m < n <=> \/ BlockOf(blocks, m) < BlockOf(blocks, n)
                 \/ BlockOf(blocks, m) = BlockOf(blocks, n) /\ PlaceIn(blocks, m) < PlaceIn(blocks, n)

\* Blocks end to end are laid so.
LEMMA BodyLaid ==
  ASSUME NEW blocks \in Seq(AnyBlock)
  PROVE  Laid(EndToEnd(blocks), blocks)
<1> DEFINE body == EndToEnd(blocks)
<1>1. body \in Seq(AnyLine)
  BY LinesOfBlocks
<1> HIDE DEF body
<1>2. Len(body) \in Nat /\ DOMAIN body = 1..Len(body)
  BY <1>1
<1>3. /\ \A b \in 1..Len(blocks) : blocks[b] \in AnyBlock
      /\ \A n \in 1..Len(body) : /\ BlockOf(blocks, n) \in 1..Len(blocks)
                                 /\ PlaceIn(blocks, n) \in 1..Len(blocks[BlockOf(blocks, n)])
                                 /\ body[n] = blocks[BlockOf(blocks, n)][PlaceIn(blocks, n)]
      /\ \A b \in 1..Len(blocks) : \A c \in 1..Len(blocks[b]) :
           \E n \in 1..Len(body) : BlockOf(blocks, n) = b /\ PlaceIn(blocks, n) = c
      /\ \A m, n \in 1..Len(body) :
           m < n <=> \/ BlockOf(blocks, m) < BlockOf(blocks, n)
                     \/ BlockOf(blocks, m) = BlockOf(blocks, n) /\ PlaceIn(blocks, m) < PlaceIn(blocks, n)
  BY LinesOfBlocks DEF body
<1>4. Laid(body, blocks)
  BY <1>1, <1>2, <1>3 DEF Laid
<1> QED
  BY <1>4 DEF body

\* The place of a line.
LEMMA LaidLine ==
  ASSUME NEW body, NEW blocks, Laid(body, blocks), NEW n \in 1..Len(body)
  PROVE  /\ BlockOf(blocks, n) \in 1..Len(blocks) /\ blocks[BlockOf(blocks, n)] \in AnyBlock
         /\ PlaceIn(blocks, n) \in 1..Len(blocks[BlockOf(blocks, n)])
         /\ body[n] = blocks[BlockOf(blocks, n)][PlaceIn(blocks, n)]
BY DEF Laid

\* The line of a place.
LEMMA LaidPlace ==
  ASSUME NEW body, NEW blocks, Laid(body, blocks), NEW b \in 1..Len(blocks), NEW c \in 1..Len(blocks[b])
  PROVE  \E n \in 1..Len(body) : /\ BlockOf(blocks, n) = b /\ PlaceIn(blocks, n) = c
                                 /\ body[n] = blocks[b][c]
<1> PICK n \in 1..Len(body) : BlockOf(blocks, n) = b /\ PlaceIn(blocks, n) = c
  BY DEF Laid
<1>1. body[n] = blocks[b][c]
  BY LaidLine
<1> QED
  BY <1>1

\* A URI is the last line of its block.
LEMMA UriLast ==
  ASSUME NEW body, NEW blocks, Laid(body, blocks), NEW n \in 1..Len(body), body[n].kind = "uri"
  PROVE  /\ PlaceIn(blocks, n) = Len(blocks[BlockOf(blocks, n)])
         /\ body[n] = Last(blocks[BlockOf(blocks, n)])
<1> DEFINE b == blocks[BlockOf(blocks, n)]
           c == PlaceIn(blocks, n)
<1>1. b \in AnyBlock /\ c \in 1..Len(b) /\ body[n] = b[c]
  BY DEF Laid
<1> HIDE DEF b, c
<1>2. Last(b) = b[Len(b)] /\ (b[c].kind = "uri" => c = Len(b))
  BY <1>1, BlockIs
<1>3. c = Len(b) /\ body[n] = Last(b)
  BY <1>1, <1>2
<1> QED
  BY <1>3 DEF b, c

\* Two lines of one block are as far apart as there.
LEMMA LaidOrder ==
  ASSUME NEW body, NEW blocks, Laid(body, blocks), NEW m \in 1..Len(body), NEW n \in 1..Len(body)
  PROVE  /\ m < n <=> \/ BlockOf(blocks, m) < BlockOf(blocks, n)
                      \/ BlockOf(blocks, m) = BlockOf(blocks, n) /\ PlaceIn(blocks, m) < PlaceIn(blocks, n)
         /\ BlockOf(blocks, m) = BlockOf(blocks, n) /\ PlaceIn(blocks, m) = PlaceIn(blocks, n) => m = n
         /\ m \in Int /\ n \in Int /\ BlockOf(blocks, m) \in Int /\ BlockOf(blocks, n) \in Int
         /\ PlaceIn(blocks, m) \in Int /\ PlaceIn(blocks, n) \in Int
<1>1. /\ BlockOf(blocks, m) \in Int /\ BlockOf(blocks, n) \in Int
      /\ PlaceIn(blocks, m) \in Int /\ PlaceIn(blocks, n) \in Int
  BY DEF Laid
<1>2. m \in Int /\ n \in Int
  OBVIOUS
<1>3. /\ m < n <=> \/ BlockOf(blocks, m) < BlockOf(blocks, n)
                   \/ BlockOf(blocks, m) = BlockOf(blocks, n) /\ PlaceIn(blocks, m) < PlaceIn(blocks, n)
      /\ n < m <=> \/ BlockOf(blocks, n) < BlockOf(blocks, m)
                   \/ BlockOf(blocks, n) = BlockOf(blocks, m) /\ PlaceIn(blocks, n) < PlaceIn(blocks, m)
  BY DEF Laid
<1> QED
  BY <1>1, <1>2, <1>3

\* What leaves with a decoy: the lines of its entry, and no line of another.
LEMMA DecoyEntry ==
  ASSUME NEW body, NEW blocks, Laid(body, blocks), NEW i \in 1..Len(body), body[i].kind = "uri",
         NEW n \in 1..Len(body), body[n].kind \in EntryKinds
  PROVE  n \in DecoyLines(body, i) <=> BlockOf(blocks, n) = BlockOf(blocks, i)
<1> DEFINE of(k) == BlockOf(blocks, k)
           at(k) == PlaceIn(blocks, k)
           above == {j \in 1..(i - 1) : body[j].kind # "blank"}
           b == blocks[of(n)]
<1>1. /\ b \in AnyBlock /\ at(n) \in 1..Len(b) /\ body[n] = b[at(n)] /\ of(n) \in 1..Len(blocks)
      /\ Len(body) \in Nat
  BY DEF Laid
<1>2. n \in DecoyLines(body, i) <=> n = i \/ (n \in above /\ n = Max(above) /\ body[n].kind \in {"info", "inf"})
  BY DEF DecoyLines
<1>3. /\ Len(b) \in Nat /\ Len(b) >= 1
      /\ b[at(n)].kind \in {"info", "inf"} => at(n) = 1 /\ Len(b) >= 2 /\ b[Len(b)].kind = "uri"
      /\ b[at(n)].kind \in EntryKinds => at(n) = 1 \/ at(n) = Len(b)
      /\ Len(b) >= 2 => b[1].kind \in {"info", "inf"} /\ \A c \in 2..(Len(b) - 1) : b[c].kind = "blank"
  <2> HIDE DEF b
  <2> QED
    BY <1>1, BlockIs
<1>4. above \in SUBSET (0..(i - 1)) /\ i - 1 \in Nat /\ above \in SUBSET Int
  OBVIOUS
<1>5. ASSUME n \in above, n = Max(above), body[n].kind \in {"info", "inf"}, of(n) # of(i)
      PROVE  FALSE
  <2>1. at(n) = 1 /\ Len(b) >= 2 /\ b[Len(b)].kind = "uri"
    BY <1>1, <1>3, <1>5
  <2>2. Len(b) \in 1..Len(b)
    BY <1>3
  <2> PICK k \in 1..Len(body) : of(k) = of(n) /\ at(k) = Len(b) /\ body[k] = b[Len(b)]
    BY <1>1, <2>2, LaidPlace
  <2>4. body[k].kind = "uri"
    BY <2>1
  <2>5. n < k
    BY <1>3, <2>1, LaidOrder
  <2>6. n < i
    BY <1>5
  <2>7. k < i
    <3>1. of(n) < of(i)
      BY <1>5, <2>6, LaidOrder
    <3> QED
      BY <3>1, LaidOrder
  <2>8. k \in above
    BY <2>4, <2>7
  <2> HIDE DEF above
  <2>9. \A y \in above : Max(above) >= y
    BY <1>4, <2>8, BoundedMax
  <2>10. n >= k
    BY <1>5, <2>8, <2>9
  <2> QED
    BY <2>5, <2>10
<1>6. ASSUME of(n) = of(i), n # i
      PROVE  n \in above /\ n = Max(above) /\ body[n].kind \in {"info", "inf"}
  <2>1. at(i) = Len(b) /\ b[Len(b)].kind = "uri"
    <3>1. at(i) = Len(blocks[of(i)]) /\ body[i] = blocks[of(i)][at(i)]
      BY UriLast, LaidLine
    <3> QED
      BY <1>6, <3>1
  <2>2. at(n) = 1 /\ Len(b) >= 2
    <3>1. at(n) # Len(b)
      BY <1>6, <2>1, LaidOrder
    <3>2. at(n) = 1
      BY <1>1, <1>3, <3>1
    <3>3. Len(b) # 1
      BY <3>1, <3>2
    <3> DEFINE len == Len(b)
    <3>4. len \in Nat /\ len >= 1 /\ len # 1
      BY <1>3, <3>3
    <3> HIDE DEF len
    <3>5. len >= 2
      BY <3>4
    <3> QED
      BY <3>2, <3>5 DEF len
  <2>3. body[n].kind \in {"info", "inf"}
    BY <1>1, <1>3, <2>2
  <2>4. n < i
    BY <1>6, <2>1, <2>2, LaidOrder
  <2>5. n \in above
    BY <2>3, <2>4
  <2>6. ASSUME NEW y \in above PROVE n >= y
    <3> SUFFICES ASSUME n < y PROVE FALSE
      BY <1>4
    <3>1. y \in 1..Len(body) /\ y < i /\ body[y].kind # "blank"
      BY <1>1
    <3>2. of(n) <= of(y) /\ of(y) <= of(i)
      BY <3>1, LaidOrder
    <3>3. of(y) = of(n)
      <4>1. of(y) \in Int /\ of(n) \in Int
        BY <3>1, LaidOrder
      <4> QED
        BY <1>6, <3>2, <4>1
    <3>4. at(n) < at(y) /\ at(y) < at(i) /\ at(y) \in Int
      BY <1>6, <3>1, <3>3, LaidOrder
    <3>5. at(y) \in 2..(Len(b) - 1)
      BY <1>3, <2>1, <2>2, <3>4
    <3>6. body[y] = b[at(y)]
      BY <3>1, <3>3, LaidLine
    <3> QED
      BY <1>3, <2>2, <3>1, <3>5, <3>6
  <2> HIDE DEF above
  <2>7. Max(above) = n
    BY <1>4, <2>5, <2>6, MaxOf
  <2> QED
    BY <2>3, <2>5, <2>7
<1> HIDE DEF above
<1> QED
  BY <1>2, <1>5, <1>6

\* Of the entries, those of a block that ends in a decoy leave.
LEMMA DroppedEntries ==
  ASSUME NEW body, NEW blocks, Laid(body, blocks), NEW n \in 1..Len(body), body[n].kind \in EntryKinds
  PROVE  n \in Dropped(body) <=> IsImage(blocks[BlockOf(blocks, n)])
<1>1. ASSUME n \in Dropped(body) PROVE IsImage(blocks[BlockOf(blocks, n)])
  <2> PICK i \in Decoys(body) : n \in DecoyLines(body, i)
    BY <1>1 DEF Dropped
  <2>1. i \in 1..Len(body) /\ body[i].kind = "uri" /\ is_plain_image_uri(body[i].uri)
    BY DEF Decoys, Laid, IsMedia
  <2>2. BlockOf(blocks, n) = BlockOf(blocks, i)
    BY <2>1, DecoyEntry
  <2>3. body[i] = Last(blocks[BlockOf(blocks, i)])
    BY <2>1, UriLast
  <2> QED
    BY <2>1, <2>2, <2>3 DEF IsImage
<1>2. ASSUME IsImage(blocks[BlockOf(blocks, n)]) PROVE n \in Dropped(body)
  <2> DEFINE b == blocks[BlockOf(blocks, n)]
  <2>1. BlockOf(blocks, n) \in 1..Len(blocks) /\ b \in AnyBlock
    BY LaidLine
  <2>2. Len(b) \in 1..Len(b) /\ Last(b) = b[Len(b)]
    <3> HIDE DEF b
    <3> QED
      BY <2>1, BlockIs
  <2> PICK i \in 1..Len(body) : /\ BlockOf(blocks, i) = BlockOf(blocks, n) /\ PlaceIn(blocks, i) = Len(b)
                               /\ body[i] = b[Len(b)]
    BY <2>1, <2>2, LaidPlace
  <2>3. body[i].kind = "uri" /\ is_plain_image_uri(body[i].uri)
    BY <1>2, <2>2 DEF IsImage
  <2>4. i \in Decoys(body)
    BY <2>3 DEF Decoys, Laid, IsMedia
  <2>5. n \in DecoyLines(body, i)
    BY <2>3, DecoyEntry
  <2> QED
    BY <2>4, <2>5 DEF Dropped
<1> QED
  BY <1>1, <1>2

\* The media lines that are no decoys.
Reals(body) == {i \in DOMAIN body : IsMedia(body[i])} \ Decoys(body)

\* What drop_mixed_image_decoys leaves.
LEMMA DropIs ==
  ASSUME NEW body
  PROVE  drop_mixed_image_decoys(body)
           = IF Reals(body) = {} THEN body ELSE Picked(body, DOMAIN body \ Dropped(body))
BY DEF drop_mixed_image_decoys, Reals, Dropped, Decoys

\* Decoys and real media are the ends of such blocks.
LEMMA MediaBlocks ==
  ASSUME NEW body, NEW blocks \in Seq(AnyBlock), Laid(body, blocks)
  PROVE  /\ Decoys(body) # {} <=> \E b \in DOMAIN blocks : IsImage(blocks[b])
         /\ Reals(body) # {} <=> \E b \in DOMAIN blocks : IsReal(blocks[b])
<1>1. DOMAIN blocks = 1..Len(blocks) /\ DOMAIN body = 1..Len(body)
  BY DEF Laid
<1>2. ASSUME NEW i \in 1..Len(body), body[i].kind = "uri"
      PROVE  \E b \in 1..Len(blocks) : body[i] = Last(blocks[b])
  <2>1. BlockOf(blocks, i) \in 1..Len(blocks)
    BY LaidLine
  <2>2. body[i] = Last(blocks[BlockOf(blocks, i)])
    BY <1>2, UriLast
  <2> QED
    BY <2>1, <2>2
<1>3. ASSUME NEW b \in 1..Len(blocks)
      PROVE  \E i \in 1..Len(body) : body[i] = Last(blocks[b])
  <2>1. blocks[b] \in AnyBlock
    OBVIOUS
  <2>2. Len(blocks[b]) \in 1..Len(blocks[b]) /\ Last(blocks[b]) = blocks[b][Len(blocks[b])]
    BY <2>1, BlockIs
  <2> QED
    BY <2>2, LaidPlace
<1>4. Decoys(body) = {i \in 1..Len(body) : body[i].kind = "uri" /\ is_plain_image_uri(body[i].uri)}
  BY <1>1 DEF Decoys, IsMedia
<1>5. Reals(body) = {i \in 1..Len(body) : body[i].kind = "uri" /\ ~is_plain_image_uri(body[i].uri)}
  BY <1>1 DEF Reals, Decoys, IsMedia
<1>6. Decoys(body) # {} => \E b \in DOMAIN blocks : IsImage(blocks[b])
  <2> SUFFICES ASSUME NEW i \in Decoys(body) PROVE \E b \in DOMAIN blocks : IsImage(blocks[b])
    OBVIOUS
  <2>1. i \in 1..Len(body) /\ body[i].kind = "uri" /\ is_plain_image_uri(body[i].uri)
    BY <1>4
  <2> PICK b \in 1..Len(blocks) : body[i] = Last(blocks[b])
    BY <1>2, <2>1
  <2>2. b \in DOMAIN blocks /\ IsImage(blocks[b])
    BY <1>1, <2>1 DEF IsImage
  <2> QED
    BY <2>2
<1>7. Reals(body) # {} => \E b \in DOMAIN blocks : IsReal(blocks[b])
  <2> SUFFICES ASSUME NEW i \in Reals(body) PROVE \E b \in DOMAIN blocks : IsReal(blocks[b])
    OBVIOUS
  <2>1. i \in 1..Len(body) /\ body[i].kind = "uri" /\ ~is_plain_image_uri(body[i].uri)
    BY <1>5
  <2> PICK b \in 1..Len(blocks) : body[i] = Last(blocks[b])
    BY <1>2, <2>1
  <2>2. b \in DOMAIN blocks /\ IsReal(blocks[b])
    BY <1>1, <2>1 DEF IsReal
  <2> QED
    BY <2>2
<1>8. ASSUME NEW b \in DOMAIN blocks, IsImage(blocks[b]) PROVE Decoys(body) # {}
  <2> PICK i \in 1..Len(body) : body[i] = Last(blocks[b])
    BY <1>1, <1>3
  <2>1. i \in Decoys(body)
    BY <1>4, <1>8 DEF IsImage
  <2> QED
    BY <2>1
<1>9. ASSUME NEW b \in DOMAIN blocks, IsReal(blocks[b]) PROVE Reals(body) # {}
  <2> PICK i \in 1..Len(body) : body[i] = Last(blocks[b])
    BY <1>1, <1>3
  <2>1. i \in Reals(body)
    BY <1>5, <1>9 DEF IsReal
  <2> QED
    BY <2>1
<1> QED
  BY <1>6, <1>7, <1>8, <1>9

\* What is picked is from there.
LEMMA PickedFrom ==
  ASSUME NEW T, NEW s \in Seq(T), NEW keep \in SUBSET (1..Len(s)), NEW n \in DOMAIN Picked(s, keep)
  PROVE  \E i \in keep : Picked(s, keep)[n] = s[i]
<1> DEFINE t == Picked(s, keep)
           C == Cardinality(keep)
           u == Upwards(keep)
<1>1. t \in Seq(T) /\ Len(t) = C /\ u \in [1..C -> keep] /\ \A k \in 1..C : t[k] = s[u[k]]
  BY PickedIs
<1>2. n \in DOMAIN t
  OBVIOUS
<1> HIDE DEF t, C, u
<1>3. n \in 1..C
  BY <1>1, <1>2
<1>4. u[n] \in keep /\ t[n] = s[u[n]]
  BY <1>1, <1>3
<1> QED
  BY <1>4 DEF t

\* The blocks that stay where decoys stand among real entries.
StayingBlocks(blocks) ==
  IF Mixed(blocks) THEN Picked(blocks, {b \in DOMAIN blocks : ~IsImage(blocks[b])}) ELSE blocks

\* What is left of a playlist has the entries of the blocks that stay, all of
\* it stays if it is not mixed, and no decoy stays if it is.
LEMMA StayingLines ==
  ASSUME NEW blocks \in Seq(AnyBlock)
  PROVE  LET body == EndToEnd(blocks)
         IN  /\ body \in Seq(AnyLine) /\ drop_mixed_image_decoys(body) \in Seq(AnyLine)
             /\ Entries(drop_mixed_image_decoys(body)) = Entries(EndToEnd(StayingBlocks(blocks)))
             /\ ~Mixed(blocks) => drop_mixed_image_decoys(body) = body
             /\ Mixed(blocks) => \A n \in DOMAIN Entries(drop_mixed_image_decoys(body)) :
                                  LET l == Entries(drop_mixed_image_decoys(body))[n]
                                  IN  ~(l.kind = "uri" /\ is_plain_image_uri(l.uri))
<1> DEFINE body == EndToEnd(blocks)
           left == drop_mixed_image_decoys(body)
           keep == DOMAIN body \ Dropped(body)
<1>1. Laid(body, blocks)
  BY BodyLaid
<1> HIDE DEF body
<1>2. body \in Seq(AnyLine) /\ DOMAIN body = 1..Len(body)
  BY <1>1 DEF Laid
<1>3. left = IF Reals(body) = {} THEN body ELSE Picked(body, keep)
  BY DropIs
<1>4. keep \in SUBSET (1..Len(body))
  BY <1>2
<1>5. Mixed(blocks) <=> Decoys(body) # {} /\ Reals(body) # {}
  BY <1>1, MediaBlocks DEF Mixed
<1>6. CASE ~Mixed(blocks)
  <2>1. ASSUME Reals(body) # {} PROVE left = body
    <3>1. Dropped(body) = {}
      BY <1>5, <1>6, <2>1 DEF Dropped
    <3>2. keep = 1..Len(body)
      BY <1>2, <3>1
    <3> HIDE DEF keep
    <3> QED
      BY <1>2, <1>3, <2>1, <3>2, PickAll
  <2>2. left = body
    BY <1>3, <2>1
  <2>3. EndToEnd(StayingBlocks(blocks)) = body
    BY <1>6 DEF StayingBlocks, body
  <2> QED
    BY <1>2, <1>6, <2>2, <2>3 DEF body
<1>7. CASE Mixed(blocks)
  <2> DEFINE B == {b \in DOMAIN blocks : ~IsImage(blocks[b])}
             K == {n \in 1..Cardinality(Cells(blocks)) : CellOrder(blocks)[n][1] \in B}
  <2>1. left = Picked(body, keep)
    BY <1>3, <1>5, <1>7
  <2>2. left \in Seq(AnyLine)
    BY <1>2, <1>4, <2>1, PickedIs
  <2>3. blocks \in Seq(Seq(AnyLine)) /\ Len(body) = Cardinality(Cells(blocks))
    BY LinesOfBlocks DEF body
  <2>4. EndToEnd(StayingBlocks(blocks)) = Picked(body, K)
    <3>1. B \in SUBSET (1..Len(blocks))
      OBVIOUS
    <3>2. EndToEnd(StayingBlocks(blocks)) = EndToEnd(Picked(blocks, B))
      BY <1>7 DEF StayingBlocks
    <3> HIDE DEF B
    <3> QED
      BY <2>3, <3>1, <3>2, EndToEndPicked DEF body
  <2>5. K = {n \in 1..Len(body) : ~IsImage(blocks[BlockOf(blocks, n)])}
    <3>1. DOMAIN blocks = 1..Len(blocks)
      OBVIOUS
    <3>2. \A n \in 1..Len(body) : BlockOf(blocks, n) \in 1..Len(blocks)
      BY <1>1, LaidLine
    <3> QED
      BY <2>3, <3>1, <3>2 DEF BlockOf
  <2>6. K \in SUBSET (1..Len(body))
    BY <2>5
  <2> HIDE DEF B, K, keep, left
  <2>7. ASSUME NEW Q \in SUBSET (1..Len(body))
        PROVE  Entries(Picked(body, Q)) = Picked(body, Where(body, Q, EntryLines))
    <3>1. /\ Picked(Picked(body, Q), Where(Picked(body, Q), 1..Cardinality(Q), EntryLines)) = Picked(body, Where(body, Q, EntryLines))
          /\ DOMAIN Picked(body, Q) = 1..Cardinality(Q)
      BY <1>2, PickWhere
    <3>2. Picked(body, Q) \in Seq(AnyLine)
      BY <1>2, PickedIs
    <3>3. Entries(Picked(body, Q)) = Picked(Picked(body, Q), LinesIn(Picked(body, Q), EntryLines))
      BY <3>2, EntriesAre
    <3>4. LinesIn(Picked(body, Q), EntryLines) = Where(Picked(body, Q), 1..Cardinality(Q), EntryLines)
      BY <3>1 DEF LinesIn, Where
    <3> QED
      BY <3>1, <3>3, <3>4
  <2>8. Where(body, keep, EntryLines) = Where(body, K, EntryLines)
    <3>1. \A n \in 1..Len(body) : body[n] \in EntryLines => (n \in keep <=> n \in K)
      <4> SUFFICES ASSUME NEW n \in 1..Len(body), body[n] \in EntryLines
                   PROVE  n \in keep <=> n \in K
        OBVIOUS
      <4>1. n \in Dropped(body) <=> IsImage(blocks[BlockOf(blocks, n)])
        BY <1>1, DroppedEntries DEF EntryLines
      <4> QED
        BY <1>2, <2>5, <4>1 DEF keep
    <3> QED
      BY <1>4, <2>6, <3>1 DEF Where, keep
  <2>9. Entries(left) = Entries(EndToEnd(StayingBlocks(blocks)))
    BY <1>4, <2>1, <2>4, <2>6, <2>7, <2>8
  <2>10. ASSUME NEW n \in DOMAIN Entries(left), Entries(left)[n].kind = "uri",
                is_plain_image_uri(Entries(left)[n].uri)
         PROVE  FALSE
    <3> DEFINE W == Where(body, K, EntryLines)
    <3>1. W \in SUBSET (1..Len(body)) /\ \A i \in W : i \in K /\ body[i] \in EntryLines
      BY <2>6 DEF Where
    <3>2. Entries(left) = Picked(body, W)
      BY <1>4, <2>1, <2>7, <2>8
    <3> HIDE DEF W
    <3>3. \E i \in W : Entries(left)[n] = body[i]
      BY <1>2, <2>10, <3>1, <3>2, PickedFrom
    <3> PICK i \in W : Entries(left)[n] = body[i]
      BY <3>3
    <3>4. i \in 1..Len(body) /\ ~IsImage(blocks[BlockOf(blocks, i)])
      BY <2>5, <3>1
    <3>5. body[i] = Last(blocks[BlockOf(blocks, i)])
      BY <1>1, <2>10, <3>4, UriLast
    <3> QED
      BY <2>10, <3>4, <3>5 DEF IsImage
  <2> QED
    BY <1>2, <1>7, <2>2, <2>9, <2>10 DEF body, left
<1> QED
  BY <1>6, <1>7

\* A playlist is resolved against one of its two bases.
LEMMA BaseIs == ASSUME NEW p \in Origins PROVE hls_relative_base_url(p) \in Base
BY DEF Origins, hls_relative_base_url

\* What both rewrites make of a target.
Targets(body, base) ==
  {RewriteLines(body, base)[i].play : i \in DOMAIN RewriteLines(body, base)}
    \cup {resolve_url(u, base) : u \in AnyUri}
ByProxy(body, base, strip) == [t \in Targets(body, base) |-> build_hls_proxy_url(t, strip)]
ByPath(body, base, under) == [t \in Targets(body, base) |-> ToRel(t, under)]

\* The playlist of the proxy sends every target through the proxy.
LEMMA ProxySends ==
  ASSUME NEW body, NEW p, NEW strip
  PROVE  LET left == drop_mixed_image_decoys(body)
             base == hls_relative_base_url(p)
         IN  SentBy(rewrite_hls_playlist(body, p, strip), left, base, ByProxy(left, base, strip))
<1> DEFINE left == drop_mixed_image_decoys(body)
           base == hls_relative_base_url(p)
           R == RewriteLines(left, base)
           P == ByProxy(left, base, strip)
           X == rewrite_hls_playlist(body, p, strip)
<1>1. X = [i \in DOMAIN R |-> IF R[i].play = NoUri THEN R[i] ELSE [R[i] EXCEPT !.play = build_hls_proxy_url(R[i].play, strip)]]
  BY DEF rewrite_hls_playlist
<1>2. \A i \in DOMAIN R : P[R[i].play] = build_hls_proxy_url(R[i].play, strip)
  BY DEF ByProxy, Targets
<1> HIDE DEF left, base, R, P, X
<1>3. X = [i \in DOMAIN R |-> IF R[i].play = NoUri THEN R[i] ELSE [R[i] EXCEPT !.play = P[R[i].play]]]
  BY <1>1, <1>2
<1>4. SentBy(X, left, base, P)
  BY <1>3 DEF SentBy, R
<1> QED
  BY <1>4 DEF X, P, left, base

\* The playlist of a session sends what is under its base through the session.
LEMMA PathSends ==
  ASSUME NEW body, NEW p, NEW under
  PROVE  LET base == hls_relative_base_url(p)
         IN  SentBy(rewrite_hls_playlist_relative(body, p, under), body, base, ByPath(body, base, under))
<1> DEFINE base == hls_relative_base_url(p)
           R == RewriteLines(body, base)
           P == ByPath(body, base, under)
           X == rewrite_hls_playlist_relative(body, p, under)
<1>1. X = [i \in DOMAIN R |-> IF R[i].play = NoUri THEN R[i] ELSE [R[i] EXCEPT !.play = ToRel(R[i].play, under)]]
  BY DEF rewrite_hls_playlist_relative
<1>2. \A i \in DOMAIN R : P[R[i].play] = ToRel(R[i].play, under)
  BY DEF ByPath, Targets
<1> HIDE DEF base, R, P, X
<1>3. X = [i \in DOMAIN R |-> IF R[i].play = NoUri THEN R[i] ELSE [R[i] EXCEPT !.play = P[R[i].play]]]
  BY <1>1, <1>2
<1>4. SentBy(X, body, base, P)
  BY <1>3 DEF SentBy, R
<1> QED
  BY <1>4 DEF X, P, base

\* A playlist of nothing but decoys is a bait, and its segments are cut from
\* their shells.
LEMMA BaitStripped ==
  ASSUME NEW blocks \in Seq(AnyBlock), NEW body, body = EndToEnd(blocks), NEW n \in DOMAIN Entries(drop_mixed_image_decoys(body)),
         Entries(drop_mixed_image_decoys(body))[n].kind = "uri",
         is_plain_image_uri(Entries(drop_mixed_image_decoys(body))[n].uri)
  PROVE  finish_hls_proxy_body(PlaylistAnswer(body)).strip = "png"
<1>1. Laid(body, blocks)
  BY BodyLaid
<1>2. body \in Seq(AnyLine) /\ DOMAIN body = 1..Len(body)
  BY <1>1 DEF Laid
<1>3. ~Mixed(blocks) /\ drop_mixed_image_decoys(body) = body
  BY StayingLines
<1>4. \E i \in LinesIn(body, EntryLines) : Entries(body)[n] = body[i]
  <2>1. Entries(body) = Picked(body, LinesIn(body, EntryLines))
    BY <1>2, EntriesAre
  <2>2. LinesIn(body, EntryLines) \in SUBSET (1..Len(body))
    BY <1>2 DEF LinesIn
  <2>3. n \in DOMAIN Picked(body, LinesIn(body, EntryLines))
    BY <1>3, <2>1
  <2> QED
    BY <1>2, <2>1, <2>2, <2>3, PickedFrom
<1> PICK i \in LinesIn(body, EntryLines) : Entries(body)[n] = body[i]
  BY <1>4
<1>5. i \in DOMAIN body /\ body[i].kind = "uri" /\ is_plain_image_uri(body[i].uri)
  BY <1>3 DEF LinesIn
<1>6. i \in Decoys(body)
  BY <1>5 DEF Decoys, IsMedia
<1>7. Reals(body) = {}
  BY <1>1, <1>3, <1>6, MediaBlocks DEF Mixed
<1>8. hls_playlist_is_image_bait(body)
  BY <1>5, <1>7 DEF hls_playlist_is_image_bait, Reals, Decoys, IsMedia
<1> QED
  BY <1>8 DEF finish_hls_proxy_body, PlaylistAnswer

\* What the proxy is sent for an entry, and asks for; a URI under its base.
Sent(play, uri, base) ==
  /\ play.via = "proxy"
  /\ is_plain_image_uri(uri) => play.strip = "png"
  /\ ~Mangled(uri) => /\ handler_target(play.target).name = uri.name
                      /\ handler_target(play.target).host = HostOf(uri, base)
Near(uri) == uri.form = "rel" /\ (uri.extra # <<>> => uri.extra[1].as = "plain")

(* Whatever entries and other lines a playlist is put together of, the player *)
(* of the one that rewrite_hls_playlist makes finds every real entry there,   *)
(* once, in its place, under its own tag and through the proxy, the decoys    *)
(* among real entries gone with their tags, and nothing else; and a relative  *)
(* one goes through the session.  The proxy asks for the file and the host    *)
(* that the URI names, but for a URI that collapse_double_authority or the    *)
(* handler's own decoding mangles.  Between a tag and its URI there are blank *)
(* lines only.                                                                *)
THEOREM EntriesServed ==
  ASSUME NEW blocks \in Seq(AnyBlock), NEW p \in Origins
  PROVE  EntriesKept(blocks, p)
<1> DEFINE body == EndToEnd(blocks)
           left == drop_mixed_image_decoys(body)
           base == hls_relative_base_url(p)
           strip == finish_hls_proxy_body(PlaylistAnswer(body)).strip
           out == Entries(rewrite_hls_playlist(body, p, strip))
           want == Entries(EndToEnd(StayingBlocks(blocks)))
           path == Entries(rewrite_hls_playlist_relative(body, p, base))
           P1 == ByProxy(left, base, strip)
           P2 == ByPath(body, base, base)
<1>1. body \in Seq(AnyLine) /\ left \in Seq(AnyLine) /\ Entries(left) = want
  BY StayingLines
<1>2. base \in Base
  BY BaseIs
<1>3. AllPlayed(out, want, base, P1)
  <2>1. SentBy(rewrite_hls_playlist(body, p, strip), left, base, P1)
    BY ProxySends
  <2> HIDE DEF body, left, base, strip, P1, want
  <2> QED
    BY <1>1, <1>2, <2>1, EntriesRewritten
<1>4. AllPlayed(path, Entries(body), base, P2)
  <2>1. SentBy(rewrite_hls_playlist_relative(body, p, base), body, base, P2)
    BY PathSends
  <2> HIDE DEF body, base, P2
  <2> QED
    BY <1>1, <1>2, <2>1, EntriesRewritten
<1>5. \A n \in DOMAIN want : want[n].kind = "uri" /\ is_plain_image_uri(want[n].uri) => strip = "png"
  <2> SUFFICES ASSUME NEW n \in DOMAIN want, want[n].kind = "uri", is_plain_image_uri(want[n].uri)
               PROVE  strip = "png"
    OBVIOUS
  <2>1. n \in DOMAIN Entries(left) /\ Entries(left)[n] = want[n]
    BY <1>1
  <2> HIDE DEF want
  <2> QED
    BY <2>1, BaitStripped
<1>6. \A u \in AnyUri : /\ P1[resolve_url(u, base)] = build_hls_proxy_url(resolve_url(u, base), strip)
                        /\ P2[resolve_url(u, base)] = ToRel(resolve_url(u, base), base)
  BY DEF ByProxy, ByPath, Targets
<1>7. EntriesKept(blocks, p) <=>
        /\ Len(out) = Len(want) /\ Len(path) = Len(Entries(body))
        /\ \A i \in DOMAIN out : /\ out[i].kind = want[i].kind /\ ~out[i].subs
                                /\ out[i].kind = "uri" => Sent(out[i].play, want[i].uri, base)
        /\ \A i \in DOMAIN path : path[i].kind = "uri" /\ Near(Entries(body)[i].uri) =>
                                   path[i].play.via = "session"
  BY DEF EntriesKept, StayingBlocks, Sent, Near
<1> DEFINE all == Entries(body)
<1>8. AllPlayed(path, all, base, P2)
  BY <1>4
<1> HIDE DEF body, left, base, strip, out, want, path, P1, P2, all
<1>9. ASSUME NEW i \in DOMAIN out
      PROVE  /\ out[i].kind = want[i].kind /\ ~out[i].subs
             /\ out[i].kind = "uri" => Sent(out[i].play, want[i].uri, base)
  <2>1. Played(out[i], want[i], base, P1) /\ i \in DOMAIN want /\ want[i] \in EntryLines
    BY <1>3 DEF AllPlayed
  <2>2. ASSUME want[i].kind = "uri"
        PROVE  Sent(out[i].play, want[i].uri, base)
    <3> DEFINE r == resolve_url(want[i].uri, base)
    <3>1. want[i].uri # NoUri /\ want[i].uri \in AnyUri
      BY <2>1, <2>2 DEF EntryLines, AnyLine
    <3>2. out[i].play = build_hls_proxy_url(r, strip)
      BY <1>6, <2>1, <3>1 DEF Played
    <3>3. ~Mangled(want[i].uri) =>
            handler_target(r) = r /\ r.name = want[i].uri.name /\ r.host = HostOf(want[i].uri, base)
      BY <1>2, <3>1, ResolvedIs
    <3>4. out[i].play.via = "proxy" /\ out[i].play.target = r /\ out[i].play.strip = strip
      BY <3>2 DEF build_hls_proxy_url
    <3> HIDE DEF r
    <3> QED
      BY <1>5, <2>1, <2>2, <3>3, <3>4 DEF Sent
  <2> QED
    BY <2>1, <2>2 DEF Played
<1>10. ASSUME NEW i \in DOMAIN path, path[i].kind = "uri", Near(all[i].uri)
       PROVE  path[i].play.via = "session"
  <2>1. Played(path[i], all[i], base, P2) /\ all[i] \in EntryLines
    BY <1>8 DEF AllPlayed
  <2>2. all[i].uri # NoUri /\ all[i].uri \in AnyUri
    BY <1>10, <2>1 DEF Played, EntryLines, AnyLine
  <2>3. path[i].play = ToRel(resolve_url(all[i].uri, base), base)
    BY <1>6, <2>1, <2>2 DEF Played
  <2>4. resolve_url(all[i].uri, base).host = base.host /\ resolve_url(all[i].uri, base).dir = base.dir
    BY <1>2, <1>10, <2>2, ResolvedIs DEF Near
  <2> DEFINE r == resolve_url(all[i].uri, base)
  <2>5. ToRel(r, base).via = "session"
    BY <2>4 DEF ToRel
  <2> QED
    BY <2>3, <2>5
<1>11. Len(out) = Len(want) /\ Len(path) = Len(all)
  BY <1>3, <1>8 DEF AllPlayed
<1> QED
  BY <1>7, <1>9, <1>10, <1>11 DEF all

\* The first k of a sequence are a prefix.
LEMMA FirstOf ==
  ASSUME NEW T, NEW s \in Seq(T), NEW k \in 0..Len(s)
  PROVE  Len(SubSeq(s, 1, k)) = k /\ IsPrefix(SubSeq(s, 1, k), s)
<1> DEFINE t == SubSeq(s, 1, k)
<1>1. t \in Seq(T) /\ Len(t) = k /\ k \in Nat /\ k <= Len(s) /\ \A i \in 1..k : t[i] = s[i]
  OBVIOUS
<1> HIDE DEF t
<1>2. SubSeq(t, 1, k) = SubSeq(s, 1, k)
  <2>1. SubSeq(t, 1, k) = [i \in 1..k |-> t[i]] /\ SubSeq(s, 1, k) = [i \in 1..k |-> s[i]]
    BY <1>1
  <2> QED
    BY <1>1, <2>1
<1>3. Len(t) = k /\ IsPrefix(t, s)
  BY <1>1, <1>2 DEF IsPrefix
<1> QED
  BY <1>3 DEF t

\* The last k of a sequence are a suffix.
LEMMA LastOf ==
  ASSUME NEW T, NEW s \in Seq(T), NEW k \in 0..Len(s)
  PROVE  LET t == SubSeq(s, Len(s) - k + 1, Len(s))
         IN  Len(t) = k /\ IsSuffix(t, s)
<1> DEFINE N == Len(s)
           t == SubSeq(s, N - k + 1, N)
           u == Reverse(t)
           v == Reverse(s)
<1>1. N \in Nat /\ k \in Nat /\ k <= N
  OBVIOUS
<1>2. t \in Seq(T) /\ Len(t) = k /\ \A i \in 1..k : t[i] = s[N - k + i]
  <2>1. t \in Seq(T)
    BY <1>1
  <2>2. Len(t) = k
    BY <1>1
  <2>3. \A i \in 1..k : t[i] = s[N - k + i]
    BY <1>1
  <2> QED
    BY <2>1, <2>2, <2>3
<1> HIDE DEF t
<1>3. u = [i \in 1..k |-> t[k - i + 1]]
  BY <1>2 DEF Reverse
<1>4. v = [i \in 1..N |-> s[N - i + 1]]
  BY DEF Reverse
<1>5. v \in Seq(T) /\ Len(v) = N
  BY <1>1, <1>4
<1>6. \A i \in 1..k : u[i] = v[i]
  <2> SUFFICES ASSUME NEW i \in 1..k PROVE u[i] = v[i]
    OBVIOUS
  <2>1. k - i + 1 \in 1..k /\ N - k + (k - i + 1) = N - i + 1 /\ i \in 1..N
    BY <1>1
  <2>2. u[i] = t[k - i + 1] /\ v[i] = s[N - i + 1]
    BY <1>3, <1>4, <2>1
  <2>3. t[k - i + 1] = s[N - k + (k - i + 1)]
    BY <1>2, <2>1
  <2> QED
    BY <2>1, <2>2, <2>3
<1>7. u \in Seq(T) /\ Len(u) = k
  <2>1. \A i \in 1..k : k - i + 1 \in 1..k
    BY <1>1
  <2>2. \A i \in 1..k : t[i] \in T
    BY <1>2
  <2>3. u \in [1..k -> T]
    BY <1>3, <2>1, <2>2
  <2> HIDE DEF u
  <2> QED
    BY <1>1, <2>3
<1> HIDE DEF u, v, N
<1>8. SubSeq(u, 1, k) = SubSeq(v, 1, k)
  <2>1. SubSeq(u, 1, k) = [i \in 1..k |-> u[i]] /\ SubSeq(v, 1, k) = [i \in 1..k |-> v[i]]
    BY <1>1, <1>5, <1>7
  <2> QED
    BY <1>6, <2>1
<1>9. IsPrefix(u, v)
  BY <1>1, <1>5, <1>7, <1>8 DEF IsPrefix
<1>10. Len(t) = k /\ IsSuffix(t, s)
  BY <1>2, <1>9 DEF IsSuffix, u, v
<1> QED
  BY <1>10 DEF t, N

\* What follows the first of its kind.
LEMMA NextOf ==
  ASSUME NEW T, NEW s \in Seq(T), NEW i \in DOMAIN s, \A j \in 1..(i - 1) : s[j] # s[i], NEW n \in Nat
  PROVE  hls_next_media_urls(s, s[i], n) = SubSeq(s, i + 1, Min({i + n, Len(s)}))
<1> DEFINE I == {j \in 1..Len(s) : s[j] = s[i]}
<1>1. i \in 1..Len(s) /\ Len(s) \in Nat
  OBVIOUS
<1>2. i \in I /\ I \in SUBSET Int /\ \A j \in I : i <= j
  BY <1>1
<1>3. Contains(s, s[i])
  BY <1>1 DEF Contains
<1>4. hls_next_media_urls(s, s[i], n)
        = SubSeq(s, (IF I # {} THEN Min(I) ELSE 0) + 1, Min({(IF I # {} THEN Min(I) ELSE 0) + n, Len(s)}))
  BY <1>3 DEF hls_next_media_urls, SelectInSeq
<1> HIDE DEF I
<1>5. Min(I) = i /\ I # {}
  BY <1>2, MinOf
<1> QED
  BY <1>4, <1>5

\* media plays what the lines of from name, and ordered lists it.
ListedAhead(from, media, ordered, base) ==
  /\ from \in Seq(MediaLines) /\ ordered \in Seq({resolve_url(u, base) : u \in AnyUri})
  /\ DOMAIN media = DOMAIN from /\ DOMAIN ordered = DOMAIN from /\ Len(media) = Len(from)
  /\ \A n \in DOMAIN from : /\ from[n].uri \in AnyUri
                            /\ ordered[n] = resolve_url(from[n].uri, base)
                            /\ media[n].play.target = ordered[n]

\* What a rewritten playlist plays is what hls_media_segment_urls lists.
LEMMA PlaysAre ==
  ASSUME NEW body \in Seq(AnyLine), NEW p \in Origins, NEW P, NEW X,
         SentBy(X, body, hls_relative_base_url(p), P),
         \A u \in AnyUri : P[resolve_url(u, hls_relative_base_url(p))].target = resolve_url(u, hls_relative_base_url(p))
  PROVE  ListedAhead(Picked(Bare(body), BareIn(body, MediaLines)), Picked(X, BareIn(body, MediaLines)),
                hls_media_segment_urls(body, p), hls_relative_base_url(p))
<1> DEFINE base == hls_relative_base_url(p)
           A == Bare(body)
           W == BareIn(body, MediaLines)
           S == Picked(body, LinesIn(body, MediaLines))
           from == Picked(A, W)
           media == Picked(X, W)
           ordered == hls_media_segment_urls(body, p)
           T == {resolve_url(u, base) : u \in AnyUri}
<1>1. base \in Base
  BY BaseIs
<1>2. SentBy(X, body, base, P) /\ \A u \in AnyUri : P[resolve_url(u, base)].target = resolve_url(u, base)
  OBVIOUS
<1> HIDE DEF base
<1>3. Rewritten(X, body, base, P)
  BY <1>1, <1>2, ProxyLines
<1>4. Alike(media, S, X, A, MediaLines) /\ from = S
  BY NoSubs, PickedLines
<1>5. /\ \A i \in 1..Len(A) : A[i] \in AnyLine
      /\ \A i \in 1..Len(A) : Played(X[i], A[i], base, P)
  BY <1>3 DEF Rewritten
<1>6. ASSUME NEW i \in 1..Len(A), A[i].kind = "uri"
      PROVE  X[i].play.target = resolve_url(A[i].uri, base) /\ A[i].uri \in AnyUri
  <2>1. A[i].uri \in AnyUri /\ A[i].uri # NoUri
    BY <1>5, <1>6 DEF AnyLine
  <2>2. X[i].play = P[resolve_url(A[i].uri, base)]
    BY <1>5, <2>1 DEF Played
  <2> QED
    BY <1>2, <2>1, <2>2
<1>7. ordered = [n \in DOMAIN S |-> resolve_url(S[n].uri, base)]
  <2>1. \A i \in DOMAIN body : body[i] \in AnyLine
    OBVIOUS
  <2>2. LinesIn(body, MediaLines) = {i \in DOMAIN body : IsMedia(body[i]) /\ body[i].uri.name # "variant"}
    BY <2>1 DEF LinesIn, MediaLines, IsMedia
  <2> QED
    BY <2>2 DEF hls_media_segment_urls, base
<1> HIDE DEF A, W, S, from, media, ordered
<1>8. /\ S \in Seq(MediaLines) /\ DOMAIN media = 1..Len(S)
      /\ \A n \in 1..Len(S) : \E m \in 1..Len(A) : media[n] = X[m] /\ S[n] = A[m]
  BY <1>4 DEF Alike
<1>9. DOMAIN S = 1..Len(S) /\ Len(S) \in Nat
  BY <1>8
<1>10. ASSUME NEW n \in 1..Len(S)
       PROVE  media[n].play.target = resolve_url(S[n].uri, base) /\ S[n].uri \in AnyUri
  <2> PICK m \in 1..Len(A) : media[n] = X[m] /\ S[n] = A[m]
    BY <1>8
  <2>1. A[m].kind = "uri"
    BY <1>8 DEF MediaLines
  <2> QED
    BY <1>6, <2>1
<1>11. Len(media) = Len(S)
  <2> DEFINE U == {media[i] : i \in 1..Len(S)}
  <2>1. media = [i \in DOMAIN media |-> media[i]]
    BY DEF media, Picked
  <2>2. media \in [1..Len(S) -> U]
    BY <1>8, <2>1
  <2> HIDE DEF U
  <2> QED
    BY <1>9, <2>2
<1>12. ordered \in Seq(T)
  <2>1. \A n \in 1..Len(S) : resolve_url(S[n].uri, base) \in T
    BY <1>10
  <2> HIDE DEF T
  <2>2. ordered \in [1..Len(S) -> T]
    BY <1>7, <1>9, <2>1
  <2> QED
    BY <1>9, <2>2
<1>13. \A n \in 1..Len(S) : ordered[n] = resolve_url(S[n].uri, base)
  BY <1>7, <1>9
<1>14. DOMAIN ordered = 1..Len(S)
  BY <1>7, <1>9
<1>15. ListedAhead(from, media, ordered, base)
  BY <1>4, <1>8, <1>9, <1>10, <1>11, <1>12, <1>13, <1>14 DEF ListedAhead, T
<1> QED
  BY <1>15 DEF media, from, ordered, base, A, W

(* Of a playlist without decoys among its entries, what is fetched ahead is   *)
(* what the player of the rewritten one plays next, for windows of any size:  *)
(* hls_prefetch_media_urls lists the first entries of a recording or the last *)
(* of a live list, and hls_next_media_urls those after the one that plays.    *)
(* What plays is what hls_proxy_handler makes of the URL it is sent: for a    *)
(* URI that nothing mangles, the very URL that was fetched ahead.             *)
THEOREM AheadServed ==
  ASSUME NEW blocks \in Seq(AnyBlock), NEW p \in Origins, NEW n \in Nat
  PROVE  AheadOfPlayer(blocks, p, n)
<1> DEFINE body == EndToEnd(blocks)
           base == hls_relative_base_url(p)
           left == drop_mixed_image_decoys(body)
           lines == rewrite_hls_playlist(body, p, "png")
           W == BareIn(body, MediaLines)
           from == Picked(Bare(body), W)
           media == Picked(lines, W)
           s == hls_media_segment_urls(body, p)
           ahead == hls_prefetch_media_urls(body, p, n)
           over == \E i \in DOMAIN body : body[i].kind = "end"
           P == ByProxy(body, base, "png")
           Follows(i) == (\A j \in 1..(i - 1) : s[j] # s[i]) =>
                           hls_next_media_urls(s, s[i], n) = SubSeq(s, i + 1, Min({i + n, Len(s)}))
<1>1. body \in Seq(AnyLine) /\ (~Mixed(blocks) => left = body)
  BY StayingLines
<1> SUFFICES ASSUME ~Mixed(blocks)
             PROVE  /\ Len(s) = Len(media) /\ Len(ahead) = Min({n, Len(s)})
                    /\ IF over THEN IsPrefix(ahead, s) ELSE IsSuffix(ahead, s)
                    /\ \A i \in DOMAIN s : ~Mangled(from[i].uri) =>
                         /\ handler_target(media[i].play.target) = s[i]
                         /\ Follows(i)
  <2>1. Bare(body) = Picked(body, {i \in DOMAIN body : body[i].kind # "sub"})
    BY DEF Bare, Shown
  <2>2. Bare(body) \in Seq(AnyLine)
    BY <1>1, RewriteIs DEF Bare
  <2>3. W = {i \in DOMAIN Bare(body) : IsMedia(Bare(body)[i]) /\ Bare(body)[i].uri.name # "variant"}
    <3> DEFINE A == Bare(body)
    <3>1. A \in Seq(AnyLine)
      BY <2>2
    <3> HIDE DEF A
    <3>2. DOMAIN A = 1..Len(A) /\ \A i \in DOMAIN A : A[i] \in AnyLine
      BY <3>1
    <3> QED
      BY <3>2 DEF BareIn, MediaLines, IsMedia, A
  <2> QED
    BY <2>1, <2>3 DEF AheadOfPlayer
<1>2. SentBy(lines, body, base, P)
  <2>1. SentBy(rewrite_hls_playlist(body, p, "png"), left, base, ByProxy(left, base, "png"))
    BY ProxySends
  <2> HIDE DEF left
  <2> QED
    BY <1>1, <2>1
<1>3. \A u \in AnyUri : P[resolve_url(u, base)].target = resolve_url(u, base)
  BY DEF ByProxy, Targets, build_hls_proxy_url
<1> DEFINE T == {resolve_url(u, base) : u \in AnyUri}
<1>4. /\ from \in Seq(MediaLines) /\ s \in Seq(T)
      /\ DOMAIN media = DOMAIN from /\ DOMAIN s = DOMAIN from /\ Len(media) = Len(from)
      /\ \A i \in DOMAIN from : /\ from[i].uri \in AnyUri
                                /\ s[i] = resolve_url(from[i].uri, base)
                                /\ media[i].play.target = s[i]
  <2>1. ListedAhead(from, media, s, base)
    <3> HIDE DEF body, lines, P
    <3> QED
      BY <1>1, <1>2, <1>3, PlaysAre
  <2> HIDE DEF from, media, s, base
  <2> QED
    BY <2>1 DEF ListedAhead, T
<1>5. base \in Base
  BY BaseIs
<1>6. ahead = IF over THEN SubSeq(s, 1, Min({n, Len(s)})) ELSE SubSeq(s, Max({0, Len(s) - n}) + 1, Len(s))
  BY DEF hls_prefetch_media_urls
<1> HIDE DEF media, from, T, s, ahead, over, base
<1> DEFINE k == IF n <= Len(s) THEN n ELSE Len(s)
<1>7. Len(s) \in Nat /\ k \in 0..Len(s) /\ DOMAIN s = 1..Len(s)
  BY <1>4
<1>8. Min({n, Len(s)}) = k /\ Max({0, Len(s) - n}) = Len(s) - k
  <2>1. n \in Int /\ Len(s) \in Int /\ 0 \in Int /\ Len(s) - n \in Int
    BY <1>7
  <2>2. Min({n, Len(s)}) = IF n <= Len(s) THEN n ELSE Len(s)
    BY <2>1, MinOfTwo
  <2>3. Max({0, Len(s) - n}) = IF 0 <= Len(s) - n THEN Len(s) - n ELSE 0
    BY <2>1, MinOfTwo
  <2> QED
    BY <1>7, <2>2, <2>3
<1>9. Len(s) = Len(media)
  <2>1. DOMAIN from = 1..Len(from) /\ Len(from) \in Nat
    BY <1>4
  <2> QED
    BY <1>4, <1>7, <2>1
<1>10. \A i \in DOMAIN s : Follows(i)
  BY <1>4, NextOf
<1>11. ASSUME NEW i \in DOMAIN s, ~Mangled(from[i].uri)
       PROVE  handler_target(media[i].play.target) = s[i]
  <2>1. from[i].uri \in AnyUri /\ s[i] = resolve_url(from[i].uri, base) /\ media[i].play.target = s[i]
    BY <1>4
  <2>2. handler_target(resolve_url(from[i].uri, base)) = resolve_url(from[i].uri, base)
    BY <1>5, <1>11, <2>1, ResolvedIs
  <2> QED
    BY <2>1, <2>2
<1> HIDE DEF k, Follows
<1>12. Len(ahead) = k /\ IF over THEN IsPrefix(ahead, s) ELSE IsSuffix(ahead, s)
  <2>1. CASE over
    <3>1. ahead = SubSeq(s, 1, k)
      BY <1>6, <1>8, <2>1
    <3> QED
      BY <1>4, <1>7, <2>1, <3>1, FirstOf
  <2>2. CASE ~over
    <3>1. ahead = SubSeq(s, Len(s) - k + 1, Len(s))
      BY <1>6, <1>8, <2>2
    <3> QED
      BY <1>4, <1>7, <2>2, <3>1, LastOf
  <2> QED
    BY <2>1, <2>2
<1> QED
  BY <1>8, <1>9, <1>10, <1>11, <1>12

(* What PlaylistServed asks of the playlist of the run, asked of every one    *)
(* that is put together of entries and single lines.                         *)
THEOREM PlaylistsServed ==
  ASSUME playlist \in [blocks : Seq(AnyBlock), p : Origins]
  PROVE  PlaylistServed
<1>1. playlist.blocks \in Seq(AnyBlock) /\ playlist.p \in Origins /\ 2 \in Nat
  OBVIOUS
<1>2. EntriesKept(playlist.blocks, playlist.p)
  BY <1>1, EntriesServed
<1>3. AheadOfPlayer(playlist.blocks, playlist.p, 2)
  BY <1>1, AheadServed
<1>4. ASSUME NEW a \in -1..4, NEW b \in -1..4, a # -1 \/ b # -1
      PROVE  RangeServed([given |-> TRUE, from |-> a, to |-> b], Len(playlist.blocks))
  <2>1. a \in Nat \cup {-1} /\ b \in Nat \cup {-1} /\ Len(playlist.blocks) \in Nat
    BY <1>1
  <2> QED
    BY <1>4, <2>1, RangesServed
<1> QED
  BY <1>2, <1>3, <1>4, SegmentsServed DEF PlaylistServed
===============================================================================
