---------------------------- MODULE StreamProofs ----------------------------
(***************************************************************************)
(* The torrent engine, and the orders of providers and of their sources.   *)
(*                                                                         *)
(* TorrentEngine: what downloads between calls, and what a switch spares,  *)
(* for any callers, magnets, TVs, numbers of swarms and of calls.          *)
(*  Neither property is inductive: what may download in the middle  *)
(* of a call depends on how far the call is, on the slot it came from      *)
(* (which stops, removals and the idle watch may have emptied since) and   *)
(* on whether the swarm it works on was the active one when it got it.     *)
(*                                                                         *)
(* StreamRank for requests of any length, with any ids, reliabilities and  *)
(* sources, any caps, and any device: what its sorts leave where.          *)
(***************************************************************************)
EXTENDS TorrentEngine, MCRank, SetLemmas

OpenPcs == {"idle", "add", "init", "select", "head", "ready", "restore", "restored", "record"}
OpenCalls == [pc : OpenPcs, kind : {"stream", "list"}, hash : Hashes \cup {0},
              form : Forms \cup {"hex"}, dev : TVs \cup {Host}, prev : Ids \cup {0},
              id : Ids \cup {0}, owned : BOOLEAN, src : {"magnet", "cache"}]

TorrentTypeOK ==
  /\ up \in BOOLEAN /\ odd \in BOOLEAN /\ swarm \in [Ids -> {"none", "live", "paused"}]
  /\ hashOf \in [Ids -> Hashes \cup {0}]
  /\ active \in Ids \cup {0} /\ playing \in Ids \cup {0} /\ op \in [Openers -> OpenCalls]

Known(i) == i # 0 => hashOf[i] # 0

(* Ids are given out in order, and one swarm of the session has a hash. *)
SwarmsNamed ==
  /\ \A i, j \in Ids : i < j /\ hashOf[j] # 0 => hashOf[i] # 0
  /\ \A i \in InSession : hashOf[i] # 0
  /\ \A i, j \in InSession : hashOf[i] = hashOf[j] => i = j
  /\ Known(active) /\ Known(playing)
  /\ \A o \in Openers : /\ Known(op[o].id) /\ Known(op[o].prev)
                        /\ op[o].pc # "idle" => op[o].hash # 0

Switched(c) == c.pc \in {"select", "head", "ready", "restore", "restored"}

(* What call c knows of the slot: it came from another hash, and its swarm   *)
(* was, or was not, the active one when it got it.                           *)
SlotKnown(c) ==
  /\ ~Resting(c) => c.form = "hex"
  /\ c.pc \in {"add", "init"} /\ c.kind = "stream" /\ active \notin {0, c.prev} => hashOf[active] = c.hash
  /\ c.pc \in {"add", "init"} \/ Switched(c) => (c.prev # 0 => hashOf[c.prev] # c.hash)
  /\ c.pc = "init" \/ Switched(c) => c.id # 0
  /\ c.pc = "init" => IF c.owned THEN hashOf[c.id] = c.hash ELSE active # c.id
  /\ Switched(c) => hashOf[c.id] = c.hash /\ active \in {0, c.id}
  /\ c.pc = "restored" => swarm[c.id] = "none"
  /\ c.pc \in {"head", "ready", "restore"} /\ ~up => active = 0

MayDownload(c, i) == \/ i = active
                     \/ c.pc = "init" /\ ~c.owned /\ i = c.id
                     \/ Switched(c) /\ i = c.prev

CallInv(c) ==
  /\ SlotKnown(c)
  /\ up => \A i \in Ids : swarm[i] = "live" => MayDownload(c, i)
  /\ playing # 0 /\ swarm[playing] # "none" => playing = active \/ (Switched(c) /\ playing = c.prev)
  /\ clearing => Resting(c)

OthersOf(q) == Openers \ {q}
OthersRest(q) == \A o \in OthersOf(q) : Resting(op[o])

(* One call at a time is in the engine, and CallInv holds of it; between     *)
(* calls it holds of every caller, and says the same of each.                *)
PromisesKept == ~odd => /\ \A q \in Openers : Resting(op[q]) \/ OthersRest(q)
                        /\ \A q \in Openers : OthersRest(q) => CallInv(op[q])
                        /\ ~up => playing = 0
                        /\ clearing => InSession = {}

TorrentInv == TorrentTypeOK /\ SwarmsNamed /\ PromisesKept

-----------------------------------------------------------------------------
\* The ids with a hash are the first ones, so the next id has none.
LEMMA NextIdFree ==
  ASSUME TorrentTypeOK, SwarmsNamed, NextId \in Ids
  PROVE  hashOf[NextId] = 0 /\ \A i \in Ids : i < NextId => hashOf[i] # 0
<1> DEFINE S == {i \in Ids : hashOf[i] # 0}
<1>1. IsFiniteSet(Ids) /\ MaxIds \in Nat
  BY FS_Interval, TorrentConstants DEF Ids
<1>2. IsFiniteSet(S) /\ Cardinality(S) \in Nat /\ NextId = Cardinality(S) + 1
  BY <1>1, FS_Subset, FS_CardinalityType DEF NextId
<1>3. ASSUME hashOf[NextId] # 0 PROVE FALSE
  <2>1. NextId \in 1..MaxIds /\ 1..NextId \subseteq Ids /\ 1 <= NextId /\ NextId \in Int
    BY <1>1 DEF Ids
  <2>2. \A i \in 1..NextId : hashOf[i] # 0
    BY <1>3, <2>1 DEF SwarmsNamed, Ids
  <2>3. 1..NextId \subseteq S
    BY <2>1, <2>2
  <2>4. Cardinality(1..NextId) <= Cardinality(S)
    BY <1>2, <2>3, FS_Subset
  <2>5. Cardinality(1..NextId) = NextId
    BY <2>1, FS_Interval
  <2> QED
    BY <1>2, <2>4, <2>5
<1>4. ASSUME NEW i \in Ids, i < NextId, hashOf[i] = 0 PROVE FALSE
  <2>1. S \subseteq 1..(i - 1) /\ i - 1 \in Nat /\ i \in Nat
    BY <1>1, <1>4 DEF SwarmsNamed, Ids
  <2>2. Cardinality(1..(i - 1)) = i - 1 /\ IsFiniteSet(1..(i - 1))
    BY <2>1, FS_Interval
  <2>3. Cardinality(S) <= i - 1
    BY <2>1, <2>2, FS_Subset
  <2> QED
    BY <1>2, <1>4, <2>1, <2>3
<1> QED
  BY <1>3, <1>4

\* A swarm of the hash in the session, if there is one.
LEMMA IdOfSession ==
  ASSUME TorrentTypeOK, NEW h
  PROVE  /\ IdOf(h) # 0 => IdOf(h) \in InSession /\ hashOf[IdOf(h)] = h
         /\ IdOf(h) = 0 => \A i \in InSession : hashOf[i] # h
<1>1. 0 \notin InSession
  BY TorrentConstants DEF InSession, Ids
<1> QED
  BY <1>1 DEF IdOf

(* A step beside the call only takes swarms out of the session, pauses them, *)
(* resumes the active one or empties the slot, pausing what it empties.      *)
LEMMA BesideKeeps ==
  ASSUME TorrentInv, UNCHANGED <<op, hashOf>>, up' \in BOOLEAN,
         swarm' \in [Ids -> {"none", "live", "paused"}],
         \A i \in Ids : swarm[i] = "none" => swarm'[i] = "none",
         active' \in {active, 0}, playing' \in {playing, 0},
         odd' \in BOOLEAN,
         ~odd' =>
           /\ ~odd
           /\ \A i \in Ids : swarm'[i] = "live" => i = active' \/ (swarm[i] = "live" /\ i # active)
           /\ playing' # 0 => playing # active \/ active' = active \/ swarm'[playing] = "none"
           /\ up' => up \/ InSession = {}
           /\ ~up' => playing' = 0 /\ (active' = 0 \/ ~up)
           /\ clearing' => clearing \/ (NoOpInFlight /\ InSession' = {})
  PROVE  TorrentInv'
<1>1. TorrentTypeOK'
  BY DEF TorrentInv, TorrentTypeOK
<1>2. SwarmsNamed'
  BY DEF TorrentInv, TorrentTypeOK, SwarmsNamed, InSession, Known
<1>3. ASSUME ~odd' PROVE \A o \in Openers : OthersRest(o)' => CallInv(op[o])'
  <2> SUFFICES ASSUME NEW o \in Openers, OthersRest(o) PROVE CallInv(op[o])'
    BY DEF OthersRest, OthersOf
  <2>1. CallInv(op[o]) /\ (~up => playing = 0) /\ (clearing => InSession = {})
    BY <1>3 DEF TorrentInv, PromisesKept
  <2>2. op[o] \in OpenCalls /\ op'[o] = op[o]
    BY DEF TorrentInv, TorrentTypeOK
  <2>3. SlotKnown(op[o])'
    BY <1>3, <2>1, <2>2
       DEF CallInv, SlotKnown, TorrentInv, TorrentTypeOK, OpenCalls, Switched, Resting
  <2>4. up' => \A i \in Ids : swarm'[i] = "live" => MayDownload(op[o], i)'
    BY <1>3, <2>1, <2>2 DEF CallInv, MayDownload, TorrentInv, TorrentTypeOK, InSession, Switched
  <2>5. playing' # 0 /\ swarm'[playing'] # "none"
          => playing' = active' \/ (Switched(op'[o]) /\ playing' = op'[o].prev)
    BY <1>3, <2>1, <2>2 DEF CallInv, TorrentInv, TorrentTypeOK, Switched
  <2>6. clearing' => Resting(op[o])'
    BY <1>3, <2>1, <2>2 DEF CallInv, NoOpInFlight, Resting
  <2> QED
    BY <2>2, <2>3, <2>4, <2>5, <2>6 DEF CallInv
<1>4. ASSUME ~odd' PROVE clearing' => InSession' = {}
  BY <1>4 DEF TorrentInv, TorrentTypeOK, PromisesKept, InSession
<1>5. ASSUME ~odd' PROVE \A q \in Openers : Resting(op[q])' \/ OthersRest(q)'
  BY <1>5 DEF TorrentInv, PromisesKept, OthersRest, OthersOf, Resting
<1>6. ASSUME ~odd' PROVE ~up' => playing' = 0
  BY <1>6
<1> QED
  BY <1>1, <1>2, <1>3, <1>4, <1>5, <1>6 DEF TorrentInv, PromisesKept

\* Evicting takes swarms away, and pausing makes none run.
LEMMA ReclaimOnlyTakes ==
  ASSUME NEW s \in [Ids -> {"none", "live", "paused"}], NEW act, reclaim_and_forget_evicted(s, act)
  PROVE  /\ swarm' \in [Ids -> {"none", "live", "paused"}]
         /\ \A i \in Ids : swarm'[i] \in {"none", s[i]}
  BY DEF reclaim_and_forget_evicted

\* Pausing a torrent starts none and changes no other.
LEMMA PauseOnlyPauses ==
  ASSUME TorrentTypeOK, NEW j
  PROVE  /\ pause_torrent(swarm, j) \in [Ids -> {"none", "live", "paused"}]
         /\ \A i \in Ids : pause_torrent(swarm, j)[i] \in {swarm[i], "paused"}
         /\ \A i \in Ids : pause_torrent(swarm, j)[i] = "live" => swarm[i] = "live" /\ i # j
         /\ \A i \in Ids : swarm[i] = "none" => pause_torrent(swarm, j)[i] = "none"
  BY DEF TorrentTypeOK, pause_torrent

\* Stopping the active torrent starts none.
LEMMA StopActiveStops ==
  ASSUME TorrentTypeOK, StopActive
  PROVE  /\ active' = 0 /\ swarm' \in [Ids -> {"none", "live", "paused"}]
         /\ \A i \in Ids : swarm[i] = "none" => swarm'[i] = "none"
         /\ \A i \in Ids : swarm'[i] = "live" => swarm[i] = "live" /\ i # active
<1>1. /\ active' = 0 /\ swarm' \in [Ids -> {"none", "live", "paused"}]
      /\ \A i \in Ids : swarm'[i] \in {"none", pause_torrent(swarm, active)[i]}
  BY ReclaimOnlyTakes, PauseOnlyPauses DEF StopActive
<1> QED
  BY <1>1, PauseOnlyPauses

\* The engine's start, its stops and the stop of the active swarm.
LEMMA StopKeeps ==
  ASSUME TorrentInv,
         \/ start_engine \/ stop_engine \/ stop_async \/ DropSession \/ reclaim_disk_cache
         \/ \E d \in TVs, h \in Hashes, f \in Forms : close_handler(d, h, f)
  PROVE  TorrentInv'
<1>1. TorrentTypeOK /\ active \in Ids \cup {0}
  BY DEF TorrentInv, TorrentTypeOK
<1>2. CASE start_engine
  <2>1. ~up /\ up' = TRUE /\ InSession = {} /\ UNCHANGED <<swarm, hashOf, active, op, clearing, playing, odd>>
    BY <1>2 DEF start_engine, engineVars, ghosts
  <2>2. \A i \in Ids : swarm[i] = "none"
    BY <2>1 DEF InSession
  <2>3. ~odd => playing = 0
    BY <2>1 DEF TorrentInv, PromisesKept
  <2> QED
    BY <1>1, <2>1, <2>2, <2>3, BesideKeeps DEF TorrentTypeOK
<1>3. CASE stop_engine
  BY <1>1, <1>3, BesideKeeps, StopActiveStops DEF stop_engine, lanVars, TorrentTypeOK
<1>4. CASE stop_async
  BY <1>1, <1>4, BesideKeeps, StopActiveStops DEF stop_async, lanVars, TorrentTypeOK
<1>5. CASE DropSession
  BY <1>1, <1>5, BesideKeeps
     DEF DropSession, lanVars, ghosts, TorrentInv, TorrentTypeOK, PromisesKept, InSession
<1>6. CASE reclaim_disk_cache
  <2>1. /\ swarm' \in [Ids -> {"none", "live", "paused"}]
        /\ \A i \in Ids : swarm'[i] \in {"none", swarm[i]}
    BY <1>1, <1>6, ReclaimOnlyTakes DEF reclaim_disk_cache, TorrentTypeOK
  <2> QED
    BY <1>1, <1>6, <2>1, BesideKeeps
       DEF reclaim_disk_cache, lanVars, ghosts, TorrentTypeOK, TorrentInv, PromisesKept
<1>7. ASSUME NEW d \in TVs, NEW h \in Hashes, NEW f \in Forms, close_handler(d, h, f)
      PROVE  TorrentInv'
  BY <1>1, <1>7, BesideKeeps, StopActiveStops DEF close_handler, HasStatus, TorrentTypeOK
<1> QED
  BY <1>2, <1>3, <1>4, <1>5, <1>6, <1>7

\* One swarm is stopped or removed, or all are cleared.
LEMMA RemoveKeeps ==
  ASSUME TorrentInv,
         \/ ClearSwarms \/ ClearSlot
         \/ \E i \in Ids : stop_torrent_async(i) \/ remove_torrent_async(i)
  PROVE  TorrentInv'
<1>1. TorrentTypeOK /\ active \in Ids \cup {0}
  BY DEF TorrentInv, TorrentTypeOK
<1>2. CASE ClearSwarms
  BY <1>1, <1>2, BesideKeeps DEF ClearSwarms, lanVars, InSession, TorrentTypeOK
<1>3. CASE ClearSlot
  <2>1. ~odd => InSession = {} /\ (~up => playing = 0)
    BY <1>3 DEF ClearSlot, TorrentInv, PromisesKept
  <2>2. ~odd' => ~odd /\ NoOpInFlight
    BY <1>3 DEF ClearSlot
  <2>3. InSession = {} => \A i \in Ids : swarm[i] = "none"
    BY DEF InSession
  <2> QED
    BY <1>1, <1>3, <2>1, <2>2, <2>3, BesideKeeps DEF ClearSlot, lanVars, TorrentTypeOK
<1>4. ASSUME NEW i \in Ids, stop_torrent_async(i) PROVE TorrentInv'
  <2> DEFINE act == IF i = active THEN 0 ELSE active
  <2>1. /\ swarm' \in [Ids -> {"none", "live", "paused"}]
        /\ \A j \in Ids : swarm'[j] \in {"none", pause_torrent(swarm, i)[j]}
    BY <1>1, <1>4, ReclaimOnlyTakes, PauseOnlyPauses DEF stop_torrent_async
  <2>2. /\ \A j \in Ids : swarm[j] = "none" => swarm'[j] = "none"
        /\ \A j \in Ids : swarm'[j] = "live" => swarm[j] = "live" /\ j # i
    BY <1>1, <2>1, PauseOnlyPauses
  <2> QED
    BY <1>1, <1>4, <2>1, <2>2, BesideKeeps DEF stop_torrent_async, lanVars, TorrentTypeOK
<1>5. ASSUME NEW i \in Ids, remove_torrent_async(i) PROVE TorrentInv'
  <2>1. /\ swarm' \in [Ids -> {"none", "live", "paused"}]
        /\ \A j \in Ids : swarm'[j] \in {"none", swarm[j]} /\ (j = i => swarm'[j] = "none")
    BY <1>1, <1>5 DEF remove_torrent_async, TorrentTypeOK
  <2> QED
    BY <1>1, <1>5, <2>1, BesideKeeps DEF remove_torrent_async, lanVars, TorrentTypeOK
<1> QED
  BY <1>2, <1>3, <1>4, <1>5

\* The idle watch pauses, resumes and cleans; TVs come and go.
LEMMA WatchKeeps ==
  ASSUME TorrentInv,
         \/ tick_idle_watch \/ WatchActs \/ clean_lease_torrent \/ GracePasses
         \/ \E d \in TVs : Leave(d) \/ ComeBack(d)
  PROVE  TorrentInv'
<1>1. TorrentTypeOK /\ active \in Ids \cup {0}
  BY DEF TorrentInv, TorrentTypeOK
<1>2. CASE tick_idle_watch \/ GracePasses \/ \E d \in TVs : Leave(d) \/ ComeBack(d)
  <2>1. UNCHANGED <<engineVars, op, clearing, ghosts>>
    BY <1>2 DEF tick_idle_watch, GracePasses, Leave, ComeBack
  <2> QED
    BY <2>1 DEF engineVars, ghosts, TorrentInv, TorrentTypeOK, SwarmsNamed, PromisesKept, CallInv,
                SlotKnown, MayDownload, Known, Switched, InSession, Resting, OthersRest, OthersOf
<1>3. CASE WatchActs
  <2>1. /\ UNCHANGED <<up, hashOf, active, op, clearing, playing, odd>>
        /\ swarm' \in [Ids -> {"none", "live", "paused"}]
        /\ \A i \in Ids : i # active \/ swarm[i] = "none" => swarm'[i] = swarm[i]
    BY <1>1, <1>3 DEF WatchActs, HasStatus, InSession, ghosts, TorrentTypeOK
  <2> QED
    BY <1>1, <2>1, BesideKeeps DEF TorrentInv, TorrentTypeOK, PromisesKept
<1>4. CASE clean_lease_torrent
  <2>1. /\ swarm' \in [Ids -> {"none", "live", "paused"}]
        /\ \A j \in Ids : swarm'[j] \in {"none", pause_torrent(swarm, active)[j]}
    BY <1>1, <1>4, PauseOnlyPauses DEF clean_lease_torrent
  <2> QED
    BY <1>1, <1>4, <2>1, BesideKeeps, PauseOnlyPauses DEF clean_lease_torrent, TorrentTypeOK
<1> QED
  BY <1>2, <1>3, <1>4

-----------------------------------------------------------------------------
\* A call names torrents that are known.
LEMMA CallNamed ==
  ASSUME SwarmsNamed, NEW q \in Openers
  PROVE  /\ Known(op[q].id) /\ Known(op[q].prev)
         /\ op[q].pc # "idle" => op[q].hash # 0
BY DEF SwarmsNamed

\* A call that is in the engine is the only one, and CallInv holds of it.
LEMMA AtWork ==
  ASSUME TorrentInv, NEW q \in Openers, ~Resting(op[q]), ~odd
  PROVE  OthersRest(q) /\ CallInv(op[q]) /\ (~up => playing = 0) /\ ~clearing
BY DEF TorrentInv, PromisesKept, CallInv

(* A step of the one call at work: the call invariant for its new record is  *)
(* enough, beside what the step does to the session.                         *)
LEMMA CallKeeps ==
  ASSUME TorrentInv, NEW q \in Openers, NEW c \in OpenCalls, op' = [op EXCEPT ![q] = c],
         up' = up, swarm' \in [Ids -> {"none", "live", "paused"}],
         hashOf' \in [Ids -> Hashes \cup {0}], active' \in Ids \cup {0}, playing' \in Ids \cup {0},
         SwarmsNamed', odd' \in BOOLEAN,
         ~odd' => /\ ~odd /\ OthersRest(q) /\ CallInv(c)'
                  /\ ~up => playing' = 0
                  /\ clearing' => InSession' = {}
  PROVE  TorrentInv'
<1>1. op' \in [Openers -> OpenCalls] /\ op'[q] = c /\ \A o \in OthersOf(q) : op'[o] = op[o]
  BY DEF TorrentInv, TorrentTypeOK, OthersOf
<1>2. TorrentTypeOK'
  BY <1>1 DEF TorrentInv, TorrentTypeOK
<1>3. ASSUME ~odd' PROVE OthersRest(q)'
  BY <1>1, <1>3 DEF OthersRest, Resting, OthersOf
<1>4. ASSUME ~odd', NEW o \in Openers PROVE Resting(op[o])' \/ OthersRest(o)'
  BY <1>3, <1>4 DEF OthersRest, OthersOf
<1>5. ASSUME ~odd', NEW o \in Openers, OthersRest(o)' PROVE CallInv(op[o])'
  <2>1. CASE o = q
    BY <1>1, <1>5, <2>1 DEF CallInv, SlotKnown, MayDownload, Switched, Resting
  <2>2. CASE o # q
    <3>1. Resting(c)' /\ Resting(op[o])' /\ CallInv(c)'
      BY <1>1, <1>3, <1>5, <2>2 DEF OthersRest, OthersOf, Resting
    <3> QED
      BY <3>1 DEF CallInv, SlotKnown, MayDownload, Switched, Resting
  <2> QED
    BY <2>1, <2>2
<1>6. PromisesKept'
  BY <1>4, <1>5 DEF PromisesKept
<1> QED
  BY <1>2, <1>6 DEF TorrentInv

\* An opener that does nothing is an opener.
LEMMA IdleIsCall ==
  /\ IdleOp \in OpenCalls /\ IdleOp.pc = "idle" /\ IdleOp.prev = 0 /\ IdleOp.id = 0
  BY DEF IdleOp, OpenCalls, OpenPcs

\* Known ids stay known as long as hashes are only added.
LEMMA NamedStays ==
  ASSUME TorrentInv, NEW q \in Openers, NEW c \in OpenCalls, op' = [op EXCEPT ![q] = c],
         hashOf' = hashOf, \A i \in Ids : swarm'[i] # "none" => swarm[i] # "none",
         Known(active)', Known(playing)', Known(c.id), Known(c.prev), c.pc # "idle" => c.hash # 0
  PROVE  SwarmsNamed'
<1>1. op'[q] = c /\ \A o \in Openers : o # q => op'[o] = op[o]
  BY DEF TorrentInv, TorrentTypeOK
<1>2. \A o \in Openers : /\ Known(op[o].id)' /\ Known(op[o].prev)'
                         /\ op'[o].pc # "idle" => op'[o].hash # 0
  BY <1>1 DEF TorrentInv, SwarmsNamed, Known
<1>3. /\ \A i, j \in Ids : i < j /\ hashOf'[j] # 0 => hashOf'[i] # 0
      /\ \A i \in InSession' : hashOf'[i] # 0
      /\ \A i, j \in InSession' : hashOf'[i] = hashOf'[j] => i = j
  BY DEF TorrentInv, SwarmsNamed, InSession
<1> QED
  BY <1>2, <1>3 DEF SwarmsNamed

\* A call begins: it takes down the slot it comes from.
LEMMA BeginKeeps ==
  ASSUME TorrentInv, NEW q \in Openers, NEW h \in Hashes,
         \/ list_files(q, h)
         \/ \E f \in Forms, d \in TVs \cup {Host} : stream_magnet(q, h, f, d)
  PROVE  TorrentInv'
<1>1. PICK c \in OpenCalls :
        /\ op' = [op EXCEPT ![q] = c] /\ c.pc = "add" /\ c.hash = h /\ c.prev \in {0, active} /\ c.id = 0
        /\ ~odd' => c.form = "hex"
        /\ c.kind = "stream" => c.prev = previous(h, c.form)
        /\ c.kind = "list" => c.prev = 0
  <2>1. CASE list_files(q, h)
    <3> DEFINE c == [IdleOp EXCEPT !.pc = "add", !.kind = "list", !.hash = h, !.src = "cache"]
    <3>1. /\ c \in OpenCalls /\ c.pc = "add" /\ c.hash = h /\ c.prev = 0 /\ c.id = 0
          /\ c.form = "hex" /\ c.kind = "list"
      BY DEF IdleOp, OpenCalls, OpenPcs
    <3>2. op' = [op EXCEPT ![q] = c]
      BY <2>1 DEF list_files
    <3> QED
      BY <3>1, <3>2
  <2>2. ASSUME NEW f \in Forms, NEW d \in TVs \cup {Host}, stream_magnet(q, h, f, d)
        PROVE  \E c \in OpenCalls :
                 /\ op' = [op EXCEPT ![q] = c] /\ c.pc = "add" /\ c.hash = h /\ c.prev \in {0, active}
                 /\ c.id = 0 /\ c.kind = "stream" /\ c.form = f /\ c.prev = previous(h, f)
    <3> DEFINE src == IF f = "hex" THEN "cache" ELSE "magnet"
               c == [IdleOp EXCEPT !.pc = "add", !.hash = h, !.form = f, !.dev = d,
                                   !.prev = previous(h, f), !.src = src]
    <3>1. previous(h, f) \in {0, active} /\ active \in Ids \cup {0} /\ src \in {"magnet", "cache"}
      BY DEF previous, TorrentInv, TorrentTypeOK
    <3>2. op' = [op EXCEPT ![q] = c]
      BY <2>2 DEF stream_magnet
    <3> HIDE DEF src
    <3>3. /\ c \in OpenCalls /\ c.pc = "add" /\ c.hash = h /\ c.prev = previous(h, f) /\ c.id = 0
          /\ c.form = f /\ c.kind = "stream"
      BY <3>1 DEF IdleOp, OpenCalls, OpenPcs
    <3> QED
      BY <3>1, <3>2, <3>3
  <2>3. ASSUME NEW f \in Forms, NEW d \in TVs \cup {Host}, stream_magnet(q, h, f, d)
        PROVE  ~odd' => f = "hex"
    <3>1. odd' \/ f # "base32"
      BY <2>3 DEF stream_magnet, OddCall
    <3> QED
      BY <3>1, TorrentConstants
  <2> QED
    BY <2>1, <2>2, <2>3
<1>2. /\ UNCHANGED <<up, swarm, hashOf, active, playing, clearing>> /\ up /\ op[q].pc = "idle"
      /\ odd' \in BOOLEAN /\ (~odd' => ~odd /\ ~clearing /\ ~Overlaps(q))
  BY DEF list_files, stream_magnet, engineVars, OddCall
<1>3. SwarmsNamed'
  <2>1. h # 0
    BY TorrentConstants
  <2> QED
    BY <1>1, <1>2, <2>1, NamedStays DEF TorrentInv, SwarmsNamed, Known
<1>4. ~odd' => /\ OthersRest(q) /\ CallInv(op[q]) /\ ~odd /\ (~up => playing = 0) /\ ~clearing
  BY <1>2 DEF TorrentInv, PromisesKept, OthersRest, OthersOf, Overlaps
<1>5. ~odd' => CallInv(c)'
  <2>1. ~odd' => SlotKnown(c)'
    BY <1>1, <1>2, <1>4 DEF SlotKnown, previous, TorrentInv, TorrentTypeOK, OpenCalls, Switched
  <2>2. ~odd' => \A i \in Ids : swarm'[i] = "live" => i = active'
    BY <1>2, <1>4 DEF CallInv, MayDownload, Switched
  <2>3. ~odd' => (playing' # 0 /\ swarm'[playing] # "none" => playing' = active')
    BY <1>2, <1>4 DEF CallInv, Switched
  <2> QED
    BY <1>2, <1>4, <2>1, <2>2, <2>3 DEF CallInv, MayDownload
<1> QED
  BY <1>1, <1>2, <1>3, <1>4, <1>5, CallKeeps DEF TorrentInv, TorrentTypeOK

(* The session answers with a swarm it has, or registers the next one: the   *)
(* call owns it only if it was active before.                                *)
LEMMA AddDoneKeeps ==
  ASSUME TorrentInv, NEW q \in Openers, AddDone(q)
  PROVE  TorrentInv'
<1>1. PICK g \in Hashes, i \in Ids :
        /\ g = op[q].hash \/ op[q].src = "cache"
        /\ AddTorrent(g, i)
        /\ op' = [op EXCEPT ![q].pc = "init", ![q].id = i, ![q].owned = (active = i)]
        /\ odd' = (odd \/ (g # op[q].hash /\ active = i))
  BY DEF AddDone
<1>2. /\ TorrentTypeOK /\ SwarmsNamed /\ op[q] \in OpenCalls /\ op[q].pc = "add" /\ i \in Ids \cup {0}
      /\ g # 0 /\ i # 0
  BY TorrentConstants DEF TorrentInv, TorrentTypeOK, AddDone, Ids
<1>3. UNCHANGED <<up, active, playing, clearing>>
  BY DEF AddDone
<1>4. PICK c \in OpenCalls :
        /\ op' = [op EXCEPT ![q] = c] /\ c.pc = "init" /\ c.id = i /\ c.hash = op[q].hash
        /\ c.kind = op[q].kind /\ c.form = op[q].form /\ c.prev = op[q].prev
        /\ c.owned <=> active = i
  <2> DEFINE c == [op[q] EXCEPT !.pc = "init", !.id = i, !.owned = (active = i)]
  <2>1. "init" \in OpenPcs /\ (active = i) \in BOOLEAN
    BY DEF OpenPcs
  <2>2. c \in OpenCalls
    BY <1>2, <2>1, Zenon DEF OpenCalls
  <2>3. /\ c.pc = "init" /\ c.id = i /\ c.hash = op[q].hash /\ c.kind = op[q].kind
        /\ c.form = op[q].form /\ c.prev = op[q].prev /\ (c.owned <=> active = i)
    BY <1>2 DEF OpenCalls
  <2>4. op' = [op EXCEPT ![q] = c]
    BY <1>1, <1>2, Zenon DEF TorrentTypeOK
  <2> QED
    BY <2>2, <2>3, <2>4
<1>6. /\ hashOf'[i] = g /\ swarm'[i] # "none"
      /\ swarm' \in [Ids -> {"none", "live", "paused"}] /\ hashOf' \in [Ids -> Hashes \cup {0}]
      /\ \A j \in Ids : j # i => swarm'[j] = swarm[j] /\ hashOf'[j] = hashOf[j]
      /\ \/ UNCHANGED <<swarm, hashOf>>
         \/ /\ hashOf[i] = 0 /\ \A j \in Ids : j < i => hashOf[j] # 0
            /\ \A j \in InSession : hashOf[j] # g
  <2>1. CASE IdOf(g) # 0
    BY <1>1, <1>2, <2>1, IdOfSession DEF AddTorrent, InSession, TorrentTypeOK
  <2>2. CASE IdOf(g) = 0
    <3>1. /\ i = NextId /\ NextId \in Ids /\ swarm' = [swarm EXCEPT ![i] = "live"]
          /\ hashOf' = [hashOf EXCEPT ![i] = g]
      BY <1>1, <2>2 DEF AddTorrent
    <3>2. \A j \in InSession : hashOf[j] # g
      BY <1>2, <2>2, IdOfSession
    <3> QED
      BY <1>2, <3>1, <3>2, NextIdFree DEF TorrentTypeOK
  <2> QED
    BY <2>1, <2>2
<1>7. \A j : Known(j) /\ j \in Ids \cup {0} => Known(j)'
  BY <1>2, <1>6 DEF Known
<1>8. SwarmsNamed'
  <2>1. \A j, k \in Ids : j < k /\ hashOf'[k] # 0 => hashOf'[j] # 0
    BY <1>2, <1>6 DEF SwarmsNamed, Ids
  <2>2. \A j \in InSession' : hashOf'[j] # 0
    BY <1>2, <1>6 DEF SwarmsNamed, InSession
  <2>3. \A j, k \in InSession' : hashOf'[j] = hashOf'[k] => j = k
    BY <1>2, <1>6 DEF SwarmsNamed, InSession
  <2>4. Known(active)' /\ Known(playing)' /\ Known(c.prev)' /\ Known(c.id)'
    BY <1>2, <1>3, <1>4, <1>6, <1>7, CallNamed DEF SwarmsNamed, TorrentTypeOK, OpenCalls, Known
  <2>5. \A o \in Openers : /\ Known(op[o].id)' /\ Known(op[o].prev)'
                           /\ op'[o].pc # "idle" => op'[o].hash # 0
    <3> SUFFICES ASSUME NEW o \in Openers
                 PROVE  /\ Known(op[o].id)' /\ Known(op[o].prev)'
                        /\ op'[o].pc # "idle" => op'[o].hash # 0
      OBVIOUS
    <3>1. CASE o = q
      <4>1. op'[o] = c /\ op[q].hash # 0
        BY <1>2, <1>4, <3>1, CallNamed DEF TorrentTypeOK
      <4> QED
        BY <1>4, <2>4, <4>1 DEF Known
    <3>2. CASE o # q
      <4>1. op'[o] = op[o] /\ op[o] \in OpenCalls
        BY <1>2, <1>4, <3>2 DEF TorrentTypeOK
      <4>2. /\ Known(op[o].id) /\ Known(op[o].prev) /\ (op[o].pc # "idle" => op[o].hash # 0)
            /\ op[o].id \in Ids \cup {0} /\ op[o].prev \in Ids \cup {0}
        BY <1>2, <4>1, CallNamed DEF OpenCalls
      <4> QED
        BY <1>7, <4>1, <4>2 DEF Known
    <3> QED
      BY <3>1, <3>2
  <2> QED
    BY <2>1, <2>2, <2>3, <2>4, <2>5 DEF SwarmsNamed
<1>9. ~odd' => /\ ~odd /\ OthersRest(q) /\ CallInv(op[q]) /\ (~up => playing = 0) /\ ~clearing
               /\ active = i => g = op[q].hash
  BY <1>1, <1>2, AtWork DEF Resting
<1>10. ~odd' => CallInv(c)'
  <2> SUFFICES ASSUME ~odd' PROVE CallInv(c)'
    OBVIOUS
  <2>1. Known(active) /\ Known(playing) /\ Known(op[q].prev)
    BY <1>2, CallNamed DEF SwarmsNamed
  <2>2. SlotKnown(c)'
    BY <1>2, <1>3, <1>4, <1>6, <1>9, <2>1
       DEF CallInv, SlotKnown, Resting, TorrentTypeOK, OpenCalls, Switched, Known
  <2>3. up' => \A j \in Ids : swarm'[j] = "live" => MayDownload(c, j)'
    BY <1>2, <1>3, <1>4, <1>6, <1>9 DEF CallInv, MayDownload, Switched
  <2>4. playing' # 0 /\ swarm'[playing] # "none" => playing' = active'
    BY <1>2, <1>3, <1>6, <1>9, <2>1 DEF CallInv, Switched, Known, TorrentTypeOK
  <2> QED
    BY <1>3, <1>9, <2>2, <2>3, <2>4 DEF CallInv
<1>11. odd' \in BOOLEAN
  BY <1>1, <1>2 DEF TorrentTypeOK
<1> QED
  BY <1>2, <1>3, <1>4, <1>6, <1>8, <1>9, <1>10, <1>11, CallKeeps DEF TorrentTypeOK

\* A failed attempt leaves the call where it was before it had a swarm, or ends it.
LEMMA AttemptFailsTo ==
  ASSUME TorrentInv, NEW q \in Openers, AttemptFails(q)
  PROVE  \E c \in OpenCalls :
           /\ op' = [op EXCEPT ![q] = c] /\ c.id = 0
           /\ \/ c.pc = "idle" /\ c.prev = 0
              \/ /\ c.pc = "add" /\ c.hash = op[q].hash /\ c.kind = op[q].kind
                 /\ c.form = op[q].form /\ c.prev = op[q].prev
<1>1. op \in [Openers -> OpenCalls] /\ op[q] \in OpenCalls
  BY DEF TorrentInv, TorrentTypeOK
<1>2. CASE op[q].src = "cache"
  <2> DEFINE c == [op[q] EXCEPT !.pc = "add", !.src = "magnet", !.id = 0, !.owned = FALSE]
  <2>1. "add" \in OpenPcs /\ 0 \in Ids \cup {0} /\ "magnet" \in {"magnet", "cache"} /\ FALSE \in BOOLEAN
    BY DEF OpenPcs
  <2>2. c \in OpenCalls
    BY <1>1, <2>1, Zenon DEF OpenCalls
  <2>3. /\ c.pc = "add" /\ c.id = 0 /\ c.hash = op[q].hash /\ c.kind = op[q].kind
        /\ c.form = op[q].form /\ c.prev = op[q].prev
    BY <1>1 DEF OpenCalls
  <2>4. op' = [op EXCEPT ![q].pc = "add", ![q].src = "magnet", ![q].id = 0, ![q].owned = FALSE]
    BY <1>2 DEF AttemptFails
  <2>5. op' = [op EXCEPT ![q] = c]
    BY <1>1, <2>4, Zenon
  <2> QED
    BY <2>2, <2>3, <2>5
<1>3. CASE op[q].src # "cache"
  BY <1>3, IdleIsCall DEF AttemptFails, OpenReturns
<1> QED
  BY <1>2, <1>3

(* An attempt that failed deletes at most a swarm nobody owns.               *)
LEMMA AddFailsKeeps ==
  ASSUME TorrentInv, NEW q \in Openers, AddFails(q)
  PROVE  TorrentInv'
<1>1. PICK c \in OpenCalls :
        /\ op' = [op EXCEPT ![q] = c] /\ c.id = 0
        /\ \/ c.pc = "idle" /\ c.prev = 0
           \/ /\ c.pc = "add" /\ c.hash = op[q].hash /\ c.kind = op[q].kind
              /\ c.form = op[q].form /\ c.prev = op[q].prev
  BY AttemptFailsTo DEF AddFails
<1>2. /\ TorrentTypeOK /\ SwarmsNamed /\ op[q] \in OpenCalls /\ op[q].pc = "add"
      /\ UNCHANGED <<up, hashOf, active, playing, odd, clearing>>
  BY DEF TorrentInv, TorrentTypeOK, AddFails, ghosts, EngineStays
<1>3. /\ swarm' \in [Ids -> {"none", "live", "paused"}]
      /\ \A i \in Ids : swarm'[i] \in {"none", swarm[i]}
  BY <1>2 DEF AddFails, discard_unowned_by_hash, delete_torrent_files, TorrentTypeOK
<1>4. SwarmsNamed'
  <2>1. Known(c.id) /\ Known(c.prev) /\ (c.pc # "idle" => c.hash # 0)
    BY <1>1, <1>2, CallNamed DEF Known
  <2>2. Known(active)' /\ Known(playing)'
    BY <1>2 DEF SwarmsNamed, Known
  <2> QED
    BY <1>1, <1>2, <1>3, <2>1, <2>2, NamedStays
<1>5. ~odd' => ~odd /\ OthersRest(q) /\ CallInv(op[q]) /\ (~up => playing = 0) /\ ~clearing
  BY <1>2, AtWork DEF Resting
<1>6. ~odd' => CallInv(c)'
  <2> SUFFICES ASSUME ~odd' PROVE CallInv(c)'
    OBVIOUS
  <2>1. SlotKnown(c)'
    BY <1>1, <1>2, <1>5 DEF CallInv, SlotKnown, Resting, Switched
  <2>2. up' => \A j \in Ids : swarm'[j] = "live" => MayDownload(c, j)'
    BY <1>1, <1>2, <1>3, <1>5 DEF CallInv, MayDownload, Switched
  <2>3. playing' # 0 /\ swarm'[playing] # "none" => playing' = active'
    BY <1>1, <1>2, <1>3, <1>5 DEF CallInv, Switched, TorrentTypeOK
  <2> QED
    BY <1>2, <1>5, <2>1, <2>2, <2>3 DEF CallInv
<1> QED
  BY <1>1, <1>2, <1>3, <1>4, <1>5, <1>6, CallKeeps DEF TorrentTypeOK

(* ... and a swarm the session registered after it gave up is deleted too.   *)
LEMMA AddFailsLateKeeps ==
  ASSUME TorrentInv, NEW q \in Openers, AddFailsLate(q)
  PROVE  TorrentInv'
<1>1. PICK c \in OpenCalls :
        /\ op' = [op EXCEPT ![q] = c] /\ c.id = 0
        /\ \/ c.pc = "idle" /\ c.prev = 0
           \/ /\ c.pc = "add" /\ c.hash = op[q].hash /\ c.kind = op[q].kind
              /\ c.form = op[q].form /\ c.prev = op[q].prev
  BY AttemptFailsTo DEF AddFailsLate
<1> DEFINE i == NextId
<1>2. /\ TorrentTypeOK /\ SwarmsNamed /\ op[q] \in OpenCalls /\ op[q].pc = "add"
      /\ UNCHANGED <<up, active, playing, odd, clearing>>
      /\ i \in Ids /\ hashOf[i] = 0 /\ (\A j \in Ids : j < i => hashOf[j] # 0)
      /\ \A j \in InSession : hashOf[j] # op[q].hash
  BY NextIdFree, IdOfSession DEF TorrentInv, TorrentTypeOK, AddFailsLate, ghosts
<1>3. /\ swarm' \in [Ids -> {"none", "live", "paused"}]
      /\ hashOf' = [hashOf EXCEPT ![i] = op[q].hash]
      /\ \A j \in Ids : j # i => swarm'[j] = swarm[j]
      /\ op[q].form = "hex" => swarm' = swarm
  BY <1>2 DEF AddFailsLate, TorrentTypeOK
<1> HIDE DEF i
<1>4. op[q].hash \in (Hashes \cup {0}) \ {0}
  BY <1>2, CallNamed DEF OpenCalls
<1>5. /\ hashOf' \in [Ids -> Hashes \cup {0}] /\ hashOf'[i] = op[q].hash
      /\ \A j \in Ids : j # i => hashOf'[j] = hashOf[j]
      /\ \A j : Known(j) /\ j \in Ids \cup {0} => Known(j)'
  BY <1>2, <1>3, <1>4 DEF TorrentTypeOK, Known
<1>6. SwarmsNamed'
  <2>1. \A j, k \in Ids : j < k /\ hashOf'[k] # 0 => hashOf'[j] # 0
    BY <1>2, <1>4, <1>5 DEF SwarmsNamed, Ids
  <2>2. \A j \in InSession' : hashOf'[j] # 0
    BY <1>2, <1>3, <1>4, <1>5 DEF SwarmsNamed, InSession
  <2>3. \A j, k \in InSession' : hashOf'[j] = hashOf'[k] => j = k
    BY <1>2, <1>3, <1>4, <1>5 DEF SwarmsNamed, InSession
  <2>4. Known(active)' /\ Known(playing)'
    BY <1>2, <1>5 DEF SwarmsNamed, TorrentTypeOK
  <2>5. Known(c.prev)' /\ Known(c.id)'
    BY <1>1, <1>2, <1>5, CallNamed DEF OpenCalls, Known
  <2>6. \A o \in Openers : /\ Known(op[o].id)' /\ Known(op[o].prev)'
                           /\ op'[o].pc # "idle" => op'[o].hash # 0
    <3> SUFFICES ASSUME NEW o \in Openers
                 PROVE  /\ Known(op[o].id)' /\ Known(op[o].prev)'
                        /\ op'[o].pc # "idle" => op'[o].hash # 0
      OBVIOUS
    <3>1. CASE o = q
      <4>1. op'[o] = c
        BY <1>1, <1>2, <3>1 DEF TorrentTypeOK
      <4> QED
        BY <1>1, <1>4, <2>5, <4>1 DEF Known
    <3>2. CASE o # q
      <4>1. op'[o] = op[o] /\ op[o] \in OpenCalls
        BY <1>1, <1>2, <3>2 DEF TorrentTypeOK
      <4>2. /\ Known(op[o].id) /\ Known(op[o].prev) /\ (op[o].pc # "idle" => op[o].hash # 0)
            /\ op[o].id \in Ids \cup {0} /\ op[o].prev \in Ids \cup {0}
        BY <1>2, <4>1, CallNamed DEF OpenCalls
      <4> QED
        BY <1>5, <4>1, <4>2 DEF Known
    <3> QED
      BY <3>1, <3>2
  <2> QED
    BY <2>1, <2>2, <2>3, <2>4, <2>6 DEF SwarmsNamed
<1>7. ~odd' => /\ ~odd /\ OthersRest(q) /\ CallInv(op[q]) /\ (~up => playing = 0) /\ ~clearing
               /\ swarm' = swarm
  BY <1>2, <1>3, AtWork DEF Resting, CallInv, SlotKnown
<1>8. ~odd' => CallInv(c)'
  <2> SUFFICES ASSUME ~odd' PROVE CallInv(c)'
    OBVIOUS
  <2>1. Known(active) /\ Known(op[q].prev)
    BY <1>2, CallNamed DEF SwarmsNamed
  <2>2. SlotKnown(c)'
    BY <1>1, <1>2, <1>5, <1>7, <2>1 DEF CallInv, SlotKnown, Resting, Switched, Known, TorrentTypeOK, OpenCalls
  <2>3. up' => \A j \in Ids : swarm'[j] = "live" => MayDownload(c, j)'
    BY <1>1, <1>2, <1>7 DEF CallInv, MayDownload, Switched
  <2>4. playing' # 0 /\ swarm'[playing] # "none" => playing' = active'
    BY <1>1, <1>2, <1>7 DEF CallInv, Switched, TorrentTypeOK
  <2> QED
    BY <1>2, <1>7, <2>2, <2>3, <2>4 DEF CallInv
<1> QED
  BY <1>1, <1>2, <1>3, <1>5, <1>6, <1>7, <1>8, CallKeeps DEF TorrentTypeOK

\* A call moves on: only the place it is at changes.
LEMMA OpenAtTo ==
  ASSUME TorrentInv, NEW q \in Openers, NEW pc \in OpenPcs, OpenAt(q, pc)
  PROVE  \E c \in OpenCalls :
           /\ op' = [op EXCEPT ![q] = c] /\ c.pc = pc /\ c.id = op[q].id /\ c.hash = op[q].hash
           /\ c.kind = op[q].kind /\ c.form = op[q].form /\ c.prev = op[q].prev
<1>1. op \in [Openers -> OpenCalls] /\ op[q] \in OpenCalls
  BY DEF TorrentInv, TorrentTypeOK
<1> DEFINE c == [op[q] EXCEPT !.pc = pc]
<1>2. op' = [op EXCEPT ![q] = c]
  BY <1>1, Zenon DEF OpenAt
<1>3. /\ c \in OpenCalls /\ c.pc = pc /\ c.id = op[q].id /\ c.hash = op[q].hash
      /\ c.kind = op[q].kind /\ c.form = op[q].form /\ c.prev = op[q].prev
  BY <1>1 DEF OpenCalls
<1> QED
  BY <1>2, <1>3

(* The prepared swarm becomes the active one; the one switched from is the   *)
(* previous, or has the same hash and so is the same.                        *)
LEMMA PrepareKeeps ==
  ASSUME TorrentInv, NEW q \in Openers, finish_prepare(q)
  PROVE  TorrentInv'
<1> DEFINE i == op[q].id
<1>1. /\ TorrentTypeOK /\ SwarmsNamed /\ op[q] \in OpenCalls /\ op[q].pc = "init"
      /\ op \in [Openers -> OpenCalls]
      /\ UNCHANGED <<up, hashOf, playing, clearing>> /\ i \in InSession /\ i \in Ids /\ active' = i
      /\ op[q].form = "base32" \/ hashOf[i] = op[q].hash
  BY DEF TorrentInv, TorrentTypeOK, finish_prepare, EngineStays, InSession, HashMatches
<1>2. PICK c \in OpenCalls :
        /\ op' = [op EXCEPT ![q] = c]
        /\ c.pc \in {"idle", "select"} /\ (c.pc = "idle" => odd')
        /\ c.pc = "idle" => c.prev = 0 /\ c.id = 0
        /\ c.pc = "select" => /\ c.id = i /\ c.hash = op[q].hash /\ c.form = op[q].form
                              /\ c.prev = op[q].prev /\ op[q].kind = "stream"
  <2>1. CASE op[q].kind = "list"
    BY <2>1, IdleIsCall DEF finish_prepare, OpenReturns
  <2>2. CASE op[q].kind # "list"
    <3> DEFINE c == [op[q] EXCEPT !.pc = "select", !.src = "magnet", !.owned = FALSE]
    <3>1. "select" \in OpenPcs /\ "magnet" \in {"magnet", "cache"} /\ FALSE \in BOOLEAN
      BY DEF OpenPcs
    <3>2. c \in OpenCalls
      BY <1>1, <3>1, Zenon DEF OpenCalls
    <3>3. /\ c.pc = "select" /\ c.id = i /\ c.hash = op[q].hash /\ c.form = op[q].form
          /\ c.prev = op[q].prev /\ op[q].kind = "stream"
      BY <1>1, <2>2 DEF OpenCalls
    <3>4. op' = [op EXCEPT ![q].pc = "select", ![q].src = "magnet", ![q].owned = FALSE]
      BY <2>2 DEF finish_prepare
    <3>5. op' = [op EXCEPT ![q] = c]
      BY <1>1, <3>4, Zenon
    <3> QED
      BY <3>2, <3>3, <3>5
  <2> QED
    BY <2>1, <2>2
<1>3. /\ swarm' \in [Ids -> {"none", "live", "paused"}] /\ swarm'[i] # "none"
      /\ \A j \in Ids : j # i => swarm'[j] = swarm[j]
  BY <1>1 DEF finish_prepare, Resumed, TorrentTypeOK, InSession
<1> HIDE DEF i
<1>4. SwarmsNamed'
  <2>1. Known(c.id) /\ Known(c.prev) /\ (c.pc # "idle" => c.hash # 0) /\ Known(i)
    BY <1>1, <1>2, CallNamed DEF Known, i
  <2>2. Known(active)' /\ Known(playing)'
    BY <1>1, <2>1 DEF SwarmsNamed, Known
  <2>3. \A j \in Ids : swarm'[j] # "none" => swarm[j] # "none"
    BY <1>1, <1>3 DEF InSession
  <2> QED
    BY <1>1, <1>2, <2>1, <2>2, <2>3, NamedStays
<1>5. ~odd' => /\ ~odd /\ OthersRest(q) /\ CallInv(op[q]) /\ (~up => playing = 0) /\ ~clearing
               /\ c.pc = "select" /\ hashOf[i] = op[q].hash
  <2>1. ~odd' => ~odd /\ c.pc = "select"
    BY <1>2 DEF finish_prepare
  <2>2. ~odd' => OthersRest(q) /\ CallInv(op[q]) /\ (~up => playing = 0) /\ ~clearing
    BY <1>1, <2>1, AtWork DEF Resting
  <2> QED
    BY <1>1, <2>1, <2>2 DEF CallInv, SlotKnown, Resting
<1>6. ~odd' => CallInv(c)'
  <2> SUFFICES ASSUME ~odd' PROVE CallInv(c)'
    OBVIOUS
  <2>1. SlotKnown(c)'
    BY <1>1, <1>2, <1>3, <1>5 DEF CallInv, SlotKnown, Resting, Switched, InSession, i
  <2>2. up => \A j \in Ids : swarm[j] = "live" => j = i \/ j = c.prev
    <3> SUFFICES ASSUME up, NEW j \in Ids, swarm[j] = "live", j # i PROVE j = c.prev
      OBVIOUS
    <3>1. j = active /\ j # 0
      BY <1>1, <1>5, TorrentConstants DEF CallInv, MayDownload, Switched, i, Ids
    <3>2. j = c.prev \/ hashOf[j] = op[q].hash
      BY <1>1, <1>2, <1>5, <3>1 DEF CallInv, SlotKnown
    <3>3. hashOf[j] # hashOf[i]
      BY <1>1, <3>1 DEF SwarmsNamed, InSession
    <3> QED
      BY <1>5, <3>2, <3>3
  <2>3. up' => \A j \in Ids : swarm'[j] = "live" => MayDownload(c, j)'
    BY <1>1, <1>2, <1>3, <1>5, <2>2 DEF MayDownload, Switched
  <2>4. playing' # 0 /\ swarm'[playing] # "none" => playing' = i \/ playing' = c.prev
    <3> SUFFICES ASSUME playing # 0, swarm'[playing] # "none", playing # i PROVE playing = c.prev
      BY <1>1
    <3>1. playing = active /\ playing \in Ids /\ playing \in InSession
      BY <1>1, <1>3, <1>5 DEF CallInv, Switched, TorrentTypeOK, InSession
    <3>2. playing = c.prev \/ hashOf[playing] = op[q].hash
      BY <1>1, <1>2, <1>5, <3>1 DEF CallInv, SlotKnown
    <3>3. hashOf[playing] # hashOf[i]
      BY <1>1, <3>1 DEF SwarmsNamed
    <3> QED
      BY <1>5, <3>2, <3>3
  <2> QED
    BY <1>1, <1>2, <1>5, <2>1, <2>3, <2>4 DEF CallInv, Switched
<1>7. odd' \in BOOLEAN
  BY <1>1 DEF finish_prepare, TorrentTypeOK
<1> QED
  BY <1>1, <1>2, <1>3, <1>4, <1>5, <1>6, <1>7, CallKeeps DEF TorrentTypeOK

\* A prepare that fails deletes the swarm unless the call found it active.
LEMMA FinishFailsKeeps ==
  ASSUME TorrentInv, NEW q \in Openers, FinishFails(q)
  PROVE  TorrentInv'
<1> DEFINE i == op[q].id
<1>1. PICK c \in OpenCalls :
        /\ op' = [op EXCEPT ![q] = c] /\ c.id = 0
        /\ \/ c.pc = "idle" /\ c.prev = 0
           \/ /\ c.pc = "add" /\ c.hash = op[q].hash /\ c.kind = op[q].kind
              /\ c.form = op[q].form /\ c.prev = op[q].prev
  BY AttemptFailsTo DEF FinishFails
<1>2. /\ TorrentTypeOK /\ SwarmsNamed /\ op[q] \in OpenCalls /\ op[q].pc = "init"
      /\ UNCHANGED <<up, hashOf, active, playing, odd, clearing>>
  BY DEF TorrentInv, TorrentTypeOK, FinishFails, ghosts, EngineStays
<1>3. ~odd' => ~odd /\ OthersRest(q) /\ CallInv(op[q]) /\ (~up => playing = 0) /\ ~clearing
  BY <1>2, AtWork DEF Resting
<1>4. /\ swarm' \in [Ids -> {"none", "live", "paused"}]
      /\ \A j \in Ids : j # i => swarm'[j] = swarm[j]
      /\ \A j \in Ids : swarm'[j] # "none" => swarm[j] # "none"
  BY <1>2 DEF FinishFails, delete_torrent_files, TorrentTypeOK, Resumed, InSession
<1>5. ~odd' => IF op[q].owned THEN swarm' = swarm ELSE i # active /\ (i \in Ids => swarm'[i] = "none")
  <2>1. CASE op[q].owned
    <3>1. ~odd' => hashOf[i] = op[q].hash
      BY <1>2, <1>3, <2>1 DEF CallInv, SlotKnown
    <3> QED
      BY <2>1, <3>1 DEF FinishFails, HashMatches
  <2>2. CASE ~op[q].owned
    BY <1>2, <1>3, <2>2 DEF FinishFails, delete_torrent_files, CallInv, SlotKnown
  <2> QED
    BY <2>1, <2>2
<1> HIDE DEF i
<1>6. SwarmsNamed'
  <2>1. Known(c.id) /\ Known(c.prev) /\ (c.pc # "idle" => c.hash # 0)
    BY <1>1, <1>2, CallNamed DEF Known
  <2>2. Known(active)' /\ Known(playing)'
    BY <1>2 DEF SwarmsNamed, Known
  <2> QED
    BY <1>1, <1>2, <1>4, <2>1, <2>2, NamedStays
<1>7. ~odd' => CallInv(c)'
  <2> SUFFICES ASSUME ~odd' PROVE CallInv(c)'
    OBVIOUS
  <2>1. SlotKnown(c)'
    BY <1>1, <1>2, <1>3 DEF CallInv, SlotKnown, Resting, Switched
  <2>2. up' => \A j \in Ids : swarm'[j] = "live" => MayDownload(c, j)'
    BY <1>1, <1>2, <1>3, <1>4, <1>5 DEF CallInv, MayDownload, Switched, i
  <2>3. playing' # 0 /\ swarm'[playing] # "none" => playing' = active'
    BY <1>1, <1>2, <1>3, <1>4 DEF CallInv, Switched, TorrentTypeOK
  <2> QED
    BY <1>2, <1>3, <2>1, <2>2, <2>3 DEF CallInv
<1> QED
  BY <1>1, <1>2, <1>3, <1>4, <1>6, <1>7, CallKeeps DEF TorrentTypeOK

(* While the file is selected and its head awaited the session may lose      *)
(* swarms, but the call changes none.                                        *)
LEMMA WaitKeeps ==
  ASSUME TorrentInv, NEW q \in Openers, SelectFile(q) \/ wait_for_stream_head(q)
  PROVE  TorrentInv'
<1>1. /\ TorrentTypeOK /\ SwarmsNamed /\ op[q] \in OpenCalls /\ op[q].pc \in {"select", "head"}
      /\ UNCHANGED <<up, swarm, hashOf, active, playing, odd, clearing>>
      /\ {"head", "ready", "restore"} \subseteq OpenPcs
  BY DEF TorrentInv, TorrentTypeOK, SelectFile, wait_for_stream_head, engineVars, ghosts, OpenPcs
<1>2. PICK c \in OpenCalls :
        /\ op' = [op EXCEPT ![q] = c]
        /\ \/ c.pc = "idle" /\ c.prev = 0 /\ c.id = 0 /\ ~up
           \/ /\ c.pc \in {"head", "ready", "restore"} /\ (op[q].pc = "select" => up)
              /\ c.id = op[q].id /\ c.hash = op[q].hash
              /\ c.kind = op[q].kind /\ c.form = op[q].form /\ c.prev = op[q].prev
  <2>1. ASSUME NEW pc \in {"head", "ready", "restore"}, OpenAt(q, pc)
        PROVE  \E c \in OpenCalls :
           /\ op' = [op EXCEPT ![q] = c] /\ c.pc = pc /\ c.id = op[q].id /\ c.hash = op[q].hash
           /\ c.kind = op[q].kind /\ c.form = op[q].form /\ c.prev = op[q].prev
    <3>1. pc \in OpenPcs
      BY <1>1
    <3> QED
      BY <2>1, <3>1, OpenAtTo
  <2>2. CASE ~up /\ OpenReturns(q)
    BY <2>2, IdleIsCall DEF OpenReturns
  <2>3. \/ ~up /\ OpenReturns(q)
        \/ /\ op[q].pc = "select" => up
           /\ \E pc \in {"head", "ready", "restore"} : OpenAt(q, pc)
    BY DEF SelectFile, wait_for_stream_head
  <2> QED
    BY <2>1, <2>2, <2>3
<1>3. SwarmsNamed'
  <2>1. Known(c.id) /\ Known(c.prev) /\ (c.pc # "idle" => c.hash # 0)
    BY <1>1, <1>2, CallNamed DEF Known
  <2>2. Known(active)' /\ Known(playing)'
    BY <1>1 DEF SwarmsNamed, Known
  <2> QED
    BY <1>1, <1>2, <2>1, <2>2, NamedStays
<1>4. ~odd' => ~odd /\ OthersRest(q) /\ CallInv(op[q]) /\ (~up => playing = 0) /\ ~clearing
  BY <1>1, AtWork DEF Resting
<1>5. ~odd' => CallInv(c)'
  <2> SUFFICES ASSUME ~odd' PROVE CallInv(c)'
    OBVIOUS
  <2>1. SlotKnown(c)'
    BY <1>1, <1>2, <1>4 DEF CallInv, SlotKnown, Resting, Switched
  <2>2. up' => \A j \in Ids : swarm'[j] = "live" => MayDownload(c, j)'
    BY <1>1, <1>2, <1>4 DEF CallInv, MayDownload, Switched
  <2>3. playing' # 0 /\ swarm'[playing] # "none" => playing' = active' \/ (Switched(c) /\ playing' = c.prev)
    BY <1>1, <1>2, <1>4 DEF CallInv, Switched, TorrentTypeOK
  <2> QED
    BY <1>1, <1>4, <2>1, <2>2, <2>3 DEF CallInv, Switched
<1> QED
  BY <1>1, <1>2, <1>3, <1>4, <1>5, CallKeeps DEF TorrentTypeOK

(* A failed switch deletes its own swarm, then gives the slot back.          *)
LEMMA RestoreKeeps ==
  ASSUME TorrentInv, NEW q \in Openers, restore_active_after_failed_switch(q)
  PROVE  TorrentInv'
<1>1. /\ TorrentTypeOK /\ SwarmsNamed /\ op[q] \in OpenCalls
      /\ UNCHANGED <<up, hashOf, playing, odd, clearing>> /\ "restored" \in OpenPcs
      /\ op[q].pc \in {"restore", "restored"}
  BY DEF TorrentInv, TorrentTypeOK, restore_active_after_failed_switch, EngineStays, ghosts, OpenPcs
<1>2. ~odd' => ~odd /\ OthersRest(q) /\ CallInv(op[q]) /\ (~up => playing = 0) /\ ~clearing
  BY <1>1, AtWork DEF Resting
<1>3. CASE op[q].pc = "restore"
  <2>1. /\ delete_torrent_files(op[q].id) /\ OpenAt(q, "restored") /\ active' = active
    BY <1>3 DEF restore_active_after_failed_switch
  <2>2. PICK c \in OpenCalls :
           /\ op' = [op EXCEPT ![q] = c] /\ c.pc = "restored" /\ c.id = op[q].id /\ c.hash = op[q].hash
           /\ c.kind = op[q].kind /\ c.form = op[q].form /\ c.prev = op[q].prev
    BY <1>1, <2>1, OpenAtTo
  <2>3. /\ swarm' \in [Ids -> {"none", "live", "paused"}]
        /\ \A j \in Ids : swarm'[j] = IF j = c.id THEN "none" ELSE swarm[j]
    BY <1>1, <2>1, <2>2 DEF delete_torrent_files, TorrentTypeOK
  <2>4. SwarmsNamed'
    <3>1. Known(c.id) /\ Known(c.prev) /\ (c.pc # "idle" => c.hash # 0)
      BY <1>1, <1>3, <2>2, CallNamed DEF Known
    <3>2. Known(active)' /\ Known(playing)'
      BY <1>1, <2>1 DEF SwarmsNamed, Known
    <3> QED
      BY <1>1, <2>2, <2>3, <3>1, <3>2, NamedStays
  <2>5. ~odd' => CallInv(c)'
    <3> SUFFICES ASSUME ~odd' PROVE CallInv(c)'
      OBVIOUS
    <3>1. c.id \in Ids \cup {0} /\ ~clearing
      BY <1>2, <1>3, <2>2 DEF OpenCalls, CallInv
    <3>2. SlotKnown(c)'
      BY <1>1, <1>2, <1>3, <2>1, <2>2, <2>3, <3>1 DEF CallInv, SlotKnown, Resting, Switched
    <3>3. up' => \A j \in Ids : swarm'[j] = "live" => MayDownload(c, j)'
      BY <1>1, <1>2, <1>3, <2>1, <2>2, <2>3 DEF CallInv, MayDownload, Switched
    <3>4. playing' # 0 /\ swarm'[playing] # "none" => playing' = active' \/ playing' = c.prev
      BY <1>1, <1>2, <1>3, <2>1, <2>2, <2>3 DEF CallInv, Switched, TorrentTypeOK
    <3> QED
      BY <1>1, <2>2, <3>1, <3>2, <3>3, <3>4 DEF CallInv, Switched
  <2>6. ~odd' => ~clearing
    BY <1>2, <1>3 DEF CallInv
  <2> QED
    BY <1>1, <1>2, <2>1, <2>2, <2>3, <2>4, <2>5, <2>6, CallKeeps DEF TorrentTypeOK
<1>4. CASE op[q].pc = "restored"
  <2>1. active' = op[q].prev /\ op' = [op EXCEPT ![q] = IdleOp] /\ swarm' = swarm
    BY <1>4 DEF restore_active_after_failed_switch, OpenReturns
  <2>2. PICK c \in OpenCalls : op' = [op EXCEPT ![q] = c] /\ c.pc = "idle" /\ c.id = 0 /\ c.prev = 0
    BY <2>1, IdleIsCall
  <2>3. SwarmsNamed'
    <3>1. Known(op[q].prev)
      BY <1>1, CallNamed
    <3>2. Known(active)' /\ Known(playing)' /\ Known(c.id) /\ Known(c.prev)
      BY <1>1, <2>1, <2>2, <3>1 DEF SwarmsNamed, Known
    <3> QED
      BY <1>1, <2>1, <2>2, <3>2, NamedStays
  <2>4. ~odd' => \A j \in Ids : swarm[j] # "none" => j # active
    <3>1. \A j \in Ids : j # 0
      BY TorrentConstants DEF Ids
    <3>2. ~odd' => active \in {0, op[q].id} /\ swarm[op[q].id] = "none"
      BY <1>2, <1>4 DEF CallInv, SlotKnown, Switched
    <3> QED
      BY <3>1, <3>2
  <2>5. ~odd' => (playing # 0 /\ swarm[playing] # "none" => playing = op[q].prev)
    BY <1>1, <1>2, <1>4, <2>4 DEF CallInv, TorrentTypeOK
  <2>6. ~odd' => (up => \A j \in Ids : swarm[j] = "live" => j = op[q].prev)
    BY <1>2, <1>4, <2>4 DEF CallInv, MayDownload, Switched
  <2>7. ~odd' => ~clearing
    BY <1>2, <1>4 DEF CallInv
  <2>8. ~odd' => CallInv(c)'
    BY <1>1, <2>1, <2>2, <2>5, <2>6, <2>7 DEF CallInv, SlotKnown, Resting, MayDownload, Switched
  <2>9. active' \in Ids \cup {0}
    BY <1>1, <2>1 DEF OpenCalls
  <2> QED
    BY <1>1, <1>2, <2>1, <2>2, <2>3, <2>7, <2>8, <2>9, CallKeeps DEF TorrentTypeOK
<1> QED
  BY <1>3, <1>4 DEF restore_active_after_failed_switch

(* The stream is ready: the swarm switched from is paused, and the disk      *)
(* budget is kept without the active one.                                    *)
LEMMA ReadyKeeps ==
  ASSUME TorrentInv, NEW q \in Openers, StreamReady(q)
  PROVE  TorrentInv'
<1> DEFINE s == IF up THEN pause_torrent(swarm, op[q].prev) ELSE swarm
<1>1. /\ TorrentTypeOK /\ SwarmsNamed /\ op[q] \in OpenCalls /\ op[q].pc = "ready"
      /\ UNCHANGED <<up, hashOf, active, odd, clearing>> /\ "record" \in OpenPcs
      /\ playing' = IF active = op[q].id THEN active ELSE 0
  BY DEF TorrentInv, TorrentTypeOK, StreamReady, EngineStays, OpenPcs
<1>2. PICK c \in OpenCalls :
        /\ op' = [op EXCEPT ![q] = c]
        /\ \/ c.pc = "idle" /\ c.prev = 0 /\ c.id = 0
           \/ /\ c.pc = "record" /\ c.id = op[q].id /\ c.hash = op[q].hash
              /\ c.form = op[q].form /\ c.prev = op[q].prev
  BY <1>1, OpenAtTo, IdleIsCall DEF StreamReady, OpenReturns
<1>3. /\ s \in [Ids -> {"none", "live", "paused"}]
      /\ \A j \in Ids : swarm[j] = "none" => s[j] = "none"
      /\ up => \A j \in Ids : s[j] = "live" => swarm[j] = "live" /\ j # op[q].prev
  BY <1>1, PauseOnlyPauses DEF TorrentTypeOK
<1>4. reclaim_and_forget_evicted(s, active)
  BY DEF StreamReady
<1> HIDE DEF s
<1>5. /\ swarm' \in [Ids -> {"none", "live", "paused"}]
      /\ \A j \in Ids : swarm'[j] \in {"none", s[j]}
  BY <1>3, <1>4, ReclaimOnlyTakes
<1>6. SwarmsNamed'
  <2>1. Known(c.id) /\ Known(c.prev) /\ (c.pc # "idle" => c.hash # 0)
    BY <1>1, <1>2, CallNamed DEF Known
  <2>2. Known(active)' /\ Known(playing)'
    BY <1>1 DEF SwarmsNamed, Known
  <2>3. \A j \in Ids : swarm'[j] # "none" => swarm[j] # "none"
    BY <1>3, <1>5
  <2> QED
    BY <1>1, <1>2, <2>1, <2>2, <2>3, NamedStays
<1>7. ~odd' => ~odd /\ OthersRest(q) /\ CallInv(op[q]) /\ (~up => active = 0) /\ ~clearing
  BY <1>1, AtWork DEF Resting, CallInv, SlotKnown
<1>8. ~odd' => CallInv(c)'
  <2> SUFFICES ASSUME ~odd' PROVE CallInv(c)'
    OBVIOUS
  <2>1. SlotKnown(c)'
    BY <1>1, <1>2, <1>7 DEF CallInv, SlotKnown, Resting, Switched
  <2>2. up' => \A j \in Ids : swarm'[j] = "live" => j = active'
    BY <1>1, <1>3, <1>5, <1>7 DEF CallInv, MayDownload
  <2> QED
    BY <1>1, <1>2, <1>7, <2>1, <2>2 DEF CallInv, MayDownload, Switched
<1>9. ~odd' => (~up => playing' = 0)
  BY <1>1, <1>7
<1>10. playing' \in Ids \cup {0}
  BY <1>1 DEF TorrentTypeOK
<1> QED
  BY <1>1, <1>2, <1>5, <1>6, <1>7, <1>8, <1>9, <1>10, CallKeeps DEF TorrentTypeOK

\* The LAN handler notes the lease.
LEMMA RecordKeeps ==
  ASSUME TorrentInv, NEW q \in Openers, record_torrent_open(q)
  PROVE  TorrentInv'
<1>1. /\ TorrentTypeOK /\ SwarmsNamed /\ op[q] \in OpenCalls /\ op[q].pc = "record"
      /\ UNCHANGED <<up, swarm, hashOf, active, playing, odd, clearing>>
  BY DEF TorrentInv, TorrentTypeOK, record_torrent_open, engineVars, ghosts
<1>2. PICK c \in OpenCalls : op' = [op EXCEPT ![q] = c] /\ c.pc = "idle" /\ c.id = 0 /\ c.prev = 0
  BY IdleIsCall DEF record_torrent_open, OpenReturns
<1>3. SwarmsNamed'
  BY <1>1, <1>2, NamedStays DEF SwarmsNamed, Known
<1>4. op'[q] = c /\ op' \in [Openers -> OpenCalls] /\ \A o \in Openers : o # q => op'[o] = op[o]
  BY <1>1, <1>2 DEF TorrentTypeOK
<1>5. \A o \in Openers : Resting(op[o])' <=> Resting(op[o])
  BY <1>1, <1>2, <1>4 DEF Resting
<1>6. ASSUME ~odd', NEW o \in Openers, OthersRest(o)' PROVE CallInv(op[o])'
  <2>1. CallInv(op[o])
    BY <1>1, <1>5, <1>6 DEF TorrentInv, PromisesKept, OthersRest, OthersOf
  <2> QED
    BY <1>1, <1>2, <1>4, <2>1 DEF CallInv, SlotKnown, MayDownload, Switched, Resting
<1>7. PromisesKept'
  BY <1>1, <1>5, <1>6 DEF TorrentInv, PromisesKept, OthersRest, OthersOf, InSession
<1>8. TorrentTypeOK'
  BY <1>1, <1>4 DEF TorrentTypeOK
<1> QED
  BY <1>3, <1>7, <1>8 DEF TorrentInv

-----------------------------------------------------------------------------
\* The first state satisfies the invariant.
LEMMA InitTorrentInv == TorrentInit => TorrentInv
<1> SUFFICES ASSUME TorrentInit PROVE TorrentInv
  OBVIOUS
<1>1. TorrentTypeOK /\ SwarmsNamed
  BY IdleIsCall DEF TorrentInit, TorrentTypeOK, SwarmsNamed, InSession, Known
<1>2. \A o \in Openers : op[o].pc = "idle"
  BY IdleIsCall DEF TorrentInit
<1>3. PromisesKept
  BY <1>2 DEF TorrentInit, PromisesKept, CallInv, SlotKnown, Switched, Resting
<1> QED
  BY <1>1, <1>3 DEF TorrentInv

\* Every step keeps the invariant.
LEMMA NextTorrentInv == TorrentInv /\ [TorrentNext]_torrentVars => TorrentInv'
<1> SUFFICES ASSUME TorrentInv, [TorrentNext]_torrentVars PROVE TorrentInv'
  OBVIOUS
<1>1. CASE UNCHANGED torrentVars
  BY <1>1 DEF torrentVars, engineVars, ghosts, TorrentInv, TorrentTypeOK, SwarmsNamed, PromisesKept,
              CallInv, SlotKnown, MayDownload, Known, Switched, InSession, Resting, OthersRest, OthersOf
<1>2. ASSUME NEW q \in Openers, OpenStep(q) PROVE TorrentInv'
  BY <1>2, AddDoneKeeps, AddFailsKeeps, AddFailsLateKeeps, PrepareKeeps, FinishFailsKeeps,
     WaitKeeps, RestoreKeeps, ReadyKeeps, RecordKeeps DEF OpenStep
<1>3. ASSUME NEW q \in Openers, NEW h \in Hashes,
             list_files(q, h) \/ \E f \in Forms, d \in TVs \cup {Host} : stream_magnet(q, h, f, d)
      PROVE  TorrentInv'
  BY <1>3, BeginKeeps
<1> QED
  BY <1>1, <1>2, <1>3, StopKeeps, RemoveKeeps, WatchKeeps DEF TorrentNext

(* Whoever calls, as long as no two calls overlapped in the engine and none  *)
(* of the other exclusions happened, nothing but the active swarm downloads  *)
(* between calls (crates/torrent/src/lib.rs).                                *)
THEOREM OnlyActive == TorrentSpec => []OnlyActiveDownloads
<1>1. TorrentInv => OnlyActiveDownloads
  <2> SUFFICES ASSUME TorrentInv, up, NoOpInFlight, ~odd, NEW i \in Ids, swarm[i] = "live"
               PROVE  i = active
    BY DEF OnlyActiveDownloads
  <2>1. PICK q \in Openers : TRUE
    BY TorrentConstants
  <2>2. op[q].pc = "idle" /\ CallInv(op[q])
    BY <2>1 DEF NoOpInFlight, TorrentInv, PromisesKept, OthersRest, OthersOf, Resting
  <2> QED
    BY <2>2 DEF CallInv, MayDownload, Switched
<1> QED
  BY InitTorrentInv, NextTorrentInv, <1>1, PTL DEF TorrentSpec

\* A step of one call leaves the others where they are.
LEMMA OneCallSteps ==
  ASSUME TorrentTypeOK, NEW o \in Openers, NEW q \in Openers, OpenStep(o), op'[q] # op[q]
  PROVE  OpenStep(q)
<1>1. ASSUME o # q PROVE FALSE
  <2>1. ASSUME NEW c, op' = [op EXCEPT ![o] = c] PROVE op'[q] = op[q]
    BY <1>1, <2>1 DEF TorrentTypeOK
  <2>2. ASSUME NEW pc, OpenAt(o, pc) PROVE op'[q] = op[q]
    BY <1>1, <2>2 DEF OpenAt, TorrentTypeOK
  <2>3. CASE AddDone(o)
    BY <1>1, <2>3 DEF AddDone, TorrentTypeOK
  <2>4. CASE AddFails(o) \/ AddFailsLate(o) \/ FinishFails(o)
    <3>1. AttemptFails(o)
      BY <2>4 DEF AddFails, AddFailsLate, FinishFails
    <3> QED
      BY <1>1, <3>1 DEF AttemptFails, OpenReturns, TorrentTypeOK
  <2>5. CASE finish_prepare(o)
    BY <1>1, <2>5 DEF finish_prepare, OpenReturns, TorrentTypeOK
  <2>6. CASE \/ SelectFile(o) \/ wait_for_stream_head(o) \/ restore_active_after_failed_switch(o)
             \/ StreamReady(o) \/ record_torrent_open(o)
    BY <2>1, <2>2, <2>6 DEF SelectFile, wait_for_stream_head, restore_active_after_failed_switch,
       StreamReady, record_torrent_open, OpenReturns
  <2> QED
    BY <2>3, <2>4, <2>5, <2>6 DEF OpenStep
<1> QED
  BY <1>1

(* Under the same exclusions only the last step of a failed open of the      *)
(* torrent being played takes that torrent's swarm away before the new       *)
(* stream is ready: every other step of a switch deletes a swarm that is not *)
(* the active one, or evicts with the played one protected                   *)
(* (prepare_add, restore_active_after_failed_switch, stream_magnet).         *)
THEOREM SwitchSpares == TorrentSpec => SwitchSparesPlayed
<1>1. ASSUME TorrentInv, [TorrentNext]_torrentVars, NEW q \in Openers, playing # 0, swarm[playing] # "none",
             swarm'[playing] = "none", op'[q] # op[q], ~odd, playing' = playing
      PROVE  op[q].pc = "restore" /\ op[q].hash = hashOf[playing]
  <2>1. TorrentTypeOK /\ swarm' # swarm /\ op' # op
    BY <1>1 DEF TorrentInv
  <2>2. PICK o \in Openers : OpenStep(o)
    BY <1>1, <2>1 DEF torrentVars, engineVars, TorrentNext, start_engine, stop_engine, DropSession,
       stop_async, reclaim_disk_cache, ClearSwarms, ClearSlot, stop_torrent_async,
       remove_torrent_async, list_files, stream_magnet, close_handler, tick_idle_watch, WatchActs,
       clean_lease_torrent, Leave, ComeBack, GracePasses
  <2>3. OpenStep(q)
    BY <1>1, <2>1, <2>2, OneCallSteps
  <2>4. ~SelectFile(q) /\ ~wait_for_stream_head(q) /\ ~record_torrent_open(q)
    BY <2>1 DEF SelectFile, wait_for_stream_head, record_torrent_open, engineVars
  <2>5. ~Resting(op[q])
    BY <2>3, <2>4 DEF OpenStep, Resting, AddDone, AddFails, AddFailsLate, finish_prepare, FinishFails,
       restore_active_after_failed_switch, StreamReady
  <2>6. /\ CallInv(op[q]) /\ playing \in Ids
        /\ playing = active \/ (Switched(op[q]) /\ playing = op[q].prev)
    BY <1>1, <2>1, <2>5, AtWork DEF TorrentTypeOK, CallInv
  <2>7. ~AddDone(q) /\ ~AddFailsLate(q)
    BY <1>1, <2>1, <2>6 DEF AddDone, AddTorrent, AddFailsLate, TorrentTypeOK
  <2>8. ~finish_prepare(q)
    BY <1>1, <2>1, <2>6 DEF finish_prepare, Resumed, TorrentTypeOK
  <2>9. ~AddFails(q)
    BY <1>1, <2>1, <2>6 DEF AddFails, discard_unowned_by_hash, delete_torrent_files, Switched
  <2>10. ~FinishFails(q)
    BY <1>1, <2>1, <2>6 DEF FinishFails, delete_torrent_files, Resumed, Switched, CallInv, SlotKnown,
       TorrentTypeOK
  <2>11. ~StreamReady(q)
    <3> SUFFICES ASSUME StreamReady(q) PROVE FALSE
      OBVIOUS
    <3>1. playing = active
      BY <1>1 DEF StreamReady
    <3>2. swarm'[active] = swarm[active] \/ swarm'[active] \in {"live", "paused"}
      BY <2>1, <2>6, <3>1 DEF StreamReady, reclaim_and_forget_evicted, pause_torrent, TorrentTypeOK
    <3> QED
      BY <1>1, <3>1, <3>2
  <2>12. restore_active_after_failed_switch(q)
    BY <2>3, <2>4, <2>7, <2>8, <2>9, <2>10, <2>11 DEF OpenStep
  <2>13. op[q].pc = "restore" /\ delete_torrent_files(op[q].id)
    BY <2>1, <2>12 DEF restore_active_after_failed_switch
  <2>14. playing = op[q].id
    BY <1>1, <2>6, <2>13 DEF delete_torrent_files
  <2> QED
    BY <2>6, <2>13, <2>14 DEF CallInv, SlotKnown, Switched
<1>2. TorrentInv /\ [TorrentNext]_torrentVars
        => [\A o \in Openers :
              (/\ playing # 0 /\ swarm[playing] # "none" /\ swarm'[playing] = "none"
               /\ op'[o] # op[o] /\ ~odd /\ playing' = playing)
              => op[o].pc = "restore" /\ op[o].hash = hashOf[playing]]_torrentVars
  BY <1>1
<1> QED
  BY InitTorrentInv, NextTorrentInv, <1>2, PTL DEF TorrentSpec, SwitchSparesPlayed

(***************************************************************************)
(* Providers                                                               *)
(***************************************************************************)

\* What a request for an order of providers is: ids and any reliabilities.
ProviderRequests ==
  [candidate_ids : Seq(Nat), settings_order : Seq(Nat), reliability : UNION {[D -> Int] : D \in SUBSET Nat}]

\* The rank of an element that a sequence holds once.
LEMMA RankInIs ==
  ASSUME NEW T, NEW f \in Seq(T), NEW n \in 1..Len(f), \A m \in 1..Len(f) : f[m] = f[n] => m = n
  PROVE  RankIn(f, f[n]) = n - 1
<1> DEFINE I == {i \in 1..Len(f) : f[i] = f[n]}
<1>1. I = {n}
  OBVIOUS
<1>2. RankIn(f, f[n]) = (IF I # {} THEN Min(I) ELSE 0) - 1
  BY DEF RankIn, SelectInSeq
<1>3. n \in Int /\ I \in SUBSET Int /\ n \in I /\ \A y \in I : n <= y
  BY <1>1
<1> HIDE DEF I
<1> QED
  BY <1>2, <1>3, MinOf

\* The rank of a member in InOrder is the number of members before it.
LEMMA RankInOrder ==
  ASSUME NEW S, IsFiniteSet(S), NEW below, IsOrder(S, below)
  PROVE  /\ InOrder(S, below) \in Seq(S) /\ Len(InOrder(S, below)) = Cardinality(S)
         /\ Range(InOrder(S, below)) = S
         /\ \A a \in S : /\ RankIn(InOrder(S, below), a) = Cardinality(below[a])
                         /\ Cardinality(below[a]) \in Nat
<1> DEFINE f == InOrder(S, below)
           N == Cardinality(S)
<1>1. /\ N \in Nat /\ f \in [1..N -> S]
      /\ \A n \in 1..N : Cardinality(below[f[n]]) = n - 1
      /\ \A a \in S : Cardinality(below[a]) + 1 \in 1..N /\ f[Cardinality(below[a]) + 1] = a
  BY InOrderIs
<1>2. \A a \in S : Cardinality(below[a]) \in Nat
  BY PlacesOf
<1> HIDE DEF f, N
<1>3. f \in Seq(S) /\ Len(f) = N
  BY <1>1
<1>4. Range(f) = S
  BY <1>1 DEF Range
<1>5. ASSUME NEW a \in S
      PROVE  RankIn(f, a) = Cardinality(below[a])
  <2> DEFINE n == Cardinality(below[a]) + 1
  <2>1. n \in 1..Len(f) /\ f[n] = a /\ n - 1 = Cardinality(below[a])
    BY <1>1, <1>2, <1>3
  <2>2. \A m \in 1..Len(f) : f[m] = f[n] => m = n
    BY <1>1, <1>3, <2>1
  <2> HIDE DEF n
  <2> QED
    BY <1>3, <2>1, <2>2, RankInIs
<1> QED
  BY <1>2, <1>3, <1>4, <1>5 DEF f, N

\* A set is larger than another by no more than what it has of its own, and
\* that fits between two keys.
LEMMA LargerBy ==
  ASSUME NEW P, NEW Q, IsFiniteSet(P), IsFiniteSet(Q), NEW key, NEW lo \in Int, NEW K \in Nat,
         \A x \in P \ Q : key[x] \in lo..(lo + K - 1),
         \A x, y \in P \ Q : key[x] = key[y] => x = y
  PROVE  Cardinality(P) - Cardinality(Q) <= K
<1> DEFINE R == P \ Q
           f == [x \in R |-> key[x]]
           I == lo..(lo + K - 1)
<1>1. IsFiniteSet(I) /\ Cardinality(I) = K
  BY FS_Interval
<1>2. f \in Injection(R, I)
  BY DEF Injection, IsInjective
<1> HIDE DEF f, I
<1>3. IsFiniteSet(R) /\ Cardinality(R) <= K
  BY <1>1, <1>2, FS_Injection
<1>4. Cardinality(P) <= Cardinality(R) + Cardinality(Q)
  <2>1. P \in SUBSET (R \cup Q)
    OBVIOUS
  <2>2. /\ IsFiniteSet(R \cup Q)
        /\ Cardinality(R \cup Q) = Cardinality(R) + Cardinality(Q) - Cardinality(R \cap Q)
        /\ R \cap Q = {}
    BY <1>3, FS_Union
  <2>3. Cardinality(R \cap Q) = 0
    BY <2>2, FS_EmptySet
  <2> HIDE DEF R
  <2>4. Cardinality(P) <= Cardinality(R \cup Q)
    BY <2>1, <2>2, FS_Subset
  <2>5. Cardinality(R) \in Nat /\ Cardinality(Q) \in Nat /\ Cardinality(P) \in Nat
    BY <1>3, FS_CardinalityType
  <2> QED
    BY <2>2, <2>3, <2>4, <2>5
<1>5. Cardinality(R) \in Nat /\ Cardinality(Q) \in Nat /\ Cardinality(P) \in Nat
  BY <1>3, FS_CardinalityType
<1> QED
  BY <1>3, <1>4, <1>5

\* The effective rank lies between the two it is made from, a bounded way off
\* the first, and does not change the order of two that agree.
LEMMA EffectiveIs ==
  ASSUME NEW s \in Nat, NEW r \in Nat
  PROVE  /\ effective_rank(s, r) \in Nat
         /\ effective_rank(s, r) - s \in (-MAX_PROVIDER_DISPLACEMENT)..MAX_PROVIDER_DISPLACEMENT
         /\ \A t, u \in Nat : s < t /\ r < u => effective_rank(s, r) <= effective_rank(t, u)
  BY DisplacementIsPositive DEF effective_rank, Clamp

-----------------------------------------------------------------------------
\* The order of the settings is an order of the candidates.
LEMMA BaselineIs ==
  ASSUME NEW C \in SUBSET Nat, IsFiniteSet(C), NEW so \in Seq(Nat)
  PROVE  \E below : IsOrder(C, below) /\ Baseline(C, so) = InOrder(C, below)
<1> DEFINE place(id) == IF Contains(so, id) THEN SelectInSeq(so, LAMBDA x : x = id) ELSE Len(so) + 1
           key == [id \in C |-> place(id)]
<1>1. \A id \in C : key[id] \in Int
  <2> SUFFICES ASSUME NEW id \in C PROVE place(id) \in Int
    OBVIOUS
  <2>1. CASE ~Contains(so, id)
    BY <2>1
  <2>2. CASE Contains(so, id)
    <3> DEFINE I == {i \in 1..Len(so) : so[i] = id}
    <3>1. SelectInSeq(so, LAMBDA x : x = id) = IF I # {} THEN Min(I) ELSE 0
      BY DEF SelectInSeq
    <3>2. I # {}
      BY <2>2 DEF Contains
    <3>3. I \in SUBSET Int /\ IsFiniteSet(I)
      <4>1. I \in SUBSET (1..Len(so)) /\ Len(so) \in Nat
        OBVIOUS
      <4>2. IsFiniteSet(1..Len(so)) /\ 1..Len(so) \in SUBSET Int
        BY <4>1, FS_Interval
      <4> HIDE DEF I
      <4> QED
        BY <4>1, <4>2, FS_Subset
    <3> HIDE DEF I
    <3>4. Min(I) \in I
      BY <3>2, <3>3, LeastOf
    <3> QED
      BY <2>2, <3>1, <3>2, <3>3, <3>4
  <2> QED
    BY <2>1, <2>2
<1>2. Baseline(C, so) = InOrder(C, Keyed(C, key, Less(C)))
  BY DEF Baseline
<1> HIDE DEF key
<1>3. IsOrder(C, Less(C))
  <2>1. C \in SUBSET Int
    OBVIOUS
  <2> QED
    BY <2>1, LessIsOrder
<1>4. IsOrder(C, Keyed(C, key, Less(C)))
  BY <1>1, <1>3, KeyedIsOrder
<1> QED
  BY <1>2, <1>4

\* So is the order of their reliabilities.
LEMMA ByReliabilityIs ==
  ASSUME NEW C \in SUBSET Nat, IsFiniteSet(C), NEW rel, \A id \in DOMAIN rel : rel[id] \in Int
  PROVE  \E below : IsOrder(C, below) /\ ByReliability(C, rel) = InOrder(C, below)
<1> DEFINE key == [id \in C |-> -reliability_nudge(id, rel)]
<1>1. \A id \in C : key[id] \in Int
  BY ClampIsNat DEF reliability_nudge, Clamp
<1>2. ByReliability(C, rel) = InOrder(C, Keyed(C, key, Less(C)))
  BY DEF ByReliability
<1> HIDE DEF key
<1>3. IsOrder(C, Less(C))
  <2>1. C \in SUBSET Int
    OBVIOUS
  <2> QED
    BY <2>1, LessIsOrder
<1>4. IsOrder(C, Keyed(C, key, Less(C)))
  BY <1>1, <1>3, KeyedIsOrder
<1> QED
  BY <1>2, <1>4

\* What reliability makes of an order of the candidates by the settings.
LEMMA ReorderedIs ==
  ASSUME NEW C \in SUBSET Nat, IsFiniteSet(C), NEW bb, IsOrder(C, bb), NEW rb, IsOrder(C, rb)
  PROVE  LET all == Reordered(InOrder(C, bb), InOrder(C, rb))
             s(id) == Cardinality(bb[id])
             r(id) == Cardinality(rb[id])
             e(id) == effective_rank(s(id), r(id))
         IN  \E ab : /\ IsOrder(C, ab) /\ all = InOrder(C, ab)
                     /\ \A a, b \in C : b \in ab[a] <=> e(b) < e(a) \/ (e(b) = e(a) /\ s(b) < s(a))
<1> DEFINE base == InOrder(C, bb)
           rel == InOrder(C, rb)
           s(id) == Cardinality(bb[id])
           r(id) == Cardinality(rb[id])
           e(id) == effective_rank(s(id), r(id))
           settled == [id \in C |-> RankIn(base, id)]
           rank == [id \in C |-> effective_rank(settled[id], RankIn(rel, id))]
           tie == Keyed(C, settled, Less(C))
           ab == Keyed(C, rank, tie)
<1>1. Range(base) = C /\ \A id \in C : RankIn(base, id) = s(id) /\ s(id) \in Nat
  BY RankInOrder
<1>2. \A id \in C : RankIn(rel, id) = r(id) /\ r(id) \in Nat
  BY RankInOrder
<1>3. Reordered(base, rel) = InOrder(C, ab)
  BY <1>1 DEF Reordered
<1>4. \A id \in C : settled[id] = s(id) /\ settled[id] \in Int
  BY <1>1
<1>5. \A id \in C : rank[id] = e(id) /\ e(id) \in Nat
  <2> SUFFICES ASSUME NEW id \in C PROVE rank[id] = e(id) /\ e(id) \in Nat
    OBVIOUS
  <2>1. s(id) \in Nat /\ r(id) \in Nat
    BY <1>1, <1>2
  <2>2. e(id) \in Nat
    BY <2>1, EffectiveIs
  <2>3. settled[id] = s(id) /\ RankIn(rel, id) = r(id)
    BY <1>2, <1>4
  <2> QED
    BY <2>2, <2>3
<1>6. \A a, b \in C : a # b => s(a) # s(b)
  BY PlacesOf
<1>7. IsOrder(C, Less(C))
  <2>1. C \in SUBSET Int
    OBVIOUS
  <2> QED
    BY <2>1, LessIsOrder
<1> HIDE DEF settled, rank
<1>8. /\ IsOrder(C, tie)
      /\ \A a, b \in C : b \in tie[a] <=> settled[b] < settled[a] \/ (settled[b] = settled[a] /\ b \in Less(C)[a])
  BY <1>4, <1>7, KeyedIsOrder
<1> HIDE DEF tie
<1>12. \A id \in C : rank[id] \in Int
  BY <1>5
<1>9. /\ IsOrder(C, ab)
      /\ \A a, b \in C : b \in ab[a] <=> rank[b] < rank[a] \/ (rank[b] = rank[a] /\ b \in tie[a])
  BY <1>8, <1>12, KeyedIsOrder
<1> HIDE DEF ab, s, e, r, base, rel
<1>10. \A a, b \in C : b \in tie[a] <=> s(b) < s(a)
  <2>1. \A a \in C : a \notin tie[a]
    BY <1>8 DEF IsOrder
  <2> QED
    BY <1>1, <1>4, <1>6, <1>8, <2>1
<1>11. \A a, b \in C : b \in ab[a] <=> e(b) < e(a) \/ (e(b) = e(a) /\ s(b) < s(a))
  BY <1>5, <1>9, <1>10
<1> QED
  BY <1>3, <1>9, <1>11 DEF s, e, r, base, rel

\* No place is further from the settings' than fewer than twice the cap, and
\* who is behind by both stays behind.
LEMMA ReorderedBounds ==
  ASSUME NEW C \in SUBSET Nat, IsFiniteSet(C), NEW bb, IsOrder(C, bb), NEW rb, IsOrder(C, rb)
  PROVE  LET all == Reordered(InOrder(C, bb), InOrder(C, rb))
         IN  /\ Range(all) = C /\ Len(all) = Cardinality(C)
             /\ \A id \in C : RankIn(all, id) - RankIn(InOrder(C, bb), id)
                               \in (-(2 * MAX_PROVIDER_DISPLACEMENT - 1))..(2 * MAX_PROVIDER_DISPLACEMENT - 1)
             /\ \A a, b \in C : /\ RankIn(InOrder(C, bb), a) < RankIn(InOrder(C, bb), b)
                                 /\ RankIn(InOrder(C, rb), a) < RankIn(InOrder(C, rb), b)
                                 => RankIn(all, a) < RankIn(all, b)
<1> DEFINE all == Reordered(InOrder(C, bb), InOrder(C, rb))
           s(id) == Cardinality(bb[id])
           r(id) == Cardinality(rb[id])
           e(id) == effective_rank(s(id), r(id))
           M == MAX_PROVIDER_DISPLACEMENT
<1>1. PICK ab : /\ IsOrder(C, ab) /\ all = InOrder(C, ab)
                /\ \A a, b \in C : b \in ab[a] <=> e(b) < e(a) \/ (e(b) = e(a) /\ s(b) < s(a))
  BY ReorderedIs
<1>2. \A id \in C : RankIn(InOrder(C, bb), id) = s(id) /\ s(id) \in Nat
  BY RankInOrder
<1>3. \A id \in C : RankIn(InOrder(C, rb), id) = r(id) /\ r(id) \in Nat
  BY RankInOrder
<1>4. /\ Range(all) = C /\ Len(all) = Cardinality(C)
      /\ \A id \in C : RankIn(all, id) = Cardinality(ab[id]) /\ Cardinality(ab[id]) \in Nat
  BY <1>1, RankInOrder
<1>5. \A id \in C : e(id) \in Nat /\ e(id) - s(id) \in (-M)..M
  BY <1>2, <1>3, EffectiveIs
<1>6. \A a, b \in C : s(a) < s(b) /\ r(a) < r(b) => e(a) <= e(b)
  BY <1>2, <1>3, EffectiveIs
<1>7. \A a, b \in C : /\ a \in bb[b] <=> s(a) < s(b)
                      /\ s(a) = s(b) => a = b
                      /\ a \in ab[b] <=> Cardinality(ab[a]) < Cardinality(ab[b])
  BY <1>1, PlacesOf
<1>8. M \in Nat /\ M >= 1
  BY DisplacementIsPositive
<1>9. \A id \in C : /\ IsFiniteSet(ab[id]) /\ ab[id] \subseteq C
                     /\ IsFiniteSet(bb[id]) /\ bb[id] \subseteq C
  BY <1>1, PlacesOf DEF IsOrder
<1> HIDE DEF all, e, r, M
<1>10. ASSUME NEW a \in C, NEW b \in C, s(a) < s(b), r(a) < r(b)
       PROVE  RankIn(all, a) < RankIn(all, b)
  <2>1. e(a) < e(b) \/ (e(a) = e(b) /\ s(a) < s(b))
    BY <1>5, <1>6, <1>10
  <2>2. a \in ab[b]
    BY <1>1, <2>1
  <2> QED
    BY <1>4, <1>7, <2>2
<1>11. ASSUME NEW id \in C
       PROVE  RankIn(all, id) - s(id) \in (-(2 * M - 1))..(2 * M - 1)
  <2> DEFINE key == [x \in C |-> s(x)]
             K == 2 * M - 1
  <2>1. \A x \in C : key[x] = s(x) /\ s(x) \in Nat
    BY <1>2
  <2>2. \A x, y \in C : key[x] = key[y] => x = y
    BY <1>7
  <2> HIDE DEF key
  <2>3. \A x \in ab[id] \ bb[id] : key[x] \in (s(id) + 1)..((s(id) + 1) + K - 1)
    <3> SUFFICES ASSUME NEW x \in ab[id] \ bb[id]
                 PROVE  key[x] \in (s(id) + 1)..((s(id) + 1) + K - 1)
      OBVIOUS
    <3>1. x \in C /\ ~(s(x) < s(id)) /\ x # id
      BY <1>1, <1>7, <1>9 DEF IsOrder
    <3>2. s(x) > s(id)
      BY <1>2, <1>7, <3>1
    <3>3. e(x) < e(id)
      BY <1>1, <1>2, <3>1, <3>2
    <3> HIDE DEF s
    <3>4. e(x) \in Nat /\ e(id) \in Nat /\ e(x) - s(x) >= -M /\ e(id) - s(id) <= M
      BY <1>2, <1>5, <1>8, <3>1
    <3> QED
      BY <1>8, <2>1, <3>1, <3>2, <3>3, <3>4
  <2>4. \A x \in bb[id] \ ab[id] : key[x] \in (s(id) - K)..((s(id) - K) + K - 1)
    <3> SUFFICES ASSUME NEW x \in bb[id] \ ab[id]
                 PROVE  key[x] \in (s(id) - K)..((s(id) - K) + K - 1)
      OBVIOUS
    <3>1. x \in C /\ s(x) < s(id)
      BY <1>7, <1>9
    <3>2. ~(e(x) < e(id)) /\ ~(e(x) = e(id))
      BY <1>1, <3>1
    <3>3. e(x) \in Nat /\ e(id) \in Nat /\ e(x) - s(x) <= M /\ e(id) - s(id) >= -M
      BY <1>2, <1>5, <1>8, <3>1
    <3> HIDE DEF s
    <3> QED
      BY <1>8, <2>1, <3>1, <3>2, <3>3
  <2>5. K \in Nat /\ s(id) + 1 \in Int /\ s(id) - K \in Int
    BY <1>2, <1>8
  <2>6. \A x, y \in ab[id] \ bb[id] : key[x] = key[y] => x = y
    BY <1>9, <2>2
  <2>7. \A x, y \in bb[id] \ ab[id] : key[x] = key[y] => x = y
    BY <1>9, <2>2
  <2> DEFINE P == ab[id]
             Q == bb[id]
             upper == s(id) + 1
             lower == s(id) - K
  <2>10. IsFiniteSet(P) /\ IsFiniteSet(Q) /\ upper \in Int /\ lower \in Int
    BY <1>9, <2>5
  <2> HIDE DEF K, P, Q, upper, lower
  <2>8. Cardinality(P) - Cardinality(Q) <= K
    <3>1. \A x \in P \ Q : key[x] \in upper..(upper + K - 1)
      BY <2>3 DEF P, Q, upper
    <3>2. \A x, y \in P \ Q : key[x] = key[y] => x = y
      BY <2>6 DEF P, Q
    <3> QED
      BY <2>5, <2>10, <3>1, <3>2, LargerBy
  <2>9. Cardinality(Q) - Cardinality(P) <= K
    <3>1. \A x \in Q \ P : key[x] \in lower..(lower + K - 1)
      BY <2>4 DEF P, Q, lower
    <3>2. \A x, y \in Q \ P : key[x] = key[y] => x = y
      BY <2>7 DEF P, Q
    <3> QED
      BY <2>5, <2>10, <3>1, <3>2, LargerBy
  <2> QED
    BY <1>2, <1>4, <2>5, <2>8, <2>9 DEF K, P, Q
<1> QED
  BY <1>2, <1>3, <1>4, <1>10, <1>11 DEF all, M

(* For every list of candidates, every order the settings have and every      *)
(* reliabilities, order_providers (source_order.rs) tries each candidate      *)
(* once, moves none further than its cap allows, keeps the order of two that  *)
(* the settings and reliability agree on, and puts a preferred one alone.     *)
THEOREM ProvidersKept == \A q \in ProviderRequests : ProvidersOrdered(q)
<1> SUFFICES ASSUME NEW q \in ProviderRequests
             PROVE  ProvidersOrdered(q)
  OBVIOUS
<1> DEFINE C == Range(q.candidate_ids) \ {AutoId}
           base == Baseline(C, q.settings_order)
           rel == ByReliability(C, q.reliability)
           all == order_providers(q.candidate_ids, q.settings_order, AutoId, q.reliability)
           K == 2 * MAX_PROVIDER_DISPLACEMENT - 1
<1>1. /\ q.candidate_ids \in Seq(Nat) /\ q.settings_order \in Seq(Nat)
      /\ \A id \in DOMAIN q.reliability : q.reliability[id] \in Int
  BY DEF ProviderRequests
<1>2. C \in SUBSET Nat /\ IsFiniteSet(C)
  <2>1. Range(q.candidate_ids) \in SUBSET Nat /\ IsFiniteSet(Range(q.candidate_ids))
    BY <1>1, RangeFinite
  <2>2. C \in SUBSET Range(q.candidate_ids)
    OBVIOUS
  <2> QED
    BY <2>1, <2>2, FS_Subset
<1> HIDE DEF C
<1>3. PICK bb : IsOrder(C, bb) /\ base = InOrder(C, bb)
  BY <1>1, <1>2, BaselineIs
<1>4. PICK rb : IsOrder(C, rb) /\ rel = InOrder(C, rb)
  BY <1>1, <1>2, ByReliabilityIs
<1>5. all = IF \A id \in C : reliability_nudge(id, q.reliability) = 0 THEN base ELSE Reordered(base, rel)
  BY DEF order_providers, C
<1>6. \A id \in C : id # AutoId
            /\ order_providers(q.candidate_ids, q.settings_order, id, q.reliability) = <<id>>
  BY DEF order_providers, C
<1>7. /\ Range(base) = C /\ Len(base) = Cardinality(C)
      /\ \A id \in C : RankIn(base, id) \in Nat
  BY <1>2, <1>3, RankInOrder
<1>8. K \in Nat /\ 0 \in (-K)..K
  BY DisplacementIsPositive
<1> HIDE DEF all, base, rel, K
<1>9. /\ Range(all) = C /\ Len(all) = Cardinality(C)
      /\ \A id \in C : RankIn(all, id) - RankIn(base, id) \in (-K)..K
      /\ \A a, b \in C : RankIn(base, a) < RankIn(base, b) /\ RankIn(rel, a) < RankIn(rel, b)
                           => RankIn(all, a) < RankIn(all, b)
  <2>1. CASE all = base
    BY <1>7, <1>8, <2>1
  <2>2. CASE all = Reordered(base, rel)
    BY <1>2, <1>3, <1>4, <2>2, ReorderedBounds DEF K
  <2> QED
    BY <1>5, <2>1, <2>2
<1>10. MovesAtMost(q, K)
  BY <1>9 DEF MovesAtMost, all, base, C
<1> QED
  BY <1>6, <1>9, <1>10 DEF ProvidersOrdered, all, base, rel, C, K

(***************************************************************************)
(* Sources                                                                 *)
(***************************************************************************)

\* What a request to rank sources is.
LegacySources == [url : STRING, says : SUBSET STRING, type : STRING, rank : Nat, latency : Int]
AnyDevice == [max_height : Nat, user_max_height : Nat, decodes : SUBSET STRING, is_low_power : BOOLEAN]
SourceRequests == [sources : Seq(LegacySources), device : AnyDevice, blocklist : SUBSET STRING]

\* The height that is read out of a title is a number.
LEMMA HeightIsNat ==
  ASSUME NEW says
  PROVE  infer_height(says) \in Nat
<1> DEFINE words == <<"2160", "4k", "4320", "1440", "1080", "720", "480", "360">>
           heights == <<2160, 2160, 4320, 1440, 1080, 720, 480, 360>>
           I == {i \in 1..Len(words) : words[i] \in says}
           named == SelectInSeq(words, LAMBDA w : w \in says)
<1>1. Len(words) = 8 /\ named = IF I # {} THEN Min(I) ELSE 0
  BY DEF SelectInSeq
<1>2. I \in SUBSET (1..8)
  BY <1>1
<1> HIDE DEF I, words
<1>3. IsFiniteSet(1..8) /\ 1..8 \in SUBSET Int
  <2>1. 1 \in Int /\ 8 \in Int
    OBVIOUS
  <2>2. IsFiniteSet(1..8)
    BY <2>1, FS_Interval
  <2> QED
    BY <2>2
<1>4. IsFiniteSet(I) /\ I \in SUBSET Int
  BY <1>2, <1>3, FS_Subset
<1>5. named \in 0..8
  <2>1. CASE I = {}
    BY <1>1, <2>1
  <2>2. CASE I # {}
    <3>1. Min(I) \in I
      BY <1>4, <2>2, LeastOf
    <3> QED
      BY <1>1, <1>2, <2>2, <3>1
  <2> QED
    BY <2>1, <2>2
<1>6. infer_height(says) = IF named = 0 THEN 0 ELSE heights[named]
  BY DEF infer_height, words
<1> HIDE DEF named
<1>7. \A i \in 1..8 : heights[i] \in Nat
  OBVIOUS
<1> HIDE DEF heights
<1> QED
  BY <1>5, <1>6, <1>7

\* What a latency adds to a score.
LEMMA LatencyIs ==
  ASSUME NEW ms
  PROVE  LatencyScore(ms) \in {10, 5, -10, 0}
  BY ZenonT(30) DEF LatencyScore

\* A score is what the height earns and the rest, in units of the device's
\* tallest height.
LEMMA ScoreParts ==
  ASSUME NEW d \in AnyDevice, NEW s, s.height \in Nat
  PROVE  LET U == ScoreUnit(d)
             rest == CodecScore(s, d) + (IF s.container = "hls" THEN 5 ELSE 0) + LatencyScore(s.latency)
         IN  /\ U \in Nat /\ U >= 1 /\ rest \in Int /\ HeightScore(s, d) \in Int
             /\ quality_score(s, d) = HeightScore(s, d) + U * rest
             /\ HeightScore(s, d) <= 40 * U
             /\ Fits(s, d) => HeightScore(s, d) >= 0
             /\ device_supports_codec(d, s.codec) => rest >= 15
             /\ ~device_supports_codec(d, s.codec) => rest <= -35
<1> DEFINE U == ScoreUnit(d)
           hls == IF s.container = "hls" THEN 5 ELSE 0
           late == LatencyScore(s.latency)
           rest == CodecScore(s, d) + hls + late
<1>1. effective_max_height(d) \in Nat
  BY DEF effective_max_height, AnyDevice
<1>2. U \in Nat /\ U >= 1 /\ effective_max_height(d) <= U
  BY <1>1 DEF ScoreUnit
<1>3. late \in Int /\ late >= -10 /\ late <= 10
  BY LatencyIs
<1>4. hls \in {0, 5}
  OBVIOUS
<1>5. effective_height(s) \in Nat
  BY DEF effective_height
<1>6. HeightScore(s, d) \in Int /\ HeightScore(s, d) <= 40 * U /\ (Fits(s, d) => HeightScore(s, d) >= 0)
  BY <1>1, <1>2, <1>5 DEF HeightScore, Fits
<1>7. /\ CodecScore(s, d) \in Int
      /\ device_supports_codec(d, s.codec) => CodecScore(s, d) >= 25
      /\ ~device_supports_codec(d, s.codec) => CodecScore(s, d) <= -50
  BY DEF CodecScore, device_supports_codec
<1>8. quality_score(s, d) = HeightScore(s, d) + U * rest
  BY DEF quality_score
<1> HIDE DEF U, hls, late
<1> QED
  BY <1>2, <1>3, <1>4, <1>6, <1>7, <1>8 DEF U, hls, late

\* Multiples of a unit are ordered as their factors.
LEMMA UnitsAdd ==
  ASSUME NEW U \in Nat, NEW a \in Int, NEW b \in Int, a <= b
  PROVE  U * a \in Int /\ U * b \in Int /\ U * a <= U * b
  BY Z3

\* What the device cannot decode scores less than what it can play.
LEMMA PlayableFirst ==
  ASSUME NEW d \in AnyDevice, NEW s, s.height \in Nat, NEW t, t.height \in Nat
  PROVE  /\ quality_score(s, d) \in Int
         /\ Fits(s, d) /\ device_supports_codec(d, s.codec) /\ ~device_supports_codec(d, t.codec)
              => quality_score(t, d) < quality_score(s, d)
<1> DEFINE U == ScoreUnit(d)
           rest(x) == CodecScore(x, d) + (IF x.container = "hls" THEN 5 ELSE 0) + LatencyScore(x.latency)
<1>1. /\ U \in Nat /\ U >= 1 /\ rest(s) \in Int /\ HeightScore(s, d) \in Int
      /\ quality_score(s, d) = HeightScore(s, d) + U * rest(s)
      /\ Fits(s, d) => HeightScore(s, d) >= 0
      /\ device_supports_codec(d, s.codec) => rest(s) >= 15
  BY ScoreParts
<1>2. /\ rest(t) \in Int /\ HeightScore(t, d) \in Int
      /\ quality_score(t, d) = HeightScore(t, d) + U * rest(t)
      /\ HeightScore(t, d) <= 40 * U
      /\ ~device_supports_codec(d, t.codec) => rest(t) <= -35
  BY ScoreParts
<1> HIDE DEF U, rest
<1>3. quality_score(s, d) \in Int
  BY <1>1, UnitsAdd
<1>4. ASSUME Fits(s, d), device_supports_codec(d, s.codec), ~device_supports_codec(d, t.codec)
      PROVE  quality_score(t, d) < quality_score(s, d)
  <2>1. U * 15 \in Int /\ U * rest(s) \in Int /\ U * 15 <= U * rest(s)
    BY <1>1, <1>4, UnitsAdd
  <2>2. U * (-35) \in Int /\ U * rest(t) \in Int /\ U * rest(t) <= U * (-35)
    BY <1>1, <1>2, <1>4, UnitsAdd
  <2> DEFINE p == U * rest(s)
             n == U * rest(t)
  <2>3. p \in Int /\ n \in Int /\ p >= 15 * U /\ n <= -35 * U
    BY <1>1, <2>1, <2>2
  <2> HIDE DEF p, n
  <2>4. HeightScore(s, d) >= 0 /\ HeightScore(t, d) <= 40 * U
    BY <1>1, <1>2, <1>4
  <2>5. HeightScore(t, d) + n < HeightScore(s, d) + p
    BY <1>1, <1>2, <2>3, <2>4
  <2> QED
    BY <1>1, <1>2, <2>5 DEF p, n
<1> QED
  BY <1>3, <1>4

(* For any sources of any providers, any device and any blocklist,            *)
(* rank_sources (select.rs) offers each URL that is not blocked once, keeps   *)
(* the providers in their order, and of one provider offers nothing the      *)
(* device cannot decode before what it can play.                             *)
THEOREM SourcesKept == \A q \in SourceRequests : SourcesOrdered(q)
<1> SUFFICES ASSUME NEW q \in SourceRequests
             PROVE  SourcesOrdered(q)
  OBVIOUS
<1> DEFINE d == q.device
           N == Len(q.sources)
           sources == [i \in DOMAIN q.sources |-> from_legacy(q.sources[i])]
           kept == {i \in DOMAIN sources : sources[i].url \notin q.blocklist \union {""}}
           ranks == [i \in kept |-> sources[i].provider_rank]
           scores == [i \in kept |-> -quality_score(sources[i], d)]
           tie == Keyed(kept, scores, Less(kept))
           below == Keyed(kept, ranks, tie)
           order == InOrder(kept, below)
           scored == [n \in DOMAIN order |-> sources[order[n]]]
           firsts == {n \in DOMAIN scored : \A m \in 1..(n - 1) : scored[m].url # scored[n].url}
           all == rank_sources(sources, d, q.blocklist)
           K == Cardinality(kept)
<1>1. d \in AnyDevice /\ N \in Nat /\ DOMAIN sources = 1..N
  BY DEF SourceRequests
<1>2. \A i \in 1..N : sources[i].provider_rank \in Int /\ sources[i].height \in Nat
  <2> SUFFICES ASSUME NEW i \in 1..N PROVE sources[i].provider_rank \in Int /\ sources[i].height \in Nat
    OBVIOUS
  <2>1. q.sources[i] \in LegacySources
    BY DEF SourceRequests
  <2>2. /\ sources[i].provider_rank = q.sources[i].rank
        /\ sources[i].height = infer_height(q.sources[i].says)
    BY <1>1 DEF from_legacy
  <2>3. q.sources[i].rank \in Nat
    BY <2>1 DEF LegacySources
  <2> QED
    BY <2>2, <2>3, HeightIsNat
<1>3. all = Picked(scored, firsts)
  BY DEF rank_sources
<1> HIDE DEF sources, all
<1>4. kept \in SUBSET (1..N) /\ IsFiniteSet(kept) /\ kept \in SUBSET Int
  <2>1. kept \in SUBSET (1..N)
    BY <1>1
  <2>2. IsFiniteSet(1..N) /\ 1..N \in SUBSET Int
    BY <1>1, FS_Interval
  <2> HIDE DEF kept
  <2> QED
    BY <2>1, <2>2, FS_Subset
<1>6. \A i \in kept : sources[i].url \notin q.blocklist \union {""}
  OBVIOUS
<1>7. \A i \in 1..N : sources[i].url \notin q.blocklist \union {""} => i \in kept
  BY <1>1
<1> HIDE DEF kept
<1>5. /\ \A i \in kept : ranks[i] = sources[i].provider_rank /\ ranks[i] \in Int
      /\ \A i \in kept : scores[i] = -quality_score(sources[i], d) /\ scores[i] \in Int
  <2> SUFFICES ASSUME NEW i \in kept
               PROVE  /\ ranks[i] = sources[i].provider_rank /\ ranks[i] \in Int
                      /\ scores[i] = -quality_score(sources[i], d) /\ scores[i] \in Int
    OBVIOUS
  <2>1. sources[i].provider_rank \in Int /\ sources[i].height \in Nat
    BY <1>2, <1>4
  <2>2. quality_score(sources[i], d) \in Int
    BY <1>1, <2>1, PlayableFirst
  <2> QED
    BY <2>1, <2>2
<1> HIDE DEF ranks, scores
<1>8. IsOrder(kept, Less(kept))
  BY <1>4, LessIsOrder
<1>9. /\ IsOrder(kept, tie)
      /\ \A i, j \in kept : j \in tie[i] <=> scores[j] < scores[i] \/ (scores[j] = scores[i] /\ j \in Less(kept)[i])
  BY <1>5, <1>8, KeyedIsOrder
<1> HIDE DEF tie
<1>10. /\ IsOrder(kept, below)
       /\ \A i, j \in kept : j \in below[i] <=> ranks[j] < ranks[i] \/ (ranks[j] = ranks[i] /\ j \in tie[i])
  BY <1>5, <1>9, KeyedIsOrder
<1> HIDE DEF below
<1>11. /\ K \in Nat /\ order \in [1..K -> kept]
       /\ \A i \in kept : \E n \in 1..K : order[n] = i
       /\ \A m, n \in 1..K : m < n <=> order[m] \in below[order[n]]
  <2>1. /\ K \in Nat /\ order \in [1..K -> kept]
        /\ \A i \in kept : Cardinality(below[i]) + 1 \in 1..K /\ order[Cardinality(below[i]) + 1] = i
        /\ \A m, n \in 1..K : m < n <=> order[m] \in below[order[n]]
    BY <1>4, <1>10, InOrderIs
  <2> HIDE DEF order, K
  <2> QED
    BY <2>1
<1> HIDE DEF order, K
<1> DEFINE T == {sources[i] : i \in kept}
<1>12. /\ scored \in Seq(T) /\ Len(scored) = K
       /\ \A n \in 1..K : scored[n] = sources[order[n]] /\ order[n] \in kept
  BY <1>11
<1>13. /\ firsts \in SUBSET (1..Len(scored))
       /\ \A n \in 1..K : n \in firsts <=> \A m \in 1..(n - 1) : scored[m].url # scored[n].url
  <2>1. DOMAIN scored = 1..K /\ 1..Len(scored) = 1..K
    BY <1>12
  <2> HIDE DEF scored
  <2> QED
    BY <2>1
<1> HIDE DEF scored, firsts, T
<1> DEFINE u == Upwards(firsts)
           L == Cardinality(firsts)
<1>14. /\ L \in Nat /\ all \in Seq(T) /\ Len(all) = L
       /\ u \in [1..L -> firsts]
       /\ \A n \in 1..L : all[n] = scored[u[n]]
       /\ \A i \in firsts : \E n \in 1..L : u[n] = i
       /\ \A m, n \in 1..L : m < n <=> u[m] < u[n]
  BY <1>3, <1>12, <1>13, PickedIs
<1> HIDE DEF u, L
<1>15. \A n \in 1..L : u[n] \in firsts /\ u[n] \in 1..K /\ all[n] = scored[u[n]]
  BY <1>12, <1>13, <1>14
<1>16. {s.url : s \in Range(all)} = {s.url : s \in Range(sources)} \ (q.blocklist \union {""})
  <2>1. ASSUME NEW n \in 1..L
        PROVE  \E i \in 1..N : all[n].url = sources[i].url /\ sources[i].url \notin q.blocklist \union {""}
    <3> DEFINE i == order[u[n]]
    <3>1. i \in kept /\ all[n] = sources[i]
      BY <1>12, <1>15
    <3> HIDE DEF i
    <3> QED
      BY <1>4, <1>6, <3>1
  <2>2. ASSUME NEW i \in kept
        PROVE  \E n \in 1..L : all[n].url = sources[i].url
    <3> DEFINE same == {n \in 1..K : scored[n].url = sources[i].url}
    <3>1. PICK n \in 1..K : order[n] = i
      BY <1>11
    <3>2. n \in same
      BY <1>12, <3>1
    <3>3. same \in SUBSET (1..K)
      OBVIOUS
    <3>4. IsFiniteSet(1..K) /\ 1..K \in SUBSET Int
      BY <1>11, FS_Interval
    <3>5. same \in SUBSET Int /\ IsFiniteSet(same) /\ same # {}
      <4> HIDE DEF same
      <4> QED
        BY <3>2, <3>3, <3>4, FS_Subset
    <3>6. PICK m \in same : \A k \in same : m <= k
      BY <3>5, LeastOf
    <3>7. m \in 1..K /\ scored[m].url = sources[i].url
      OBVIOUS
    <3>8. \A k \in 1..(m - 1) : k \in 1..K /\ k \notin same
      BY <1>11, <3>6, <3>7
    <3>9. m \in firsts
      BY <1>13, <3>7, <3>8
    <3>10. PICK k \in 1..L : u[k] = m
      BY <1>14, <3>9
    <3> QED
      BY <1>15, <3>7, <3>10
  <2>3. Range(all) = {all[n] : n \in 1..L}
    BY <1>14 DEF Range
  <2>4. Range(sources) = {sources[i] : i \in 1..N}
    BY <1>1 DEF Range
  <2> DEFINE Given == {s.url : s \in Range(sources)} \ (q.blocklist \union {""})
             Offered == {s.url : s \in Range(all)}
  <2>5. ASSUME NEW x \in Offered
        PROVE  x \in Given
    <3>1. PICK n \in 1..L : x = all[n].url
      BY <2>3
    <3>2. PICK i \in 1..N : all[n].url = sources[i].url /\ sources[i].url \notin q.blocklist \union {""}
      BY <2>1
    <3>3. sources[i] \in Range(sources)
      BY <2>4
    <3> QED
      BY <3>1, <3>2, <3>3
  <2>6. ASSUME NEW x \in Given
        PROVE  x \in Offered
    <3>1. PICK i \in 1..N : x = sources[i].url
      BY <2>4
    <3>2. i \in kept
      BY <1>7, <3>1
    <3>3. PICK n \in 1..L : all[n].url = sources[i].url
      BY <2>2, <3>2
    <3>4. all[n] \in Range(all)
      BY <2>3
    <3> QED
      BY <3>1, <3>3, <3>4
  <2> HIDE DEF Given, Offered
  <2>7. Offered = Given
    BY <2>5, <2>6
  <2> QED
    BY <2>7 DEF Given, Offered
<1>17. ASSUME NEW i \in 1..L, NEW j \in 1..L, i < j
       PROVE  /\ all[i].url # all[j].url
              /\ all[i].provider_rank <= all[j].provider_rank
              /\ /\ all[i].provider_rank = all[j].provider_rank
                 /\ Fits(all[j], d) /\ device_supports_codec(d, all[j].codec)
                 => device_supports_codec(d, all[i].codec)
  <2> DEFINE a == order[u[i]]
             b == order[u[j]]
  <2>1. u[i] < u[j] /\ u[i] \in 1..K /\ u[j] \in 1..K
    BY <1>14, <1>15, <1>17
  <2>2. a \in kept /\ b \in kept /\ all[i] = sources[a] /\ all[j] = sources[b]
    BY <1>12, <1>15
  <2>3. all[i].url # all[j].url
    <3>1. u[i] \in 1..(u[j] - 1) /\ u[j] \in firsts
      BY <1>11, <1>15, <2>1
    <3> QED
      BY <1>13, <1>15, <2>1, <3>1
  <2>4. a \in below[b]
    BY <1>11, <2>1
  <2> HIDE DEF a, b
  <2>5. ranks[a] < ranks[b] \/ (ranks[a] = ranks[b] /\ a \in tie[b])
    BY <1>10, <2>2, <2>4
  <2>6. a \in tie[b] => scores[a] <= scores[b]
    BY <1>5, <1>9, <2>2
  <2>7. sources[a].height \in Nat /\ sources[b].height \in Nat
    BY <1>2, <1>4, <2>2
  <2>8. /\ quality_score(sources[a], d) \in Int /\ quality_score(sources[b], d) \in Int
        /\ /\ Fits(sources[b], d) /\ device_supports_codec(d, sources[b].codec)
           /\ ~device_supports_codec(d, sources[a].codec)
           => quality_score(sources[a], d) < quality_score(sources[b], d)
    BY <1>1, <2>7, PlayableFirst
  <2>9. sources[a].provider_rank <= sources[b].provider_rank
    BY <1>5, <2>2, <2>5
  <2>10. ASSUME sources[a].provider_rank = sources[b].provider_rank
         PROVE  ~(quality_score(sources[a], d) < quality_score(sources[b], d))
    <3>1. ranks[a] = ranks[b] /\ ranks[a] \in Int
      BY <1>5, <2>2, <2>10
    <3>2. scores[a] <= scores[b]
      BY <2>5, <2>6, <3>1
    <3> QED
      BY <1>5, <2>2, <2>8, <3>2
  <2> QED
    BY <2>2, <2>3, <2>8, <2>9, <2>10
<1> DEFINE plays(s) == Fits(s, d) /\ device_supports_codec(d, s.codec)
<1>18. \A i, j \in DOMAIN all : i < j =>
          /\ all[i].url # all[j].url
          /\ all[i].provider_rank <= all[j].provider_rank
          /\ all[i].provider_rank = all[j].provider_rank /\ plays(all[j])
               => device_supports_codec(d, all[i].codec)
  <2>1. DOMAIN all = 1..L
    BY <1>14
  <2> QED
    BY <1>17, <2>1
<1> HIDE DEF N, plays, d
<1>19. SourcesOrdered(q) <=> /\ {s.url : s \in Range(all)} = {s.url : s \in Range(sources)} \ (q.blocklist \union {""})
                             /\ \A i, j \in DOMAIN all : i < j =>
                                  /\ all[i].url # all[j].url
                                  /\ all[i].provider_rank <= all[j].provider_rank
                                  /\ all[i].provider_rank = all[j].provider_rank /\ plays(all[j])
                                       => device_supports_codec(d, all[i].codec)
  BY DEF SourcesOrdered, sources, all, plays, d
<1> QED
  BY <1>16, <1>18, <1>19

\* What OrdersKept asks of the request of the run, asked of every request.
THEOREM Ranked ==
  ASSUME asked.what = "order" => asked.q \in ProviderRequests,
         asked.what = "rank" => asked.q \in SourceRequests
  PROVE  OrdersKept
  BY ProvidersKept, SourcesKept DEF OrdersKept

=============================================================================
