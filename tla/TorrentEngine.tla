---------------------------- MODULE TorrentEngine ----------------------------
(***************************************************************************)
(* crates/torrent: the one active slot of the engine, the swarms of its    *)
(* librqbit session and the files they leave on disk; and crates/lan's     *)
(* lease, which ties a TV's open to its swarm, with the idle watch.        *)
(*                                                                         *)
(* A swarm is named by the id the session gives it; ids are not reused.    *)
(* The steps of an open are the stretches between its awaits.  Peers,      *)
(* bytes, the file picked inside a torrent and the head-wait progress are  *)
(* abstracted to "this await succeeds or fails".                           *)
(***************************************************************************)
EXTENDS Integers, FiniteSets

CONSTANTS Hashes,   \* info hashes of the magnets in use
          Forms,    \* how a magnet spells its hash: "hex" (40 digits), "base32"
          Openers,  \* concurrent callers of stream_magnet and list_files
          TVs,      \* paired devices that open over LAN
          Host,     \* the desktop itself
          NoLease,  \* the empty lease store
          MaxIds,   \* bound: swarms registered over the whole run
          MaxOpens  \* bound: calls of stream_magnet and list_files

ASSUME TorrentConstants == /\ Openers # {} /\ Host \notin TVs /\ 0 \notin Hashes /\ Forms \subseteq {"hex", "base32"}
                           /\ MaxIds \in Nat /\ MaxOpens \in Nat

Ids == 1..MaxIds

VARIABLES
  up,        \* session, api and HTTP port are there (start_engine .. stop_engine)
  swarm,     \* swarm[i]: "none", "live" (downloading) or "paused" in the session
  hashOf,    \* hashOf[i]: the info hash of swarm i
  disk,      \* the swarms whose file is in the download directory
  active,    \* EngineInner.active: a swarm id, 0 for None
  op,        \* op[o]: the call opener o is in
  opens,     \* calls so far
  lease,     \* LanTorrentLeaseStore
  watch,     \* the idle watch: "sleep", or the engine call it awaits
  away,      \* the TVs not seen for DEVICE_IDLE_SECS
  history,   \* TorrentHistory: the hashes with a row
  clearing,  \* clear_all_downloads has deleted the swarms, not yet the slot
  playing,   \* ghost: the swarm behind the URL handed out last, 0 once it was stopped
  odd        \* ghost: something has happened that the code gives no promise about

engineVars == <<up, swarm, hashOf, disk, active>>
lanVars == <<lease, watch, away, history>>
ghosts == <<playing, odd>>
torrentVars == <<engineVars, op, opens, lanVars, clearing, ghosts>>

InSession == {i \in Ids : swarm[i] # "none"}
NextId == Cardinality({i \in Ids : hashOf[i] # 0}) + 1
IdOf(h) == IF \E i \in InSession : hashOf[i] = h
           THEN CHOOSE i \in InSession : hashOf[i] = h ELSE 0

IdleOp == [pc |-> "idle", kind |-> "stream", hash |-> 0, form |-> "hex", dev |-> Host,
           prev |-> 0, id |-> 0, owned |-> FALSE, src |-> "magnet"]
NoOpInFlight == \A o \in Openers : op[o].pc = "idle"

(* The engine is not in the call: there is none, or its stream was handed    *)
(* out and only the LAN handler has something left to note.                  *)
Resting(c) == c.pc \in {"idle", "record"}
Overlaps(o) == \E p \in Openers \ {o} : ~Resting(op[p])

\* A call by o of a magnet with form f, here, is one the code promises nothing about.
OddCall(o, f) == f = "base32" \/ clearing \/ Overlaps(o)

TorrentInit ==
  /\ up = FALSE /\ swarm = [i \in Ids |-> "none"] /\ hashOf = [i \in Ids |-> 0]
  /\ disk = {} /\ active = 0 /\ op = [o \in Openers |-> IdleOp] /\ opens = 0
  /\ lease = NoLease /\ watch = [act |-> "sleep", hash |-> 0, row |-> FALSE]
  /\ away = {} /\ history = {} /\ clearing = FALSE /\ playing = 0 /\ odd = FALSE

-----------------------------------------------------------------------------
(* Engine start and stop *)

start_engine ==
  /\ ~up /\ InSession = {}   \* bound: a restart waits for the calls of the old session
  /\ up' = TRUE
  /\ UNCHANGED <<swarm, hashOf, disk, active, op, opens, lanVars, clearing, ghosts>>

pause_torrent(s, i) == [j \in Ids |-> IF j = i /\ s[j] = "live" THEN "paused" ELSE s[j]]
delete_torrent_files(i) == /\ swarm' = [j \in Ids |-> IF j = i THEN "none" ELSE swarm[j]]
                           /\ disk' = disk \ {i}

(* reclaim_disk_cache evicts files of any idle swarm until the budget fits: *)
(* which ones is left open, the active swarm's are protected.               *)
(* forget_evicted then drops the swarms whose file is gone.                 *)
reclaim_and_forget_evicted(s, act) ==
  \E evicted \in SUBSET (disk \ {act}) :
    /\ disk' = disk \ evicted
    /\ swarm' = [j \in Ids |-> IF j # act /\ j \notin disk' THEN "none" ELSE s[j]]

reclaim_disk_cache ==
  /\ up /\ reclaim_and_forget_evicted(swarm, active)
  /\ UNCHANGED <<up, hashOf, active, op, opens, lanVars, clearing, ghosts>>

StopActive == /\ active' = 0
              /\ reclaim_and_forget_evicted(pause_torrent(swarm, active), 0)

stop_async ==
  /\ up /\ StopActive /\ playing' = 0
  /\ UNCHANGED <<up, hashOf, op, opens, lanVars, clearing, odd>>

stop_engine ==
  /\ up /\ up' = FALSE /\ StopActive /\ playing' = 0
  /\ UNCHANGED <<hashOf, op, opens, lanVars, clearing, odd>>

(* The session lives until the last call that cloned it returns. *)
DropSession ==
  /\ ~up /\ NoOpInFlight /\ InSession # {}
  /\ swarm' = [i \in Ids |-> "none"]
  /\ UNCHANGED <<up, hashOf, disk, active, op, opens, lanVars, clearing, ghosts>>

stop_torrent_async(i) ==
  LET act == IF i = active THEN 0 ELSE active IN
  /\ up /\ i \in InSession /\ active' = act
  /\ reclaim_and_forget_evicted(pause_torrent(swarm, i), act)
  /\ playing' = IF playing = i THEN 0 ELSE playing
  /\ UNCHANGED <<up, hashOf, op, opens, lanVars, clearing, odd>>

remove_torrent_async(i) ==
  LET act == IF i = active THEN 0 ELSE active IN
  /\ up /\ i \in InSession /\ active' = act
  /\ \E evicted \in SUBSET (disk \ {act, i}) :
       /\ disk' = disk \ (evicted \cup {i})
       /\ swarm' = [j \in Ids |-> IF j = i \/ (j # act /\ j \notin disk')
                                  THEN "none" ELSE swarm[j]]
  /\ playing' = IF playing = i THEN 0 ELSE playing
  /\ UNCHANGED <<up, hashOf, op, opens, lanVars, clearing, odd>>

(* clear_all_downloads deletes the swarms it listed, then clears the slot. *)
ClearSwarms ==
  /\ up /\ ~clearing /\ clearing' = TRUE
  /\ swarm' = [i \in Ids |-> "none"] /\ disk' = disk \ InSession /\ playing' = 0
  /\ odd' = (odd \/ ~NoOpInFlight)
  /\ UNCHANGED <<up, hashOf, active, op, opens, lanVars>>

ClearSlot ==
  /\ clearing /\ clearing' = FALSE /\ active' = 0 /\ disk' = {}
  /\ odd' = (odd \/ ~NoOpInFlight)
  /\ UNCHANGED <<up, swarm, hashOf, op, opens, lanVars, playing>>

-----------------------------------------------------------------------------
(* One call of stream_magnet or list_files *)

OpenAt(o, pc) == op' = [op EXCEPT ![o].pc = pc]
OpenReturns(o) == op' = [op EXCEPT ![o] = IdleOp]
EngineStays == UNCHANGED <<up, hashOf, opens, lanVars, clearing>>

(* The slot the switch goes back to if it fails: none when the magnet spells *)
(* the hash of the swarm that is active.                                     *)
previous(h, f) == IF active # 0 /\ f = "hex" /\ hashOf[active] = h THEN 0 ELSE active

stream_magnet(o, h, f, d) ==
  /\ up /\ op[o].pc = "idle" /\ opens < MaxOpens /\ d \notin away
  /\ opens' = opens + 1
  /\ op' = [op EXCEPT ![o] = [IdleOp EXCEPT !.pc = "add", !.hash = h, !.form = f, !.dev = d,
              !.prev = previous(h, f), !.src = IF f = "hex" THEN "cache" ELSE "magnet"]]
  /\ odd' = (odd \/ OddCall(o, f))
  /\ UNCHANGED <<engineVars, lanVars, clearing, playing>>

list_files(o, h) ==
  /\ up /\ op[o].pc = "idle" /\ opens < MaxOpens
  /\ opens' = opens + 1
  /\ op' = [op EXCEPT ![o] = [IdleOp EXCEPT !.pc = "add", !.kind = "list", !.hash = h,
                                            !.src = "cache"]]
  /\ odd' = (odd \/ OddCall(o, "hex"))
  /\ UNCHANGED <<engineVars, lanVars, clearing, playing>>

(* session.add_torrent: AlreadyManaged, or Added under the next id. *)
AddTorrent(h, i) ==
  IF IdOf(h) # 0 THEN i = IdOf(h) /\ UNCHANGED <<swarm, hashOf, disk>>
  ELSE /\ NextId \in Ids /\ i = NextId
       /\ swarm' = [swarm EXCEPT ![i] = "live"] /\ hashOf' = [hashOf EXCEPT ![i] = h]
       /\ disk' = disk \cup {i}

(* The metadata cache is asked first and may answer with another torrent. *)
AddDone(o) ==
  /\ op[o].pc = "add"
  /\ \E g \in Hashes, i \in Ids :
       /\ g = op[o].hash \/ op[o].src = "cache"
       /\ AddTorrent(g, i)
       /\ op' = [op EXCEPT ![o].pc = "init", ![o].id = i, ![o].owned = (active = i)]
       /\ odd' = (odd \/ (g # op[o].hash /\ active = i))
  /\ UNCHANGED <<up, active, opens, lanVars, clearing, playing>>

(* A failed attempt on the cache is followed by one on the magnet itself. *)
AttemptFails(o) == IF op[o].src = "cache"
                   THEN op' = [op EXCEPT ![o].pc = "add", ![o].src = "magnet", ![o].id = 0,
                                         ![o].owned = FALSE]
                   ELSE OpenReturns(o)

discard_unowned_by_hash(o, i) ==
  IF op[o].form = "hex" /\ i # 0 /\ i # active
  THEN delete_torrent_files(i) ELSE UNCHANGED <<swarm, disk>>

(* Cancelled, timed out or refused before the session registered anything. *)
AddFails(o) ==
  /\ op[o].pc = "add" /\ AttemptFails(o)
  /\ \/ UNCHANGED <<swarm, disk>>
     \/ discard_unowned_by_hash(o, IdOf(op[o].hash))
  /\ UNCHANGED <<active, ghosts>> /\ EngineStays

(* ... or after: the swarm is in the session and downloads. *)
AddFailsLate(o) ==
  /\ op[o].pc = "add" /\ IdOf(op[o].hash) = 0 /\ NextId \in Ids /\ AttemptFails(o)
  /\ hashOf' = [hashOf EXCEPT ![NextId] = op[o].hash]
  /\ IF op[o].form = "hex" THEN UNCHANGED <<swarm, disk>>
     ELSE swarm' = [swarm EXCEPT ![NextId] = "live"] /\ disk' = disk \cup {NextId}
  /\ UNCHANGED <<up, active, opens, lanVars, clearing, ghosts>>

Resumed(i) == IF up THEN [swarm EXCEPT ![i] = "live"] ELSE swarm
HashMatches(o) == op[o].form = "base32" \/ hashOf[op[o].id] = op[o].hash

(* finish_prepare publishes the swarm as the active one. *)
finish_prepare(o) ==
  LET i == op[o].id IN
  /\ op[o].pc = "init" /\ i \in InSession /\ HashMatches(o)
  /\ swarm' = Resumed(i) /\ active' = i
  /\ IF op[o].kind = "list" THEN OpenReturns(o) /\ odd' = TRUE
     ELSE /\ op' = [op EXCEPT ![o].pc = "select", ![o].src = "magnet", ![o].owned = FALSE]
          /\ odd' = odd
  /\ UNCHANGED <<disk, playing>> /\ EngineStays

FinishFails(o) ==
  LET i == op[o].id IN
  /\ op[o].pc = "init" /\ AttemptFails(o)
  /\ IF ~op[o].owned THEN delete_torrent_files(i)
     ELSE swarm' \in {swarm, IF i \in InSession /\ ~HashMatches(o) THEN Resumed(i) ELSE swarm}
          /\ disk' = disk
  /\ UNCHANGED <<active, ghosts>> /\ EngineStays

(* select_file_index, update_only_files, wait_for_stream_head, then the last *)
(* look at the cancel flag.                                                  *)
SelectFile(o) ==
  /\ op[o].pc = "select"
  /\ \/ ~up /\ OpenReturns(o)
     \/ up /\ op[o].id \in InSession /\ OpenAt(o, "head")
     \/ up /\ OpenAt(o, "restore")
  /\ UNCHANGED <<engineVars, opens, lanVars, clearing, ghosts>>

wait_for_stream_head(o) ==
  /\ op[o].pc = "head"
  /\ \/ op[o].id \in InSession /\ OpenAt(o, "ready")
     \/ OpenAt(o, "restore")
  /\ UNCHANGED <<engineVars, opens, lanVars, clearing, ghosts>>

\* The swarm switched from is deleted, not the one that failed.
RestoreDeletesPrevious(o) ==
  /\ op[o].pc = "restore" /\ active' = op[o].prev /\ OpenReturns(o)
  /\ IF op[o].prev # 0 THEN delete_torrent_files(op[o].prev) ELSE UNCHANGED <<swarm, disk>>
  /\ UNCHANGED ghosts /\ EngineStays

restore_active_after_failed_switch(o) ==
  \/ /\ op[o].pc = "restore" /\ delete_torrent_files(op[o].id) /\ OpenAt(o, "restored")
     /\ UNCHANGED <<active, ghosts>> /\ EngineStays
  \/ /\ op[o].pc = "restored" /\ active' = op[o].prev /\ OpenReturns(o)
     /\ UNCHANGED <<swarm, disk, ghosts>> /\ EngineStays

\* The previous swarm goes on downloading.
ReadyKeepsPrevious(o) ==
  /\ op[o].pc = "ready" /\ playing' = IF active = op[o].id THEN active ELSE 0
  /\ reclaim_and_forget_evicted(swarm, active)
  /\ IF op[o].dev = Host THEN OpenReturns(o) ELSE OpenAt(o, "record")
  /\ UNCHANGED <<active, odd>> /\ EngineStays

StreamReady(o) ==
  /\ op[o].pc = "ready" /\ playing' = IF active = op[o].id THEN active ELSE 0
  /\ reclaim_and_forget_evicted(IF up THEN pause_torrent(swarm, op[o].prev) ELSE swarm, active)
  /\ IF op[o].dev = Host THEN OpenReturns(o) ELSE OpenAt(o, "record")
  /\ UNCHANGED <<active, odd>> /\ EngineStays

-----------------------------------------------------------------------------
(* LAN: /open records the lease, /close stops, the idle watch looks after it *)

record_torrent_open(o) ==
  /\ op[o].pc = "record" /\ OpenReturns(o)
  /\ lease' = [dev |-> op[o].dev, hash |-> hashOf[op[o].id], paused |-> FALSE, old |-> FALSE]
  /\ history' = history \cup {hashOf[op[o].id]}
  /\ UNCHANGED <<engineVars, opens, watch, away, clearing, ghosts>>

HasStatus == up /\ active \in InSession

(* Only two distinct hex hashes make /close leave the swarm alone. *)
close_handler(d, want, f) ==
  /\ d \notin away /\ HasStatus /\ (f = "hex" => hashOf[active] = want)
  /\ StopActive /\ lease' = NoLease /\ playing' = 0
  /\ UNCHANGED <<up, hashOf, op, opens, watch, away, history, clearing, odd>>

Idle == lease.dev \in away

tick_idle_watch ==
  /\ lease # NoLease /\ watch.act = "sleep"
  /\ IF ~HasStatus \/ hashOf[active] # lease.hash
     THEN lease' = NoLease /\ UNCHANGED <<watch, history>>
     ELSE /\ lease' = lease
          /\ \/ ~Idle /\ lease.paused /\ watch' = [watch EXCEPT !.act = "unpause"]
                /\ history' = history
             \/ Idle /\ ~lease.paused /\ watch' = [watch EXCEPT !.act = "pause"]
                /\ history' = history
             \/ Idle /\ lease.paused /\ lease.old
                /\ watch' = [act |-> "clean", hash |-> lease.hash, row |-> lease.hash \in history]
                /\ history' = history \ {lease.hash}
  /\ UNCHANGED <<engineVars, op, opens, away, clearing, ghosts>>

\* The tick forgets that it paused.
ForgetPause(p) == lease' = lease

set_idle_paused_at(p) ==
  lease' = IF lease = NoLease THEN NoLease ELSE [lease EXCEPT !.paused = p, !.old = FALSE]

(* The engine call the tick awaits acts on whatever swarm is active by then. *)
WatchActs ==
  /\ watch.act \in {"pause", "unpause"}
  /\ watch' = [watch EXCEPT !.act = "sleep"]
  /\ swarm' = IF ~HasStatus THEN swarm
              ELSE [swarm EXCEPT ![active] = IF watch.act = "pause" THEN "paused" ELSE "live"]
  /\ set_idle_paused_at(watch.act = "pause")
  /\ UNCHANGED <<up, hashOf, disk, active, op, opens, away, history, clearing, ghosts>>

clean_lease_torrent ==
  /\ watch.act = "clean" /\ watch' = [act |-> "sleep", hash |-> 0, row |-> FALSE]
  /\ active' = 0 /\ lease' = NoLease /\ playing' = 0
  /\ LET gone == IF watch.row THEN {i \in Ids : hashOf[i] = watch.hash} ELSE {} IN
       \E evicted \in SUBSET disk :
         /\ disk' = disk \ (evicted \cup gone)
         /\ swarm' = [j \in Ids |-> IF j \in evicted \/ j \notin disk THEN "none"
                                    ELSE pause_torrent(swarm, active)[j]]
  /\ UNCHANGED <<up, hashOf, op, opens, away, history, clearing, odd>>

(* The environment: a TV stops or resumes sending requests, time passes. *)
Leave(d) == /\ d \notin away /\ away' = away \cup {d}
            /\ UNCHANGED <<engineVars, op, opens, lease, watch, history, clearing, ghosts>>
ComeBack(d) == /\ d \in away /\ away' = away \ {d}
               /\ UNCHANGED <<engineVars, op, opens, lease, watch, history, clearing, ghosts>>
GracePasses == /\ lease # NoLease /\ lease.paused /\ ~lease.old
               /\ lease' = [lease EXCEPT !.old = TRUE]
               /\ UNCHANGED <<engineVars, op, opens, watch, away, history, clearing, ghosts>>

-----------------------------------------------------------------------------
OpenStep(o) ==
  \/ AddDone(o) \/ AddFails(o) \/ AddFailsLate(o) \/ finish_prepare(o) \/ FinishFails(o)
  \/ SelectFile(o) \/ wait_for_stream_head(o) \/ restore_active_after_failed_switch(o)
  \/ StreamReady(o) \/ record_torrent_open(o)

TorrentNext ==
  \/ start_engine \/ stop_engine \/ DropSession \/ stop_async \/ reclaim_disk_cache
  \/ ClearSwarms \/ ClearSlot
  \/ \E i \in Ids : stop_torrent_async(i) \/ remove_torrent_async(i)
  \/ \E o \in Openers, h \in Hashes : list_files(o, h)
  \/ \E o \in Openers, h \in Hashes, f \in Forms, d \in TVs \cup {Host} : stream_magnet(o, h, f, d)
  \/ \E o \in Openers : OpenStep(o)
  \/ \E d \in TVs, h \in Hashes, f \in Forms : close_handler(d, h, f)
  \/ tick_idle_watch \/ WatchActs \/ clean_lease_torrent
  \/ \E d \in TVs : Leave(d) \/ ComeBack(d)
  \/ GracePasses

(* The watch runs every WATCH_INTERVAL and its engine calls return; the      *)
(* clock advances.                                                           *)
TorrentFairness ==
  /\ WF_torrentVars(tick_idle_watch) /\ WF_torrentVars(WatchActs)
  /\ WF_torrentVars(clean_lease_torrent) /\ WF_torrentVars(GracePasses)

TorrentSpec == TorrentInit /\ [][TorrentNext]_torrentVars /\ TorrentFairness

-----------------------------------------------------------------------------
(* Properties *)

(* Between calls nothing downloads but the active swarm: an abandoned,      *)
(* cancelled or failed open leaves no swarm running (lib.rs: "drop it so it *)
(* does not keep downloading unowned"), whatever stops, removals, idle      *)
(* pauses and reclaims ran in between.  Not promised once a call overlapped *)
(* another in the engine, a listing took the slot, a base32 magnet was      *)
(* opened, a clear overlapped an open, or the metadata cache answered with  *)
(* the active torrent for another hash.                                     *)
OnlyActiveDownloads ==
  (up /\ NoOpInFlight /\ ~odd) => \A i \in Ids : swarm[i] = "live" => i = active

(* A switch to another torrent never takes the swarm behind the player's    *)
(* URL out of the session before its own stream is ready: not on a failed   *)
(* add, a cancelled wait, wrong metadata or the restore.  Only an open of   *)
(* the torrent being played does, when it fails after its prepare.  Under   *)
(* the same conditions as above: of two overlapping opens, one may delete   *)
(* the swarm that the other's previous slot points at.                      *)
SwitchSparesPlayed ==
  [][\A o \in Openers :
       (/\ playing # 0 /\ swarm[playing] # "none" /\ swarm'[playing] = "none"
        /\ op'[o] # op[o] /\ ~odd /\ playing' = playing)
       => op[o].pc = "restore" /\ op[o].hash = hashOf[playing]]_torrentVars

(* No open takes the swarm behind the player's URL out of the session before *)
(* its stream is ready: prepare_add says that the old stream stays alive     *)
(* "until [Self::stream_magnet] confirms the new file head" (lib.rs:759).    *)
(* The code deletes it when another file of that torrent is opened and fails *)
(* after its prepare: stream_magnet has no previous slot then (lib.rs:525),  *)
(* and restore_active_after_failed_switch deletes the id it prepared.        *)
PlayedUntilHead ==
  [][\A o \in Openers :
       (/\ playing # 0 /\ swarm[playing] # "none" /\ ~odd
        /\ op'[o] # op[o] /\ op[o].pc # "ready")
       => swarm'[playing] # "none"]_torrentVars

(* A TV that leaves for good does not keep its torrent: the watch pauses it, *)
(* then cleans it, or finds the lease stale, unless the TV comes back.       *)
AbandonedLeaseEnds ==
  \A d \in TVs : (lease # NoLease /\ lease.dev = d /\ d \in away)
                   ~> (lease = NoLease \/ d \notin away)
==============================================================================
