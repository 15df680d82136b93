------------------------------ MODULE SportStreams ------------------------------
(***************************************************************************)
(* Live TV channels for a match: the host's search of                      *)
(* portal_live_tv_search.dart over sport_match_streams of                  *)
(* crates/live-sports/src/xtream_sport.rs and stalker_sport.rs.            *)
(*                                                                         *)
(* The search asks first for channels whose names tell (skip_epg), then in *)
(* batches for those whose programmes do.  Every batch is a call of its    *)
(* own that builds the candidates and their shortlist again, from the      *)
(* shelf, a cache or the portal, and only an offset and the ids shown so   *)
(* far are kept from one to the next.                                      *)
(*                                                                         *)
(* A channel is its id, its category, whether the portal lists programmes  *)
(* for it, and the verdicts of SportMatch on it.  The candidates are those *)
(* of a list at their places in it, the shortlist the ones to look up,     *)
(* each with its place among them.                                         *)
(***************************************************************************)
EXTENDS Integers, Sequences, FiniteSets, SequencesExt

CONSTANTS TeamGames, EventGames,   \* names of the games a search may be for
          ChannelLists,     \* what a live list may be
          Foldless,         \* of each list a portal may serve, that list without the folders' names
          MAX_EPG_FETCHES, EPG_BATCH_SIZE,
          MaxEvents         \* bound on what changes around the searches

\* A channel has programmes in every list that has its id or in none.
ASSUME SportConstants ==
  /\ MAX_EPG_FETCHES \in Nat /\ EPG_BATCH_SIZE \in Nat \ {0}
  /\ \A l \in ChannelLists : /\ l \in Seq(Range(l))
                             /\ \A c \in Range(l) : c.rank \in [TeamGames \union EventGames -> Int]
  /\ \A l, k \in ChannelLists : \A i \in DOMAIN l, j \in DOMAIN k : l[i].id = k[j].id => l[i].airs = k[j].airs
  /\ DOMAIN Foldless \subseteq ChannelLists /\ \A l \in DOMAIN Foldless : Foldless[l] \in ChannelLists

(* What the matcher's verdicts on a channel have in common: the league's      *)
(* teams only rule channels out; a channel without programmes is judged by    *)
(* its names; and one the guide names by itself is strong, or shown by names. *)
VerdictsAgree(c, g) ==
  /\ \A told \in {"none", "xtream", "stalker"} :
       /\ <<g, told, TRUE>> \in c.shows => <<g, told, FALSE>> \in c.shows
       /\ ~ c.airs => \A roster \in BOOLEAN : <<g, told, roster>> \in c.shows => <<g, "none", roster>> \in c.shows
  /\ <<g, "none">> \in c.guided => g \in c.strong \/ <<g, "none", FALSE>> \in c.shows

ASSUME MatcherAgrees ==
  \A l \in ChannelLists : \A c \in Range(l), g \in TeamGames \union EventGames : VerdictsAgree(c, g)

VARIABLES
  portal,    \* "xtream" or "stalker"
  serves,    \* the list the portal serves
  shelf,     \* {list}: the live shelf of the catalog database; {}: it has none
  live,      \* {list}: the live cache entry while fresh; {}: none
  epg,       \* ids whose programme is in the EPG cache
  search,    \* the search of the host
  events     \* events so far

sportVars == <<portal, serves, shelf, live, epg, search, events>>

\* lists and failed are ghosts: the lists its calls used, whether one lost anything
NoSearch == [pc |-> "off", game |-> "none", cats |-> {}, offset |-> 0, shown |-> {},
             lists |-> {}, failed |-> FALSE]

SportInit ==
  /\ portal \in {"xtream", "stalker"}
  /\ serves \in DOMAIN Foldless
  /\ shelf = {} /\ live = {} /\ epg = {}
  /\ search = NoSearch /\ events = 0

\* The shortlist: everything if it fits, else the best ranked, padded for a team game.
indices_for_epg(game, list) ==
  LET fits == Cardinality(DOMAIN list) <= MAX_EPG_FETCHES
      rank(i) == IF fits \/ list[i].rank[game] < 0 THEN 0 ELSE list[i].rank[game]
      better(i, j) == rank(i) > rank(j) \/ (rank(i) = rank(j) /\ i < j)
      pool == {i \in DOMAIN list : fits \/ game \in TeamGames \/ rank(i) > 0}
      place(i) == Cardinality({j \in pool : better(j, i)}) + 1
  IN  [i \in {j \in pool : place(j) <= MAX_EPG_FETCHES} |-> place(i)]

(***************************************************************************)
(* The candidates: of the shelf, the cache, or the portal.  An Xtream list *)
(* that could not be fetched is taken, and cached, as empty, and one whose *)
(* categories could not be as without folders; Stalker reports an error.   *)
(* Stalker ignores a category filter that leaves none.                     *)
(***************************************************************************)
Known == IF shelf # {} THEN shelf ELSE live

Fetched(list) == [ok |-> TRUE, lost |-> FALSE, list |-> list, live |-> {list}]
XtreamLive == {Fetched(serves), Fetched(Foldless[serves]), [Fetched(<<>>) EXCEPT !.lost = TRUE]}
StalkerLive == {Fetched(serves), [ok |-> FALSE, lost |-> TRUE, list |-> <<>>, live |-> live]}

\* What get_or_fetch_portal_live may return, with the cache it leaves.
LiveLists ==
  IF Known # {} THEN {[ok |-> TRUE, lost |-> FALSE, list |-> l, live |-> live] : l \in Known}
  ELSE IF portal = "xtream" THEN XtreamLive ELSE StalkerLive

Saw(r) == [search EXCEPT !.lists = @ \union {r.list}, !.failed = @ \/ r.lost]

stream_in_categories(c, cats) == cats = {} \/ c.cat \in cats
InCategories(list, cats) == Restrict(list, {i \in DOMAIN list : stream_in_categories(list[i], cats)})
filter_live_streams(list, cats) ==
  IF DOMAIN InCategories(list, cats) = {} THEN list ELSE InCategories(list, cats)

Candidates(list, cats) ==
  IF portal = "stalker" THEN filter_live_streams(list, cats) ELSE InCategories(list, cats)

Ids(channels) == {c.id : c \in channels}

\* skip_epg: strong guide names, or else what the names alone tell.
FastItems(game, list) ==
  LET strong == {c \in Range(list) : game \in c.strong}
      named  == {c \in Range(list) : <<game, "none", FALSE>> \in c.shows}
  IN  IF strong # {} THEN Ids(strong) ELSE Ids(named)

-----------------------------------------------------------------------------
(* The host's search *)

SearchBegins ==
  /\ search.pc \in {"off", "done"}
  /\ \E game \in TeamGames \union EventGames, cats \in {{}, {"c1"}} :
       search' = [NoSearch EXCEPT !.pc = "fast", !.game = game, !.cats = cats]
  /\ UNCHANGED <<portal, serves, shelf, live, epg, events>>

Finish(seen, shown) == search' = [seen EXCEPT !.pc = "done", !.shown = shown]

FastPass ==
  /\ search.pc = "fast"
  /\ \E r \in LiveLists :
       LET items == IF r.ok THEN FastItems(search.game, Candidates(r.list, search.cats)) ELSE {}
       IN  /\ live' = r.live
           /\ IF items # {} THEN Finish(Saw(r), items)
              ELSE search' = [Saw(r) EXCEPT !.pc = "epg"]
  /\ UNCHANGED <<portal, serves, shelf, epg, events>>

Count(idxs) == Cardinality(DOMAIN idxs)
next_offset(offset, len) == IF offset + EPG_BATCH_SIZE < len THEN offset + EPG_BATCH_SIZE ELSE len

\* The last of a batch is left out.
BatchLessOne(idxs) ==
  LET end == next_offset(search.offset, Count(idxs))
  IN  {i \in DOMAIN idxs : search.offset < idxs[i] /\ idxs[i] <= (IF end < Count(idxs) THEN end - 1 ELSE end)}

(***************************************************************************)
(* One batch: cached programmes for every candidate, fetched ones for the  *)
(* batch (a failed fetch leaves the text empty, over a cached one), the    *)
(* matcher over all candidates, the ids shown before left out.  The first  *)
(* batch adds the channels the guide names.                                *)
(***************************************************************************)
Batch(idxs) ==
  {i \in DOMAIN idxs : search.offset < idxs[i] /\ idxs[i] <= next_offset(search.offset, Count(idxs))}

\* The candidates with a programme, and the text of one's.
apply_cached_epg(list) == {i \in DOMAIN list : list[i].airs /\ list[i].id \in epg}
fill_epg(list, told, batch, failed) == (told \ batch) \union {i \in batch \ failed : list[i].airs}
store_candidate_epg(list, told, batch) == epg \union {list[i].id : i \in told \intersect batch}
Text(told, i) == IF i \in told THEN portal ELSE "none"

match_streams_items(list, told, roster) ==
  {list[i].id : i \in {j \in DOMAIN list : <<search.game, Text(told, j), roster>> \in list[j].shows}}
broadcast_items(list, told) ==
  {list[i].id : i \in {j \in DOMAIN list : <<search.game, Text(told, j)>> \in list[j].guided}}
merge_broadcast_front(broadcast, team) == broadcast \union team
filter_excluded_items(items, exclude) == items \ exclude

EpgBatch(seen, list, idxs, failed, roster) ==
  LET told  == fill_epg(list, apply_cached_epg(list), Batch(idxs), failed)
      team  == match_streams_items(list, told, roster)
      items == IF search.offset = 0 THEN merge_broadcast_front(broadcast_items(list, told), team) ELSE team
      now   == [seen EXCEPT !.failed = @ \/ failed # {},
                            !.shown = @ \union filter_excluded_items(items, @)]
      next  == next_offset(search.offset, Count(idxs))
  IN  /\ epg' = store_candidate_epg(list, told, Batch(idxs))
      /\ IF next < Count(idxs) THEN search' = [now EXCEPT !.offset = next] ELSE Finish(now, now.shown)

\* The shortlist is empty: the matcher over the names with the roster, and the guide's channels.
NoShortlist(seen, list, roster) ==
  /\ LET named  == {c \in Range(list) : <<search.game, "none", roster>> \in c.shows}
         strong == {c \in Range(list) : search.game \in c.strong}
     IN  Finish(seen, search.shown \union Ids(named \union strong))
  /\ UNCHANGED epg

EpgPass ==
  /\ search.pc = "epg"
  /\ \E r \in LiveLists, roster \in BOOLEAN :
       LET list == Candidates(r.list, search.cats)
           idxs == indices_for_epg(search.game, list)
       IN  /\ live' = r.live
           /\ \/ ~ r.ok /\ Finish(Saw(r), search.shown) /\ UNCHANGED epg
              \/ r.ok /\ DOMAIN idxs = {} /\ NoShortlist(Saw(r), list, roster)
              \/ /\ r.ok /\ DOMAIN idxs # {} /\ search.offset >= Count(idxs)
                 /\ Finish(Saw(r), search.shown) /\ UNCHANGED epg
              \/ /\ r.ok /\ search.offset < Count(idxs)
                 /\ \E failed \in SUBSET Batch(idxs) : EpgBatch(Saw(r), list, idxs, failed, roster)
  /\ UNCHANGED <<portal, serves, shelf, events>>

\* cancel and a change of portal: the search ends where it is.
SearchCancelled ==
  /\ search.pc \in {"fast", "epg"}
  /\ search' = NoSearch
  /\ UNCHANGED <<portal, serves, shelf, live, epg, events>>

-----------------------------------------------------------------------------
(* What happens around it *)

Happens == events < MaxEvents /\ events' = events + 1 /\ UNCHANGED <<portal, search>>

LiveExpires == Happens /\ live' = {} /\ UNCHANGED <<serves, shelf, epg>>

ProgrammesExpire == Happens /\ epg' = {} /\ UNCHANGED <<serves, shelf, live>>

\* A catalog page stores the portal's list in the database.
ShelfStored == Happens /\ shelf' = {serves} /\ UNCHANGED <<serves, live, epg>>

PortalChanges ==
  /\ Happens
  /\ \E l \in (DOMAIN Foldless) \ {serves} : serves' = l
  /\ UNCHANGED <<shelf, live, epg>>

SportNext ==
  \/ SearchBegins
  \/ FastPass
  \/ EpgPass
  \/ SearchCancelled
  \/ LiveExpires
  \/ ProgrammesExpire
  \/ ShelfStored
  \/ PortalChanges

SportSpec == SportInit /\ [][SportNext]_sportVars

(***************************************************************************)
(* The batches add up to one scan: a search whose calls all found the same *)
(* channel list and lost no programme shows every channel of the shortlist *)
(* that the matcher takes with its programme, and none that it would only  *)
(* take without, although the offset and the ids shown are all that one    *)
(* call keeps for the next and caches fill and expire between them.        *)
(***************************************************************************)
BatchesAddUp ==
  \A all \in search.lists :
    search.pc = "done" /\ search.lists = {all} /\ ~ search.failed =>
    LET list == Candidates(all, search.cats)
        idxs == indices_for_epg(search.game, list)
        fast == FastItems(search.game, list)
        Airs(c, roster) == <<search.game, portal, roster>> \in c.shows
        Guided(c) == <<search.game, portal>> \in c.guided
    IN  IF fast # {} THEN search.shown = fast
        ELSE /\ Ids({list[i] : i \in {j \in DOMAIN idxs : Airs(list[j], TRUE)}}) \subseteq search.shown
             /\ search.shown \subseteq Ids({c \in Range(list) : Airs(c, FALSE) \/ Guided(c)})
=============================================================================
