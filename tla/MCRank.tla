-------------------------------- MODULE MCRank --------------------------------
(***************************************************************************)
(* The orders of StreamRank over every request of a bounded set.           *)
(***************************************************************************)
EXTENDS StreamRank

VARIABLE asked    \* the request: [what, q]

Five == 1..5

\* What the settings list: all, or some with one twice and one (99) that is no candidate.
SomeOrders == {<<1, 2, 3, 4, 5>>, <<4, 2, 5, 1, 3>>, <<AutoId, 99, 2, 1, 2>>}

Totals == {-30, 0, 25}   \* running totals, some beyond the clamp

Orders == {[candidate_ids |-> <<5, 3, 1, AutoId, 4, 2, 3>>, settings_order |-> s, reliability |-> r] :
             s \in SomeOrders, r \in [Five -> Totals]}

Source(url, says, type, rank, latency) ==
  [url |-> url, says |-> says, type |-> type, rank |-> rank, latency |-> latency]
SomeSources == {Source("u1", says, "hls", rank, ms) :
                  says \in {{}, {"4k", "h265"}, {"360", "av1"}, {"360", "h264"}, {"4320", "h264"}},
                  rank \in {0, 1}, ms \in {-1, 50}}
Others == {Source(url, says, type, 0, 1500) :
             url \in {"", "u1", "u2"}, says \in {{"480", "vp9"}, {"2160", "h265"}, {"720", "mp4"}}, type \in {"", "torrent"}}
Devices == {[max_height |-> 2160, user_max_height |-> u, decodes |-> {"h265", "av1", "vp9"}, is_low_power |-> FALSE] : u \in {0, 480}}
           \union {[max_height |-> h, user_max_height |-> 0, decodes |-> {"vp9"}, is_low_power |-> TRUE] : h \in {0, 1080}}
Offers == {[sources |-> <<a, b>>, device |-> d, blocklist |-> bl] :
             a \in SomeSources, b \in SomeSources \union Others, d \in Devices, bl \in {{}, {"u2"}}}

NoRankRequest == [what |-> "none", q |-> <<>>]
RankRequests == [what : {"order"}, q : Orders] \union [what : {"rank"}, q : Offers]

RankSpec == asked \in RankRequests /\ [][UNCHANGED asked]_asked

(* The orders that source_order.rs and select.rs make: no candidate is lost  *)
(* or tried twice, reliability moves a provider by fewer than twice the cap, *)
(* and a source the device cannot decode is offered after those it can play. *)
OrdersKept == /\ asked.what = "order" => ProvidersOrdered(asked.q)
              /\ asked.what = "rank" => SourcesOrdered(asked.q)

(* No provider is moved further from its place in the settings than the cap, *)
(* as source_order.rs:9 says; but the capped ranks are sorted again (line    *)
(* 200), and a provider that is lifted passes those that sank past it.       *)
MovesWithinCap == asked.what = "order" => MovesAtMost(asked.q, MAX_PROVIDER_DISPLACEMENT)
===============================================================================
