------------------------------ MODULE StreamRank ------------------------------
(***************************************************************************)
(* crates/stream: in which order the providers of a title are tried        *)
(* (source_order.rs) and in which order their sources are offered          *)
(* (normalize.rs, select.rs).                                              *)
(*                                                                         *)
(* Provider ids are numbers, ordered as the ids are as strings; AutoId     *)
(* stands for "auto" and for an empty id.  What a source's URL, title and  *)
(* type say is the set of keywords the code looks for in them.             *)
(***************************************************************************)
EXTENDS Integers, Sequences, FiniteSets, SequencesExt, Sorting

CONSTANTS MAX_PROVIDER_DISPLACEMENT, RELIABILITY_ORDER_CLAMP

ASSUME DisplacementIsPositive == MAX_PROVIDER_DISPLACEMENT \in Nat \ {0}
ASSUME ClampIsNat == RELIABILITY_ORDER_CLAMP \in Nat

AutoId == 0

-----------------------------------------------------------------------------
(* Providers *)

Clamp(x, low, high) == IF x < low THEN low ELSE IF x > high THEN high ELSE x

reliability_nudge(id, reliability) ==
  IF id \in DOMAIN reliability
  THEN Clamp(reliability[id], -RELIABILITY_ORDER_CLAMP, RELIABILITY_ORDER_CLAMP) ELSE 0

\* The candidates the settings list, in that order and once, then the others by id.
Baseline(candidates, settings_order) ==
  LET place(id) == IF Contains(settings_order, id) THEN SelectInSeq(settings_order, LAMBDA x : x = id)
                                                   ELSE Len(settings_order) + 1
  IN  InOrder(candidates, Keyed(candidates, [id \in candidates |-> place(id)], Less(candidates)))

RankIn(seq, id) == SelectInSeq(seq, LAMBDA x : x = id) - 1

ByReliability(candidates, reliability) ==
  InOrder(candidates, Keyed(candidates, [id \in candidates |-> -reliability_nudge(id, reliability)],
                            Less(candidates)))

\* A provider is ranked wherever its reliability puts it.
NoDisplacementCap(settings, rel_based) == rel_based

\* The place in the settings, moved towards the place by reliability.
effective_rank(settings, rel_based) ==
  LET moved == settings + Clamp(rel_based - settings, -MAX_PROVIDER_DISPLACEMENT, MAX_PROVIDER_DISPLACEMENT)
  IN  IF moved < 0 THEN 0 ELSE moved

Reordered(ordered, by_rel) ==
  LET ids     == Range(ordered)
      settled == [id \in ids |-> RankIn(ordered, id)]
      rank    == [id \in ids |-> effective_rank(settled[id], RankIn(by_rel, id))]
  IN  InOrder(ids, Keyed(ids, rank, Keyed(ids, settled, Less(ids))))

order_providers(candidate_ids, settings_order, preferred, reliability) ==
  LET candidates == Range(candidate_ids) \ {AutoId}
      ordered    == Baseline(candidates, settings_order)
  IN  IF preferred # AutoId
      THEN IF preferred \in candidates THEN <<preferred>> ELSE << >>
      ELSE IF \A id \in candidates : reliability_nudge(id, reliability) = 0 THEN ordered
      ELSE Reordered(ordered, ByReliability(candidates, reliability))

-----------------------------------------------------------------------------
(* Sources: [url, says, type, rank, latency], latency -1 if it is not known   *)

\* The first of the keywords that is there
FirstOf(words, says, none) ==
  IF Range(words) \intersect says = {} THEN none ELSE words[SelectInSeq(words, LAMBDA w : w \in says)]

infer_container(type, says) ==
  FirstOf(<<"hls", "dash", "mkv", "webm", "mp4", "torrent">>,
          (says \ {"torrent"}) \union ({type} \ {"webm"}), "unknown")

infer_video_codec(says) == FirstOf(<<"av1", "vp9", "vp8", "h265", "h264">>, says, "unknown")

\* "4k" stands before "4320" in the list; 0: no height is named
infer_height(says) ==
  LET words   == <<"2160", "4k", "4320", "1440", "1080", "720", "480", "360">>
      heights == << 2160,   2160, 4320,   1440,   1080,   720,   480,   360 >>
      named   == SelectInSeq(words, LAMBDA w : w \in says)
  IN  IF named = 0 THEN 0 ELSE heights[named]

from_legacy(s) ==
  [url |-> s.url, container |-> infer_container(s.type, s.says), codec |-> infer_video_codec(s.says),
   height |-> infer_height(s.says), provider_rank |-> s.rank, latency |-> s.latency]

effective_max_height(d) ==
  IF d.user_max_height > 0 /\ d.user_max_height < d.max_height THEN d.user_max_height ELSE d.max_height

device_supports_codec(d, codec) == codec \in {"h264", "vp8", "mpeg4", "unknown"} \/ codec \in d.decodes

effective_height(s) == IF s.height = 0 THEN 1080 ELSE s.height
Fits(s, d) == effective_height(s) <= effective_max_height(d)

CodecScore(s, d) ==
  (IF device_supports_codec(d, s.codec)
   THEN 25 + (IF s.codec # "h264" THEN 0 ELSE IF d.is_low_power THEN 15 ELSE 5)
   ELSE -50)
  - (IF s.codec = "h265" /\ d.is_low_power /\ "h265" \notin d.decodes THEN 40 ELSE 0)

LatencyScore(ms) ==
  CASE ms \in 0..99 -> 10 [] ms \in 100..299 -> 5 [] ms > 1000 -> -10 [] OTHER -> 0

\* Scores are multiplied by the tallest height, which keeps them whole.
ScoreUnit(d) == IF effective_max_height(d) = 0 THEN 1 ELSE effective_max_height(d)
HeightScore(s, d) == IF Fits(s, d) THEN 40 * effective_height(s) ELSE -30 * ScoreUnit(d)

quality_score(s, d) ==
  HeightScore(s, d)
  + ScoreUnit(d) * (CodecScore(s, d) + (IF s.container = "hls" THEN 5 ELSE 0) + LatencyScore(s.latency))

\* A sort that keeps the order of equals, then the first of each URL.
rank_sources(sources, d, blocklist) ==
  LET kept    == {i \in DOMAIN sources : sources[i].url \notin blocklist \union {""}}
      ranks   == [i \in kept |-> sources[i].provider_rank]
      scores  == [i \in kept |-> -quality_score(sources[i], d)]
      order   == InOrder(kept, Keyed(kept, ranks, Keyed(kept, scores, Less(kept))))
      scored  == [n \in DOMAIN order |-> sources[order[n]]]
  IN  Picked(scored, {n \in DOMAIN scored : \A m \in 1..(n - 1) : scored[m].url # scored[n].url})

-----------------------------------------------------------------------------
(***************************************************************************)
(* What a listener may expect of the orders.  Every candidate is tried     *)
(* once; a preferred provider alone; and however the reliabilities lie, a  *)
(* provider is fewer than 2 * MAX_PROVIDER_DISPLACEMENT places from where  *)
(* the settings put it (its rank is capped, but so are the ranks of those  *)
(* it meets halfway), and a provider that is behind another by the         *)
(* settings and by reliability stays behind.                               *)
(***************************************************************************)
MovesAtMost(q, displacement) ==
  LET all  == order_providers(q.candidate_ids, q.settings_order, AutoId, q.reliability)
      base == Baseline(Range(q.candidate_ids) \ {AutoId}, q.settings_order)
  IN  \A id \in Range(all) : RankIn(all, id) - RankIn(base, id) \in (-displacement)..displacement

ProvidersOrdered(q) ==
  LET candidates == Range(q.candidate_ids) \ {AutoId}
      all  == order_providers(q.candidate_ids, q.settings_order, AutoId, q.reliability)
      base == Baseline(candidates, q.settings_order)
      rel  == ByReliability(candidates, q.reliability)
  IN  /\ Range(all) = candidates /\ Len(all) = Cardinality(candidates)
      /\ MovesAtMost(q, 2 * MAX_PROVIDER_DISPLACEMENT - 1)
      /\ \A a, b \in candidates : RankIn(base, a) < RankIn(base, b) /\ RankIn(rel, a) < RankIn(rel, b)
                                    => RankIn(all, a) < RankIn(all, b)
      /\ \A id \in candidates : order_providers(q.candidate_ids, q.settings_order, id, q.reliability) = <<id>>

(***************************************************************************)
(* Every source that is not blocked is offered, a URL once, providers in   *)
(* their order; and of one provider nothing that the device cannot decode  *)
(* comes before what it can play.                                          *)
(***************************************************************************)
SourcesOrdered(q) ==
  LET sources == [i \in DOMAIN q.sources |-> from_legacy(q.sources[i])]
      all == rank_sources(sources, q.device, q.blocklist)
      plays(s) == Fits(s, q.device) /\ device_supports_codec(q.device, s.codec)
  IN  /\ {s.url : s \in Range(all)} = {s.url : s \in Range(sources)} \ (q.blocklist \union {""})
      /\ \A i, j \in DOMAIN all : i < j =>
           /\ all[i].url # all[j].url
           /\ all[i].provider_rank <= all[j].provider_rank
           /\ all[i].provider_rank = all[j].provider_rank /\ plays(all[j])
                => device_supports_codec(q.device, all[i].codec)
===============================================================================
