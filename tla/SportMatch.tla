------------------------------ MODULE SportMatch ------------------------------
(***************************************************************************)
(* The matcher of crates/live-sports/src/sport_match.rs: which channels of *)
(* a portal show a match, by the names the guide gives, by their own names *)
(* and by their programmes.                                                *)
(*                                                                         *)
(* A text (a channel's name or folder, a programme, a guide name, a team)  *)
(* is the sequence of its words after to_lowercase and the split at        *)
(* anything but letters and digits and between the two.  The lexicon says  *)
(* of a word what the stop lists and the length tests of the code say.     *)
(* Tiers only order the answer; here a channel is in it or not.            *)
(***************************************************************************)
EXTENDS Integers, Sequences, FiniteSets, SequencesExt

CONSTANTS
  Games,     \* name -> game
  Lexicon,   \* word -> [is, stem]: its classes and its first four letters
  PartOf,    \* pairs <<s, w>>: s is written inside the word w
  Teams,     \* fetch_all_team_names: the teams of the league
  SHORT_EPG_LIMIT   \* the programmes asked of a Stalker portal

ASSUME EpgLimitIsNat == SHORT_EPG_LIMIT \in Nat

\* The classes: "stopword" (TITLE_STOPWORDS), "tiny" (no token: below three letters), "brief"
\* (below four), "short" (below five), "generic" (GENERIC_TEAM_TOKENS), "digits", "separator"
\* (vs, v, at, -), "quality" (hd, fhd, ...), "quiet" (BROADCAST_TOKEN_STOP), "sport".
Is(w, class) == class \in Lexicon[w].is

\* str::contains of a word, and of a phrase
Has(text, s) == \E w \in Range(text) : w = s \/ <<s, w>> \in PartOf
Within(p, text) == \E i \in 0..(Len(text) - Len(p)) : SubSeq(text, i + 1, i + Len(p)) = p

-----------------------------------------------------------------------------
(* The game *)

Upto(text, word) == SubSeq(text, 1, SelectInSeq(text \o <<word>>, LAMBDA w : w = word) - 1)
After(text, word) == SubSeq(text, Len(Upto(text, word)) + 2, Len(text))

\* "A vs B - C" and "A v B" are of A and B, "A at B" of B and A.
parse_teams_from_title(title) ==
  LET sides(word) == <<Upto(title, word), Upto(After(title, word), "-")>>
      found == SelectSeq(<<"vs", "v", "at">>, LAMBDA word : <<>> \notin Range(sides(word)))
  IN  CASE found = <<>> -> <<(<<>>), (<<>>)>>
        [] found = <<"at">> -> Reverse(sides("at"))
        [] OTHER -> sides(found[1])

WithTeams(g, teams) ==
  [g EXCEPT !.home = IF @ = <<>> THEN teams[1] ELSE @, !.away = IF @ = <<>> THEN teams[2] ELSE @]

\* from_json: teams that the game does not name are taken from its title.
MatchGame(g) == WithTeams(g, parse_teams_from_title(g.title))

is_team_game(g) == {g.home, g.away} \intersect {<<>>, <<"home">>, <<"away">>} = {}

is_token(w) == ~ Is(w, "stopword") /\ ~ Is(w, "tiny")
tokenize_text(text) == {w \in Range(text) : is_token(w)}

team_match_tokens(team) ==
  {w \in Range(team) : ~ Is(w, "generic") /\ (is_token(w) \/ (Len(team) = 1 /\ ~ Is(w, "brief")))}

specific_tokens(g) ==
  {w \in tokenize_text(g.title) \union team_match_tokens(g.home) \union team_match_tokens(g.away) :
     ~ Is(w, "generic") /\ ~ Is(w, "digits")}

normalize_phrase(text) == SelectSeq(text, LAMBDA w : ~ Is(w, "stopword"))

\* Phrases of fewer than eight letters, here of one word, are not used.
title_phrases(g) ==
  LET both == IF g.home = <<>> \/ g.away = <<>> THEN {} ELSE {g.home \o g.away, g.home \o <<"v">> \o g.away}
  IN  {p \in {normalize_phrase(t) : t \in {g.title, Upto(g.title, "-")} \union both} : Len(p) > 1}

text_has_title_phrase(g, text) == \E p \in title_phrases(g) : Within(p, normalize_phrase(text))

matches_team_side(text, team) ==
  (Len(team) > 1 /\ Within(team, text)) \/ team_match_tokens(team) \intersect Range(text) # {}

\* Programmes shorten names: a long word of the team, or its first and four letters of its second.
matches_team_in_epg(text, team) ==
  \/ matches_team_side(text, team)
  \/ \E w \in Range(team) : ~ Is(w, "generic") /\ ~ Is(w, "brief") /\ w \in Range(text)
  \/ /\ Len(team) > 1 /\ ~ Is(team[2], "brief")
     /\ \E i \in 1..(Len(text) - 1) : text[i] = team[1] /\ Lexicon[text[i + 1]].stem = Lexicon[team[2]].stem

-----------------------------------------------------------------------------
(* The guide's channel names.  A token of a name is a word, or "tv" with the *)
(* number after it.                                                          *)

normalize_broadcast_channel_label(label) ==
  IF label # <<>> /\ Is(Last(label), "quality") THEN Front(label) ELSE label

Token(l, i) == CASE l[i] = "tv" /\ i < Len(l) -> IF Is(l[i + 1], "digits") THEN <<"tv", l[i + 1]>> ELSE <<>>
                 [] l[i] # "tv" /\ (Is(l[i], "digits") \/ ~ Is(l[i], "quiet")) -> <<l[i]>>
                 [] OTHER -> <<>>
TokensOf(l) == SelectSeq([i \in DOMAIN l |-> Token(l, i)], LAMBDA t : t # <<>>)
broadcast_significant_tokens(label) == TokensOf(normalize_broadcast_channel_label(label))

token_is_digits(t) == Len(t) = 1 /\ Is(t[1], "digits")
is_tv_compound(t) == Len(t) = 2

Numbers(tokens) == {t \in Range(tokens) : token_is_digits(t)}
Compounds(tokens) == {t \in Range(tokens) : is_tv_compound(t)}
Brands(tokens) == {t \in Range(tokens) \ (Numbers(tokens) \union Compounds(tokens)) : ~ Is(t[1], "sport")}

\* The numbers of a guide name must be in the channel's, if that has any.
hint_digits_fit_name(tokens, name) ==
  Numbers(tokens) = {} \/ Numbers(TokensOf(name)) = {} \/ \A d \in Numbers(tokens) : Has(name, d[1])

broadcast_brand_hit(tokens, name) ==
  (\A b \in Brands(tokens) : Has(name, b[1])) /\ hint_digits_fit_name(tokens, name)

\* The name, its first two or three words, and all but a number at its end.
broadcast_channel_needles(base) ==
  {SubSeq(base, 1, k) : k \in
     {j \in DOMAIN base : /\ \/ j = Len(base)
                             \/ Len(base) > 2 /\ (j = 2 \/ (j = Len(base) - 1 /\ Is(Last(base), "digits")))
                             \/ Len(base) > 3 /\ j = 3
                          /\ j > 1 \/ ~ Is(base[1], "short")}}

broadcast_tokens_required_hit_count(n) == IF n <= 2 THEN n ELSE IF n = 3 THEN 2 ELSE (2 * n - 1) \div 3 + 1

broadcast_token_overlap_score(tokens, name) == Cardinality({i \in DOMAIN tokens : Has(name, tokens[i][1])})

\* base and tokens are of the guide's name, name is the channel's label, both normalized
broadcast_hint_hits_label(base, tokens, name) ==
  IF Brands(tokens) # {} THEN broadcast_brand_hit(tokens, name)
  ELSE IF Compounds(tokens) # {} THEN Compounds(tokens) \subseteq Range(TokensOf(name))
  ELSE \/ /\ tokens # <<>>
          /\ broadcast_token_overlap_score(tokens, name) >= broadcast_tokens_required_hit_count(Len(tokens))
       \/ name # <<>> /\ \E n \in broadcast_channel_needles(base) : Within(n, name) \/ Within(name, n)

hint_is_bare_brand(tokens) ==
  \/ Len(tokens) = 1 /\ ~ is_tv_compound(tokens[1])
  \/ tokens # <<>> /\ Numbers(tokens) = Range(tokens)

HitKind(base, tokens, name) ==
  IF ~ broadcast_hint_hits_label(base, tokens, name) THEN "none"
  ELSE IF hint_is_bare_brand(tokens) /\ TokensOf(name) # tokens THEN "weak" ELSE "strong"
broadcast_hit_kind_on_label(bc, name) ==
  HitKind(normalize_broadcast_channel_label(bc), broadcast_significant_tokens(bc), name)

Best(kinds) == IF "strong" \in kinds THEN "strong" ELSE IF "weak" \in kinds THEN "weak" ELSE "none"

\* The name, or the folder unless the name has another number than the guide.
BestHit(guide, name, folder) ==
  Best({broadcast_hit_kind_on_label(x[1], x[2]) :
          x \in {y \in guide \X {name, folder} :
                   /\ y[2] # <<>>
                   /\ y[2] # name => hint_digits_fit_name(broadcast_significant_tokens(y[1]), name)}})
broadcast_channel_candidate_hit_kind(g, c) ==
  BestHit(g.guide, normalize_broadcast_channel_label(c.name), normalize_broadcast_channel_label(c.folder))

-----------------------------------------------------------------------------
(* Fixtures in names and programmes *)

count_token_hits(text, tokens) == Cardinality(tokens \intersect Range(text))

text_looks_like_fixture(text) == \E i \in 2..(Len(text) - 1) : Is(text[i], "separator")

text_confirms_broadcast_fixture(g, text) ==
  \/ text_has_title_phrase(g, text)
  \/ IF is_team_game(g) THEN matches_team_in_epg(text, g.home) /\ matches_team_in_epg(text, g.away)
     ELSE count_token_hits(text, specific_tokens(g)) >= 2

channel_embeds_foreign_fixture(g, c, text) ==
  /\ \E t \in {c.name, text} : text_looks_like_fixture(t)
  /\ \A t \in {c.name, text} : text_looks_like_fixture(t) => ~ text_confirms_broadcast_fixture(g, t)

\* The programme decides, or a fixture in the name; without either the guide must be specific.
Eligible(g, kind, told, mode) ==
  /\ kind # "none"
  /\ IF mode = "PreferEpg" /\ told # <<>> THEN text_confirms_broadcast_fixture(g, told) ELSE kind = "strong"

broadcast_channel_result_eligible(g, c, text, mode) ==
  /\ ~ channel_embeds_foreign_fixture(g, c, text)
  /\ Eligible(g, broadcast_channel_candidate_hit_kind(g, c),
              IF text # <<>> THEN text ELSE IF text_looks_like_fixture(c.name) THEN c.name ELSE <<>>, mode)

-----------------------------------------------------------------------------
(* What is shown, and what is looked up first *)

count_label_hits(label, tokens) == Cardinality({s \in tokens : Has(label, s)})
One(b) == IF b THEN 1 ELSE 0

\* Which tokens of the event and of its sport the name, the folder and the programme hold.
EventScore(g, c, text, specific, sport) ==
  [phrase_name |-> One(text_has_title_phrase(g, c.name)), phrase_epg |-> One(text_has_title_phrase(g, text)),
   name |-> count_token_hits(c.name, specific), cat |-> count_label_hits(c.folder, specific),
   epg |-> count_token_hits(text, specific),
   sport_name |-> count_token_hits(c.name, sport), sport_cat |-> count_label_hits(c.folder, sport)]

\* EventScore::tier is Some
Tiered(s) == s.phrase_name + s.phrase_epg + s.name + s.cat + s.epg > 0 \/ (s.sport_cat > 0 /\ s.sport_name > 0)

match_event_streams(g, c, text) ==
  /\ specific_tokens(g) \union tokenize_text(g.sport) # {}
  /\ Tiered(EventScore(g, c, text, specific_tokens(g), tokenize_text(g.sport)))

RankOf(s) == 50 * s.phrase_name + 10 * s.name + 8 * s.cat + 4 * s.sport_name + 6 * s.sport_cat
pre_epg_rank(g, c) == RankOf(EventScore(g, c, <<>>, specific_tokens(g), tokenize_text(g.sport)))

team_prefilter_rank(g, c) ==
  IF broadcast_channel_candidate_hit_kind(g, c) # "none" THEN 60
  ELSE IF text_has_title_phrase(g, c.name) THEN 50
  ELSE 5 * Cardinality({team \in {g.home, g.away} : matches_team_side(c.name, team)})
         + 2 * One(\E team \in {g.home, g.away} : matches_team_side(c.folder, team))

\* roster: whether the league's teams are known.
MatchTeams(g, c, text, roster) ==
  LET own     == team_match_tokens(g.home) \union team_match_tokens(g.away) \union g.abbrs
      foreign == IF roster THEN UNION {team_match_tokens(t) : t \in Teams} \ own ELSE {}
  IN  \/ broadcast_channel_result_eligible(g, c, text, "PreferEpg")
      \/ /\ ~ channel_embeds_foreign_fixture(g, c, text)
         /\ \/ text_has_title_phrase(g, c.name) \/ text_has_title_phrase(g, text)
            \/ \A team \in {g.home, g.away} :
                 \/ matches_team_side(c.name, team) \/ matches_team_side(c.folder, team)
                 \/ matches_team_in_epg(text, team)
            \/ /\ matches_team_side(c.name, g.home_nick) /\ matches_team_side(c.name, g.away_nick)
               /\ foreign \intersect (Range(c.name) \union Range(text) \union Range(c.folder)) = {}

match_streams(g, c, text, roster) ==
  IF is_team_game(g) THEN MatchTeams(g, c, text, roster) ELSE match_event_streams(g, c, text)

(***************************************************************************)
(* The text of a channel's programmes: the first that an Xtream portal     *)
(* lists, the first few together of a Stalker one.                         *)
(***************************************************************************)
xtream_short_epg(listings) == IF listings = <<>> THEN <<>> ELSE listings[1]
stalker_short_epg(listings) ==
  FlattenSeq(SubSeq(listings, 1, IF Len(listings) < SHORT_EPG_LIMIT THEN Len(listings) ELSE SHORT_EPG_LIMIT))

Told == {"none", "xtream", "stalker"}
TextOf(listings, told) ==
  CASE told = "none" -> <<>>
    [] told = "xtream" -> xtream_short_epg(listings)
    [] told = "stalker" -> stalker_short_epg(listings)

(***************************************************************************)
(* What the matcher says of a channel for each game: whether it is shown,  *)
(* with no programme known or with what a portal tells of it, and with the *)
(* league's teams or not; whether the guide names it; and its rank among   *)
(* those to look up.                                                       *)
(***************************************************************************)
MatcherVerdicts(c) ==
  LET game(k)    == MatchGame(Games[k])
      text(told) == TextOf(c.airs, told)
  IN  [id |-> c.id, cat |-> c.cat, airs |-> c.airs # <<>>,
       shows  |-> {x \in (DOMAIN Games) \X Told \X BOOLEAN : match_streams(game(x[1]), c, text(x[2]), x[3])},
       strong |-> {k \in DOMAIN Games : broadcast_channel_result_eligible(game(k), c, <<>>, "StrongOnly")},
       guided |-> {x \in (DOMAIN Games) \X Told :
                     broadcast_channel_result_eligible(game(x[1]), c, text(x[2]), "PreferEpg")},
       rank   |-> [k \in DOMAIN Games |-> IF is_team_game(game(k)) THEN team_prefilter_rank(game(k), c)
                                                                  ELSE pre_epg_rank(game(k), c)]]
===============================================================================
