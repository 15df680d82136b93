------------------------------ MODULE MCServices ------------------------------
(***************************************************************************)
(* The components that keep, fetch or serve data, side by side: the        *)
(* durable store, provider health, the catalog database, a Stalker catalog *)
(* job, the Reddit scrape, the live TV search, a plugin's fetch, the       *)
(* loopback proxy, the seekable proxy, the playlist rewriting and the      *)
(* order of providers and sources.  They share no state here; a behaviour  *)
(* runs the one that part names and leaves the others in their first       *)
(* state.                                                                  *)
(***************************************************************************)
EXTENDS Storage, ProviderHealth, CatalogDb, StalkerPortal, RedditScrape, SportMatch, SportStreams,
        PluginFetch, ProxyServer, SeekProxy, MCPlaylist, MCRank

VARIABLE part   \* the component that runs

-----------------------------------------------------------------------------
(* Bounds *)

OneProvider == [t \in Titles |-> CHOOSE p \in Providers : TRUE]

Stream(id, cat, name) == [id |-> id, category_id |-> cat, name |-> name, sort_order |-> 0]
Answers == {[cats |-> <<"c1", "c2">>, streams |-> <<Stream("s1", "c1", "b"), Stream("s2", "c2", "a"),
                                                     Stream("s1", "c2", "a"), Stream("", "c1", "a")>>],
            [cats |-> <<"c1", "c1">>, streams |-> <<Stream("s3", "c1", "a")>>],
            [cats |-> <<"c2", "">>, streams |-> <<Stream("s3", "c2", "b"), Stream("s1", "c2", "a"),
                                                   Stream("s2", "c1", "a")>>]}

Post(l1, decoded, pastes) == [l1 |-> l1, decoded |-> decoded, pastes |-> pastes]
Reddits == << <<Post({"p1"}, {}, {}), Post({}, {{"p2"}}, {}), Post({"p3"}, {}, {{"p1"}}), Post({"p1", "p2"}, {}, {{"p3"}}),
                Post({}, {}, {})>>,
              << >>,
              <<Post({"p2"}, {}, {}), Post({"p1", "p2", "p3", "p4"}, {}, {}), Post({"p3"}, {}, {})>> >>

Word(is) == [is |-> is, stem |-> ""]
Stemmed(is, stem) == [is |-> is, stem |-> stem]
Words == [newcastle |-> Word({}), united |-> Word({"generic"}), west |-> Word({"generic"}),
          bromwich |-> Stemmed({}, "brom"), brom |-> Stemmed({"short"}, "brom"),
          leeds |-> Word({}), hull |-> Word({"short"}), magpies |-> Word({}), baggies |-> Word({}),
          dutch |-> Word({}), grand |-> Word({}), prix |-> Word({"short"}), motor |-> Word({}),
          sports |-> Word({"generic", "sport"}), football |-> Word({}), event |-> Word({"stopword"}),
          vs |-> Word({"stopword", "separator"}), v |-> Word({"tiny", "separator"}),
          dazn |-> Word({"short"}), viaplay |-> Word({}), yle |-> Word({"brief", "short"}),
          espn |-> Word({"short"}), news |-> Word({"short"}), tv |-> Word({"tiny", "quiet"}),
          hd |-> Word({"tiny", "quality"})]
         @@ [n \in {"1", "4", "7", "9", "14"} |-> Word({"tiny", "digits"})]

Game(title, sport, guide) ==
  [title |-> title, sport |-> sport, guide |-> guide, home |-> <<>>, away |-> <<>>,
   home_nick |-> <<"magpies">>, away_nick |-> <<"baggies">>, abbrs |-> {}]
Match == Game(<<"newcastle", "united", "vs", "west", "bromwich">>, <<"football">>,
              {<<"dazn", "4">>, <<"viaplay">>})
Race == Game(<<"dutch", "grand", "prix">>, <<"motor", "sports">>, {<<"yle", "tv", "1">>, <<"viaplay">>})

Channel(id, cat, name, folder, airs) == [id |-> id, cat |-> cat, name |-> name, folder |-> folder, airs |-> airs]
Foldlessly(c) == [c EXCEPT !.folder = <<>>]
C1 == Channel("1", "c1", <<"viaplay", "7">>, <<>>, <<(<<"leeds", "vs", "hull">>)>>)
C2 == Channel("2", "c1", <<"espn">>, <<"newcastle">>, <<(<<"newcastle", "v", "west", "brom">>), (<<"leeds", "vs", "hull">>)>>)
C3 == Channel("3", "c2", <<"event", "leeds", "vs", "hull">>, <<>>, <<(<<"newcastle", "vs", "west", "brom">>)>>)
C4 == Channel("4", "c2", <<"viaplay", "9">>, <<>>, <<(<<"football">>), (<<"newcastle", "united", "west", "bromwich">>)>>)
C5 == Channel("5", "c1", <<"news">>, <<"motor", "sports">>, <<(<<"dutch", "grand">>)>>)
C6 == Channel("6", "c1", <<"magpies", "baggies", "leeds">>, <<>>, <<>>)
C7 == Channel("7", "c1", <<"dazn", "14", "hd">>, <<>>, <<(<<"leeds", "vs", "hull">>)>>)
C8 == Channel("8", "c2", <<"yle", "1">>, <<>>, <<(<<"dutch", "grand", "prix">>)>>)
Seen == [c \in {C1, C2, C3, C4, C5, C6, C7, C8, Foldlessly(C2), Foldlessly(C5)} |-> MatcherVerdicts(c)]
SeenOf(channels) == [i \in DOMAIN channels |-> Seen[channels[i]]]
SeenFoldless(channels) == [i \in DOMAIN channels |-> Seen[Foldlessly(channels[i])]]
Portals == {<<C1, C2, C3, C4, C5>>, <<C5, C4>>, <<C7, C6, C8>>}
LiveLists3 == {SeenOf(p) : p \in Portals} \union {SeenFoldless(p) : p \in Portals}
Foldless3 == [l \in {SeenOf(p) : p \in Portals} |-> SeenFoldless(CHOOSE p \in Portals : SeenOf(p) = l)]
League == {<<"newcastle", "united">>, <<"west", "bromwich">>, <<"leeds", "united">>, <<"hull">>}
Games2 == [match |-> Match, race |-> Race]
Inside == {<<"4", "14">>, <<"1", "14">>}

-----------------------------------------------------------------------------
(* A component that does not run has one of its first states.  Titles are    *)
(* alike: which of them the old store knows makes no difference.             *)
ServicesInit ==
  /\ part \in {"storage", "health", "catalog", "stalker", "reddit", "sport", "fetch", "proxy",
              "seek", "playlist", "rank"}
  /\ playlist \in IF part = "playlist" THEN Playlists ELSE {NoPlaylist}
  /\ asked \in IF part = "rank" THEN RankRequests ELSE {NoRankRequest}
  /\ HealthInit /\ LET old == stored[Legacy].server[CHOOSE t \in Titles : TRUE]
                   IN  old # 0 /\ (part # "health" => old = UP)
  /\ RedditInit /\ (part # "reddit" => cursor = NoCursor)
  /\ SportInit /\ (part # "sport" => portal = "xtream" /\ Len(serves) = 2)
  /\ FetchInit /\ (part # "fetch" => allow_local = FALSE)
  /\ SeekInit /\ (part # "seek" => file = NoFiles)
  /\ Init /\ CatalogInit /\ StalkerInit /\ ProxyInit

Only(p) == /\ part = p /\ UNCHANGED <<part, playlist, asked>>
           /\ p # "storage" => UNCHANGED vars
           /\ p # "health" => UNCHANGED healthVars
           /\ p # "catalog" => UNCHANGED catalogVars
           /\ p # "stalker" => UNCHANGED stalkerVars
           /\ p # "reddit" => UNCHANGED redditVars
           /\ p # "sport" => UNCHANGED sportVars
           /\ p # "fetch" => UNCHANGED fetchVars
           /\ p # "proxy" => UNCHANGED proxyVars
           /\ p # "seek" => UNCHANGED seekVars

ServicesNext ==
  \/ Only("storage") /\ Next
  \/ Only("health") /\ HealthNext
  \/ Only("catalog") /\ CatalogNext
  \/ Only("stalker") /\ StalkerNext
  \/ Only("reddit") /\ RedditNext
  \/ Only("sport") /\ SportNext
  \/ Only("fetch") /\ FetchNext
  \/ Only("proxy") /\ ProxyNext
  \/ Only("seek") /\ SeekNext

ServicesVars == <<part, playlist, asked, vars, healthVars, catalogVars, stalkerVars, redditVars, sportVars,
                  fetchVars, proxyVars, seekVars>>

ServicesSpec == ServicesInit /\ [][ServicesNext]_ServicesVars
==============================================================================
