------------------------------ MODULE RedditScrape ------------------------------
(***************************************************************************)
(* The catalog worker of crates/iptv-worker/src/main.rs over the Reddit    *)
(* listings of crates/iptv/src/reddit_catalog.rs.                          *)
(*                                                                         *)
(* A subreddit is a sequence of posts.  Reddit lists it after a token, the *)
(* place of a post: OAuth up to OauthLimit posts with the next token, RSS  *)
(* up to RssLimit without one.  A post is the portals its body names (l1), *)
(* those of each text in base64 it holds (decoded) and those of each paste *)
(* it links to (pastes, of the four links the code follows).  The worker   *)
(* walks the pages by the cursor each answer carries, then writes a run    *)
(* row, the posts and the portals it found to the pool.                    *)
(***************************************************************************)
EXTENDS Integers, Sequences, FiniteSets, SequencesExt

CONSTANTS Subs,          \* CATALOG_SUBS: a sequence of subreddits, each a sequence of posts
          ClientIds,     \* the number of OAuth client ids built in
          OauthLimit,    \* posts of an OAuth page
          RssLimit,      \* entries of an RSS page
          RssMore,       \* entries from which RSS is taken to have another page
          MAX_RESULTS,   \* portals of a text, and of the posts after which a page stops reading
          MaxPages,      \* the worker's --max-pages
          Outages        \* bound on the calls that fail

\* CATALOG_SUBS is not empty, and RSS stops only at a page that could not be full.
ASSUME RedditConstants ==
  /\ Subs \in Seq(Range(Subs)) /\ Subs # <<>>
  /\ \A posts \in Range(Subs) : posts \in Seq(Range(posts))
  /\ OauthLimit \in Nat \ {0} /\ RssLimit \in Nat \ {0} /\ RssMore \in 1..RssLimit
  /\ MAX_RESULTS \in Nat \ {0}

VARIABLES
  oauth,    \* OAUTH_CACHE: [token, idx]
  cursor,   \* the worker's after: a cursor string
  scraped,  \* [pages, portals, posts]: what the walk has gathered
  walked,   \* the places <<sub, post>> whose bodies were read, in order
  lost,     \* the subreddits with a place that an outage or a full page skipped
  run,      \* the run row: "none", "running" or "ok"
  pool,     \* the portals in the pool -> alive: "unknown", "yes", "no"
  stage,    \* "walk", "insert", "posts", "pool", "patch" or "end"
  todo,     \* portals still to be written
  outages   \* failed calls so far

redditVars == <<oauth, cursor, scraped, walked, lost, run, pool, stage, todo, outages>>

(***************************************************************************)
(* Cursor strings: "reddit:<sub>:<token>", a legacy "reddit:<token>", a    *)
(* bare token, or none.  Token 0 is the empty token, of a subreddit's      *)
(* start; "null" is read as the empty one.                                 *)
(***************************************************************************)
NoCursor == [form |-> "none", sub |-> 0, token |-> 0]
SubCursor(sub, token) == [form |-> "sub", sub |-> sub, token |-> token]

parse_reddit_catalog_cursor(after) ==
  CASE after.form = "none"                  -> [sub_idx |-> 0, after |-> 0]
    [] after.form = "sub"                   -> [sub_idx |-> after.sub, after |-> after.token]
    [] after.form \in {"legacy", "bare"}    -> [sub_idx |-> 0, after |-> after.token]

SubIdx(c) == IF c.sub_idx >= Len(Subs) THEN 0 ELSE c.sub_idx

RedditInit ==
  /\ oauth = [token |-> "none", idx |-> 0]
  /\ cursor \in {NoCursor, [form |-> "legacy", sub |-> 0, token |-> 1]}
  /\ scraped = [pages |-> 0, portals |-> {}, posts |-> {}]
  /\ walked = <<>>
  /\ lost = IF cursor = NoCursor THEN {} ELSE {0}
  /\ run = "none"
  /\ pool = <<>>
  /\ stage = "walk"
  /\ todo = {}
  /\ outages = 0

(***************************************************************************)
(* OAuth: the cached token, or the first client id that grants one.  A     *)
(* call that fails ends the search, an empty answer moves on to the next   *)
(* id, and only when all are empty does the next search start one further. *)
(* A listing that fails, or that does not begin like JSON, drops the       *)
(* token; one that turns out broken, or to have no data, leaves it.        *)
(***************************************************************************)
get_oauth_token(o) ==
  CASE o.token = "live" -> {[o |-> o, ok |-> TRUE, bad |-> 0]}
    [] o.token # "live" /\ ClientIds = 0 -> {[o |-> o, ok |-> FALSE, bad |-> 0]}
    [] OTHER ->
         {[o |-> [token |-> "live", idx |-> (o.idx + i) % ClientIds], ok |-> TRUE, bad |-> i] : i \in 0..(ClientIds - 1)}
           \union {[o |-> o, ok |-> FALSE, bad |-> i + 1] : i \in 0..(ClientIds - 1)}
           \union {[o |-> [token |-> "none", idx |-> (o.idx + 1) % ClientIds], ok |-> FALSE, bad |-> ClientIds]}

fetch_oauth_listing_body(o) ==
  LET asked == get_oauth_token(o)
  IN  asked \union {[o |-> [t.o EXCEPT !.token = kept], ok |-> FALSE, bad |-> t.bad + 1] :
                       t \in {a \in asked : a.ok}, kept \in {"none", "live"}}

(***************************************************************************)
(* A page: the answer's portals and post rows, the posts read, the next    *)
(* cursor, whether it left a body or a part of one out because it was full *)
(* (cut), and the calls for it that failed.                                *)
(***************************************************************************)
Listing(sub, after, limit) ==
  SubSeq(Subs[sub + 1], after + 1, IF after + limit < Len(Subs[sub + 1]) THEN after + limit ELSE Len(Subs[sub + 1]))

NextSub(sub) == IF sub + 1 < Len(Subs) THEN SubCursor(sub + 1, 0) ELSE NoCursor

\* A subreddit is left after its first page.
OnePageEach(sub, has_more, token) == NextSub(sub)

next_after(sub, has_more, token) == IF has_more THEN SubCursor(sub, token) ELSE NextSub(sub)

Bodies(posts, n) == UNION {posts[i].l1 : i \in 1..n}

\* The deep texts of a post, but for the pastes that cannot be fetched.
Links(posts) == UNION {{i} \X posts[i].pastes : i \in 1..Len(posts)}
Texts(posts, i, missed) == posts[i].decoded \union {p \in posts[i].pastes : <<i, p>> \notin missed}
Deep(posts, n, missed) == UNION {UNION Texts(posts, i, missed) : i \in 1..n}

HasRoom(portals) == Cardinality(portals) <= MAX_RESULTS

\* A text's portals are added until max_results are known; which come first is left open.
add_extracted(known, found) ==
  IF HasRoom(known \union found) THEN {known \union found}
  ELSE {s \in SUBSET (known \union found) : known \subseteq s /\ Cardinality(s) = MAX_RESULTS}

\* What is left of texts that are extracted one by one.
Kept(texts) ==
  {UNION {f[t] : t \in texts} :
     f \in {g \in [texts -> UNION {add_extracted({}, t) : t \in texts}] : \A t \in texts : g[t] \in add_extracted({}, t)}}

\* collect_oauth_ops_posts reads posts until max_results portals are known.
Read(posts, missed) ==
  Max({n \in 0..Len(posts) : n = 0 \/ Cardinality(Bodies(posts, n - 1) \union Deep(posts, n - 1, missed)) < MAX_RESULTS})

\* The pastes a page missed, all of posts it read.
Missed(posts) == {missed \in SUBSET Links(posts) : \A link \in missed : link[1] <= Read(posts, missed)}

\* The portals of the n posts read, of which only the last can have too many.
FoundOn(posts, n, missed) ==
  IF n = 0 THEN {{}}
  ELSE {Bodies(posts, n - 1) \union Deep(posts, n - 1, missed) \union kept :
          kept \in Kept({posts[n].l1} \union Texts(posts, n, missed))}

OpsPage(sub, after, posts, n, missed) ==
  {[portals |-> portals, posts |-> {<<sub, after + i>> : i \in 1..n}, read |-> n,
    cut |-> n < Len(posts) \/ (n > 0 /\ ~HasRoom(posts[n].l1)),
    next |-> next_after(sub, after + Len(posts) < Len(Subs[sub + 1]), after + Len(posts)),
    bad |-> Cardinality(missed)] : portals \in FoundOn(posts, n, missed)}

collect_oauth_ops_posts(sub, after) ==
  LET posts == Listing(sub, after, OauthLimit)
  IN  UNION {OpsPage(sub, after, posts, Read(posts, missed), missed) : missed \in Missed(posts)}

\* The page's bodies first, until it is full.
ReadBodies(posts) == Max({n \in 0..Len(posts) : n = 0 \/ Cardinality(Bodies(posts, n - 1)) < MAX_RESULTS})

BodiesPage(posts, more, sub, after) ==
  {[portals |-> portals, posts |-> {}, read |-> ReadBodies(posts),
    cut |-> ReadBodies(posts) < Len(posts) \/ ~HasRoom(Bodies(posts, Len(posts))),
    next |-> next_after(sub, more, after + Len(posts)), bad |-> 0] :
       portals \in add_extracted({}, Bodies(posts, ReadBodies(posts)))}

\* process_oauth_posts, then process_oauth_deep_links: no post rows.
scrape_page(sub, after) ==
  LET posts == Listing(sub, after, OauthLimit)
      more  == after + Len(posts) < Len(Subs[sub + 1])
  IN  UNION {UNION {{[page EXCEPT !.portals = portals, !.bad = Cardinality(missed)] :
                       portals \in add_extracted(page.portals, Deep(posts, Len(posts), missed))} :
                    missed \in SUBSET Links(posts)} :
             page \in BodiesPage(posts, more, sub, after)}

fetch_rss_listing_body(sub, after) ==
  LET entries == Listing(sub, after, RssLimit)
  IN  IF entries = <<>> THEN {} ELSE BodiesPage(entries, Len(entries) >= RssMore, sub, after)

NoPage(sub, after) ==
  [portals |-> {}, posts |-> {}, read |-> 0, cut |-> after < Len(Subs[sub + 1]), next |-> NextSub(sub), bad |-> 1]

\* scrape_page_ops: OAuth with post rows, else scrape_page: OAuth again, else RSS, else nothing.
scrape_page_ops(o, sub, after) ==
  UNION {IF a.ok
         THEN {[o |-> a.o, bad |-> a.bad + p.bad, page |-> p] : p \in collect_oauth_ops_posts(sub, after)}
         ELSE UNION {{[o |-> b.o, bad |-> a.bad + b.bad + p.bad, page |-> p] :
                        p \in IF b.ok THEN scrape_page(sub, after)
                              ELSE fetch_rss_listing_body(sub, after) \union {NoPage(sub, after)}} :
                     b \in fetch_oauth_listing_body(a.o)}
         : a \in fetch_oauth_listing_body(o)}

-----------------------------------------------------------------------------
(* The worker *)

Walk ==
  /\ stage = "walk"
  /\ LET c   == parse_reddit_catalog_cursor(cursor)
         sub == SubIdx(c)
     IN \E r \in scrape_page_ops(oauth, sub, c.after) :
          /\ outages + r.bad <= Outages
          /\ outages' = outages + r.bad
          /\ oauth' = r.o
          /\ cursor' = r.page.next
          /\ scraped' = [pages |-> scraped.pages + 1, portals |-> scraped.portals \union r.page.portals,
                         posts |-> scraped.posts \union r.page.posts]
          /\ walked' = walked \o [i \in 1..r.page.read |-> <<sub, c.after + i>>]
          /\ lost' = IF r.page.cut THEN lost \union {sub} ELSE lost
  /\ stage' = IF cursor' = NoCursor \/ scraped'.pages = MaxPages THEN "insert" ELSE "walk"
  /\ UNCHANGED <<run, pool, todo>>

\* The token's hour passes.
TokenExpires ==
  /\ oauth.token = "live" /\ stage = "walk"
  /\ oauth' = [oauth EXCEPT !.token = "none"]
  /\ UNCHANGED <<cursor, scraped, walked, lost, run, pool, stage, todo, outages>>

GoTo(s) == stage' = s /\ UNCHANGED <<oauth, cursor, scraped, walked, lost>>

\* --dry-run prints and returns; a run row that cannot be inserted ends the command.
insert_run ==
  /\ stage = "insert"
  /\ \/ run' = "running" /\ GoTo("posts") /\ UNCHANGED outages
     \/ run' = "none" /\ GoTo("end") /\ UNCHANGED outages
  /\ UNCHANGED <<pool, todo>>

\* Errors are printed and the next post is tried.
upsert_posts ==
  /\ stage = "posts"
  /\ todo' = scraped.portals
  /\ GoTo("pool")
  /\ UNCHANGED <<run, pool, outages>>

Alive == {"yes", "no", "unknown"}   \* verified, verification failed or not asked for

upsert_candidate ==
  /\ stage = "pool"
  /\ \E p \in todo :
       /\ todo' = todo \ {p}
       /\ \/ /\ \E alive \in Alive : pool' = [q \in DOMAIN pool \union {p} |-> IF q = p THEN alive ELSE pool[q]]
             /\ UNCHANGED outages
          \/ outages < Outages /\ outages' = outages + 1 /\ UNCHANGED pool
  /\ UNCHANGED run
  /\ GoTo("pool")

patch_run ==
  /\ stage = "pool" /\ todo = {}
  /\ \/ run' = "ok" /\ UNCHANGED outages
     \/ outages < Outages /\ outages' = outages + 1 /\ UNCHANGED run
  /\ GoTo("end")
  /\ UNCHANGED <<pool, todo>>

\* The verify command: every candidate's portal is asked, a dead one marked.
verify_pool ==
  /\ stage = "end"
  /\ \E p \in DOMAIN pool, alive \in {"yes", "no"} : pool' = [pool EXCEPT ![p] = alive]
  /\ GoTo("end")
  /\ UNCHANGED <<run, todo, outages>>

RedditNext ==
  \/ Walk
  \/ TokenExpires
  \/ insert_run
  \/ upsert_posts
  \/ upsert_candidate
  \/ patch_run
  \/ verify_pool

RedditSpec == RedditInit /\ [][RedditNext]_redditVars

-----------------------------------------------------------------------------
(***************************************************************************)
(* The cursors lead the worker over every post once: no post is read       *)
(* twice, and when the walk ends by itself every post of a subreddit has   *)
(* been read and the portals of its body gathered.  Not promised of a      *)
(* subreddit with a page that could not be fetched or that was full (a     *)
(* page stops reading at MAX_RESULTS portals and keeps no more of one      *)
(* text), or of the one in whose middle the walk began.  The source may    *)
(* change between OAuth and RSS on any page.                               *)
(***************************************************************************)
ScrapeCovers ==
  /\ IsInjective(walked)
  /\ \A w \in Range(walked) : w[1] \notin lost => Subs[w[1] + 1][w[2]].l1 \subseteq scraped.portals
  /\ stage # "walk" /\ cursor = NoCursor =>
       \A s \in (0..(Len(Subs) - 1)) \ lost : \A i \in DOMAIN Subs[s + 1] : <<s, i>> \in Range(walked)
=============================================================================
