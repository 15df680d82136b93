------------------------------- MODULE CatalogDb -------------------------------
(***************************************************************************)
(* The IPTV catalog database of crates/iptv/src/catalog_db.rs and the host *)
(* calls of portal_catalog_page.dart that fill and page it.                *)
(*                                                                         *)
(* One SQLite file per identity; DB holds the one open connection and is   *)
(* locked for one closure at a time, so a page is answered in several      *)
(* locked steps between which another call may replace the shelf or the    *)
(* host may open another identity's file.  A SQL statement outside a       *)
(* transaction commits by itself: every operation is the sequence of the   *)
(* tables it commits, and a kill keeps some prefix of it.                  *)
(*                                                                         *)
(* A shelf key stands for a portal hash and a section.  A name is one of   *)
(* "", "a" and "b", in this NOCASE order, and a search term matches a name *)
(* or a category equal to it; payload_json is the row itself.              *)
(***************************************************************************)
EXTENDS Integers, Sequences, FiniteSets, SequencesExt, Sorting

CONSTANTS Identities,      \* the accounts and profiles, one file each
          Shelves,         \* portal hash and section pairs
          CatalogAnswers,  \* what a portal's catalog call may answer
          PageSizes,       \* the page sizes a reader may ask for
          Packs,           \* the catalog_page calls in flight
          Channels,        \* channels whose scan hits are kept
          MaxKills         \* bound on the kills of the process

ASSUME AnswersAreCatalogs ==
  CatalogAnswers \subseteq [cats : Seq(STRING),
                            streams : Seq([id : STRING, category_id : STRING, name : STRING, sort_order : Nat])]
ASSUME PagesHoldRows == PageSizes \subseteq Nat \ {0}

VARIABLES
  db,       \* Identities -> the tables of its file
  conn,     \* the identity whose file is open, or "none"
  pack,     \* Packs -> the state of a catalog_page call
  kills     \* kills so far

catalogVars == <<db, conn, pack, kills>>

NoCatalog == [cats |-> <<>>, streams |-> <<>>]
Idle == [pc |-> "idle", shelf |-> "none", refresh |-> FALSE, fetched |-> NoCatalog, cats |-> <<>>]

EmptyTables == [shelves |-> {}, categories |-> [k \in Shelves |-> <<>>],
                streams |-> [k \in Shelves |-> <<>>],
                alive_meta |-> [k \in Shelves |-> "none"], alive_ids |-> [k \in Shelves |-> {}],
                channel_hits |-> {}]

CatalogInit ==
  /\ db = [i \in Identities |-> EmptyTables]
  /\ conn = "none"
  /\ pack = [p \in Packs |-> Idle]
  /\ kills = 0

(***************************************************************************)
(* What the inserts of replace_shelf keep, in sort_order.  An empty id is  *)
(* skipped; a repeated stream id replaces the earlier row; a repeated      *)
(* category id breaks the primary key and with it the transaction.         *)
(***************************************************************************)
CategoryRows(cats) == Picked(cats, {i \in DOMAIN cats : cats[i] # ""})
StreamRows(streams) ==
  LET numbered == [i \in DOMAIN streams |-> [streams[i] EXCEPT !.sort_order = i]]
  IN  Picked(numbered, {i \in DOMAIN streams : /\ streams[i].id # ""
                                               /\ \A j \in (i + 1)..Len(streams) : streams[j].id # streams[i].id})
Valid(c) == IsInjective(CategoryRows(c.cats))

Without(t, ks) == [k \in Shelves |-> IF k \in ks THEN <<>> ELSE t[k]]

\* The deletes and inserts without their transaction.
ReplaceUnguarded(t, k, c) ==
  LET t1 == [t EXCEPT !.streams[k] = <<>>]
      t2 == [t1 EXCEPT !.shelves = @ \union {k}, !.categories[k] = CategoryRows(c.cats)]
  IN  <<t1, [t2 EXCEPT !.streams[k] = SubSeq(StreamRows(c.streams), 1, 1)],
        [t2 EXCEPT !.streams[k] = StreamRows(c.streams)]>>

\* The tables an operation commits, one after the other.
replace_shelf(t, k, c) ==
  IF Valid(c)
  THEN << [t EXCEPT !.shelves = @ \union {k}, !.categories[k] = CategoryRows(c.cats),
                    !.streams[k] = StreamRows(c.streams)] >>
  ELSE << >>

\* clear_all and clear_portal (all sections of one portal, which any shelves may be):
\* DELETE FROM streams, categories, shelves, alive_ids, alive_meta.
ClearStreams(t, ks)    == [t EXCEPT !.streams = Without(@, ks)]
ClearCategories(t, ks) == [ClearStreams(t, ks) EXCEPT !.categories = Without(@, ks)]
ClearShelves(t, ks)    == [ClearCategories(t, ks) EXCEPT !.shelves = @ \ ks]
alive_clear(t, ks) ==
  LET ids == [t EXCEPT !.alive_ids = [k \in Shelves |-> IF k \in ks THEN {} ELSE @[k]]]
  IN  <<ids, [ids EXCEPT !.alive_meta = [k \in Shelves |-> IF k \in ks THEN "none" ELSE @[k]]]>>
clear_portal(t, ks) ==
  <<ClearStreams(t, ks), ClearCategories(t, ks), ClearShelves(t, ks)>>
    \o alive_clear(ClearShelves(t, ks), ks)
clear_all(t) ==
  LET cleared == clear_portal(t, Shelves)
  IN  Append(cleared, [Last(cleared) EXCEPT !.channel_hits = {}])

\* The alive probe: its ids are replaced in one transaction, the flag kept or inserted.
\* (With an id given twice it is rolled back, a call that changes nothing.)
alive_save(t, k, ids, flag) == <<[t EXCEPT !.alive_meta[k] = flag, !.alive_ids[k] = ids]>>
alive_set_live_only(t, k, flag) == <<[t EXCEPT !.alive_meta[k] = flag]>>
channel_hits_save(t, ch) == <<[t EXCEPT !.channel_hits = @ \union {ch}]>>
channel_hits_clear(t, chs) == <<[t EXCEPT !.channel_hits = @ \ chs]>>

(***************************************************************************)
(* with_conn runs an operation on the open file; the process may be killed *)
(* on the way.  replace_shelf runs for a pack (StoreShelf below).          *)
(***************************************************************************)
Commit(commits) == db' = [db EXCEPT ![conn] = IF commits = <<>> THEN @ ELSE Last(commits)]

Operations(t) ==
  {clear_all(t)}
    \union {clear_portal(t, ks) : ks \in (SUBSET Shelves) \ {{}}}
    \union {alive_save(t, k, ids, f) : k \in Shelves, ids \in {{}, {"s1"}}, f \in {"all", "live"}}
    \union {alive_set_live_only(t, k, f) : k \in Shelves, f \in {"all", "live"}}
    \union {alive_clear(t, ks) : ks \in {{k} : k \in Shelves} \union {Shelves}}
    \union {channel_hits_save(t, ch) : ch \in Channels}
    \union {channel_hits_clear(t, chs) : chs \in {{ch} : ch \in Channels} \union {Channels}}

handle_json ==
  /\ conn # "none"
  /\ \E commits \in Operations(db[conn]) : Commit(commits)
  /\ UNCHANGED <<conn, pack, kills>>

\* The process dies, alone or within an operation of which some commits were made.
CatalogKill ==
  /\ kills < MaxKills
  /\ kills' = kills + 1
  /\ conn' = "none"
  /\ pack' = [p \in Packs |-> Idle]
  /\ \/ UNCHANGED db
     \/ /\ conn # "none"
        /\ \E commits \in Operations(db[conn])
             \union {replace_shelf(db[conn], pack[p].shelf, pack[p].fetched) :
                       p \in {q \in Packs : pack[q].pc \in {"import", "store"}}} :
             \E i \in DOMAIN commits : db' = [db EXCEPT ![conn] = commits[i]]

\* The host opens the file of an identity; a failed open leaves the old connection.
catalog_open ==
  /\ \E i \in Identities : conn' = i
  /\ UNCHANGED <<db, pack, kills>>

catalog_close ==
  /\ conn # "none"
  /\ conn' = "none"
  /\ UNCHANGED <<db, pack, kills>>

(***************************************************************************)
(* A catalog_page call: _ensureShelf asks for the shelf, imports a legacy  *)
(* one or fetches the portal's catalog, and stores it; then page reads the *)
(* shelf row, the categories and the streams under three locks.  A call    *)
(* without a connection fails.                                             *)
(***************************************************************************)
At(p, pc) == pack[p].pc = pc
Step(p, pc) == pack' = [pack EXCEPT ![p].pc = pc]
End(p) == pack' = [pack EXCEPT ![p] = Idle]

Begin(p) ==
  /\ At(p, "idle")
  /\ \E k \in Shelves, refresh \in BOOLEAN :
       pack' = [pack EXCEPT ![p] = [Idle EXCEPT !.pc = IF refresh THEN "fetch" ELSE "ask",
                                                !.shelf = k, !.refresh = refresh]]
  /\ UNCHANGED <<db, conn, kills>>

has_shelf(p) == conn # "none" /\ pack[p].shelf \in db[conn].shelves

Ask(p) ==
  /\ At(p, "ask")
  /\ \/ has_shelf(p) /\ Step(p, "page")
     \/ ~ has_shelf(p) /\ Step(p, "fetch")
     \/ /\ ~ has_shelf(p)                       \* a legacy JSON shelf is found
        /\ \E c \in CatalogAnswers \ {NoCatalog} :
             pack' = [pack EXCEPT ![p].pc = "import", ![p].fetched = c]
  /\ UNCHANGED <<db, conn, kills>>

Fetch(p) ==
  /\ At(p, "fetch")
  /\ \/ \E c \in CatalogAnswers \ {NoCatalog} :
          pack' = [pack EXCEPT ![p].pc = "store", ![p].fetched = c]
     \/ End(p)                                  \* an error or an empty catalog
  /\ UNCHANGED <<db, conn, kills>>

Stored(p) == conn # "none" /\ replace_shelf(db[conn], pack[p].shelf, pack[p].fetched) # <<>>

StoreShelf(p) ==
  /\ pack[p].pc \in {"import", "store"}
  /\ IF conn = "none" THEN UNCHANGED db
                      ELSE Commit(replace_shelf(db[conn], pack[p].shelf, pack[p].fetched))
  /\ CASE Stored(p) -> Step(p, "page")
       [] ~ Stored(p) /\ At(p, "import") -> Step(p, "fetch")
       [] ~ Stored(p) /\ At(p, "store") -> End(p)
  /\ UNCHANGED <<conn, kills>>

PageShelf(p) ==
  /\ At(p, "page")
  /\ IF has_shelf(p) THEN Step(p, "categories") ELSE End(p)
  /\ UNCHANGED <<db, conn, kills>>

load_categories(p) ==
  /\ At(p, "categories")
  /\ IF conn = "none" THEN End(p)
     ELSE pack' = [pack EXCEPT ![p].pc = "rows", ![p].cats = db[conn].categories[pack[p].shelf]]
  /\ UNCHANGED <<db, conn, kills>>

PageRows(p) ==
  /\ At(p, "rows")
  /\ End(p)
  /\ UNCHANGED <<db, conn, kills>>

CatalogNext ==
  \/ handle_json
  \/ CatalogKill
  \/ catalog_open
  \/ catalog_close
  \/ \E p \in Packs :
       \/ Begin(p)
       \/ Ask(p)
       \/ Fetch(p)
       \/ StoreShelf(p)
       \/ PageShelf(p)
       \/ load_categories(p)
       \/ PageRows(p)

CatalogSpec == CatalogInit /\ [][CatalogNext]_catalogVars

(***************************************************************************)
(* The answer of page over the stream rows of a shelf.                     *)
(***************************************************************************)

(* No category, search or id list: the first category; "all" is every one. *)
first_category_id(cats) == IF cats = <<>> THEN "all" ELSE Head(cats)
Category(req, cats) ==
  IF req.q = "" /\ req.category_id = "" THEN first_category_id(cats) ELSE req.category_id

Found(s, q) == q \in {"", s.name, s.category_id}
query_hit_category_ids(rows, q) == {s.category_id : s \in {r \in Range(rows) : Found(r, q)}}

Matching(t, k, req) ==
  LET cat == Category(req, t.categories[k])
  IN  {s \in Range(t.streams[k]) : cat \in {"", "all", s.category_id} /\ Found(s, req.q)}

Rank(s) == IF s.name = "" THEN 0 ELSE IF s.name = "a" THEN 1 ELSE 2
Before(sort, s, r) ==
  \/ sort = "nameAsc" /\ Rank(s) < Rank(r)
  \/ sort = "nameDesc" /\ Rank(s) > Rank(r)
  \/ /\ sort \in {"nameAsc", "nameDesc"} => Rank(s) = Rank(r)
     /\ s.sort_order < r.sort_order
Sorted(rows, sort) == InOrder(rows, [s \in rows |-> {r \in rows : Before(sort, r, s)}])

\* Pages counted from zero.
PageFromZero(page, size) == page * size

offset(page, size) == (page - 1) * size

query_page(t, k, req, page, size) ==
  LET rows == Sorted(Matching(t, k, req), req.sort)
      got  == SubSeq(rows, offset(page, size) + 1,
                     IF offset(page, size) + size < Len(rows) THEN offset(page, size) + size ELSE Len(rows))
  IN  [streams  |-> got, total |-> Len(rows), has_more |-> (page - 1) * size + Len(got) < Len(rows),
       categories |-> Picked(t.categories[k],
                             {i \in DOMAIN t.categories[k] :
                                req.q = "" \/ t.categories[k][i] \in query_hit_category_ids(t.streams[k], req.q)})]

\* The favourites path: the rows of the given ids, in their order, all on one page.
streams_by_ids_ordered(t, k, ids) ==
  LET known == Picked(ids, {i \in DOMAIN ids : \E s \in Range(t.streams[k]) : s.id = ids[i]})
  IN  [i \in DOMAIN known |-> CHOOSE s \in Range(t.streams[k]) : s.id = known[i]]

-----------------------------------------------------------------------------
(***************************************************************************)
(* A stored shelf is one catalog, whole: replace_shelf replaces its        *)
(* categories and streams together or not at all, whatever fails or is     *)
(* killed.  A clear that is cut short leaves no row that its header does   *)
(* not announce: streams go first, the shelf row last, and the alive ids   *)
(* before their meta row.                                                  *)
(***************************************************************************)
OneCatalog(t, k) ==
  \/ t.categories[k] = <<>> /\ t.streams[k] = <<>>
  \/ \E c \in CatalogAnswers : /\ t.categories[k] = CategoryRows(c.cats)
                               /\ t.streams[k] \in {StreamRows(c.streams), <<>>}

ShelfWhole ==
  \A i \in Identities, k \in Shelves :
    /\ OneCatalog(db[i], k)
    /\ k \notin db[i].shelves => db[i].categories[k] = <<>> /\ db[i].streams[k] = <<>>
    /\ db[i].alive_meta[k] = "none" => db[i].alive_ids[k] = {}

(***************************************************************************)
(* A reader that asks for page 1, 2, ... while has_more is set is given    *)
(* every stream that matches its request exactly once, in the order asked  *)
(* for, whatever the order and the size of a page.  A list of ids, which   *)
(* may hold one twice, is answered with the rows of those that are there,  *)
(* in its order.                                                           *)
(***************************************************************************)
Requests == [category_id : {"", "all", "c1"}, q : {"", "a", "c2"}, sort : {"playlist", "nameAsc", "nameDesc"}]
IdLists == {<<"s1", "s2", "s3">>, <<"s3", "s0", "s1">>, <<"s2", "s2">>}

PageCount(t, k, req, size) ==
  CHOOSE n \in 1..(Len(t.streams[k]) + 1) :
    /\ ~ query_page(t, k, req, n, size).has_more
    /\ \A m \in 1..(n - 1) : query_page(t, k, req, m, size).has_more

\* A place on the pages read is a page and a row of it.
PagesCovered(t, k, req, size) ==
  LET pages   == [m \in 1..PageCount(t, k, req, size) |-> query_page(t, k, req, m, size).streams]
      places  == UNION {{m} \X DOMAIN pages[m] : m \in DOMAIN pages}
      row(pl) == pages[pl[1]][pl[2]]
  IN  /\ {row(pl) : pl \in places} = Matching(t, k, req)
      /\ \A x, y \in places :
           x[1] < y[1] \/ (x[1] = y[1] /\ x[2] < y[2]) => Before(req.sort, row(x), row(y))

IdsListed(t, k, ids) ==
  LET rows == streams_by_ids_ordered(t, k, ids)
  IN  /\ Range(rows) = {s \in Range(t.streams[k]) : s.id \in Range(ids)}
      /\ \A a, b \in DOMAIN rows : a < b =>
           \E i, j \in DOMAIN ids : i < j /\ ids[i] = rows[a].id /\ ids[j] = rows[b].id

PagesCover ==
  \A p \in Packs : At(p, "rows") /\ conn # "none" =>
    /\ \A req \in Requests, size \in PageSizes : PagesCovered(db[conn], pack[p].shelf, req, size)
    /\ \A ids \in IdLists : IdsListed(db[conn], pack[p].shelf, ids)
=============================================================================
