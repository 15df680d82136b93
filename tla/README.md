# Forja engine: TLA+ models, checks and proofs

Forja is a media application: a Flutter user interface over a Rust engine
(`src/crates/*`, reached through `src/crates/ffi` and the Dart package
`src/packages/rust`). This directory models the engine's own logic: the parts in which
several threads, isolates, clients, requests or restarts meet, and the algorithms whose
answers a user sees. TLC checks them on small instances; TLAPS proves the main invariants
for every instance.

`PROJECT.json` lists the components with their status, the hazards at their lines, the map
from definitions to source lines, the runs, the mutants and the theorems.

## Inventory

| Component | State | Operations | Meets | Hard part |
|---|---|---|---|---|
| `utils::engine_cancel` | ROOT and CATALOG tokens, shutdown latch and notify, one job token per thread | `enter_job`, `attach_job_token`, `request*`, `clear_shutdown`, `with_*cancel` | every crate that does HTTP | a latch, a broadcast and two token trees read and written by any thread |
| engine jobs (`ffi::engine_jobs`, `engine::extract_events`, `engine_jobs.dart`) | three maps by job id, one event queue per job, the waiter's pending maps | `submit`, completion, `take_result`, `take_events`, `cancel_kind`, `cancel_all`, shutdown | tokio tasks, Dart isolates, cancellation | cancels and completions in any order; poll loop that must not hang |
| LAN pairing (`lan::pairing`, `lan::auth`, `lan::server`, `ffi::engine_lan`) | code, devices, token index, stream tickets; the stored device list | pair, revoke, bearer check, tickets, export, restore, start, stop, turn off | HTTP handlers, app calls, storage | revocation against handlers in flight; memory and storage out of step |
| `storage` | a map in memory, the file, its `.bak` and temporary file | `open`, `get`, `set` | LAN, provider health, settings | kills and power loss between file operations |
| torrent engine, LAN lease and idle watch | session, active slot, previous swarm, files; the lease of the TV that opened a torrent | start, stream, list, switch, stop, remove, clear, reclaim; open, close, tick | LAN `/open`, player | state kept across awaits while anything else acts |
| provider health | verdicts and running totals per identity scope, and their stored copies | record, clear, migrate, switch scope | storage | a stop between two writes; totals that must not drift |
| extract engine | a stack of QuickJS runs per job | run, hop, timers, host calls | jobs, cancellation | JS that never returns keeps its own timeout from being polled |
| plugin fetch | the redirect chain of one call | resolve, send, redirect, read | plugins | a check of one hop standing for the next |
| streaming proxy | the one instance, path sessions, LAN routes; segment slots; chunk files | start, stop, sessions, `ensure_stripped_segment`, downloader and readers | player, LAN server, app | two owners of one instance; shared fetches; reconnects |
| IPTV | Stalker session cache, page walks; the catalog database; scrape cursors | connect, walk, page, replace, clear, scrape | cancellation, worker threads | pages racing for one session; multi-step reads and writes |
| live sports | shortlist, batches, EPG and live caches | search, batch | portals | each batch rebuilds what the last one saw |
| stream ranking | none | order providers and sources | provider health | sorts over several keys with caps |
| stremio, subtitles, tmdb, indexer, metadata, scrapers | none | HTTP requests, parsing | cancellation | string work |

## Modules

| Module | Models |
|---|---|
| `CancelTokens` | the process-wide part of `engine_cancel.rs`, shared by the next two |
| `EngineCancel` | threads in the three cancel scopes against `request*` |
| `EngineJobs` | job store, event queues, waiter isolate, cancelling hosts |
| `LanPairing` | pairing state, handlers, host calls, storage and restarts |
| `DurableMap`, `Storage` | what a caller of `storage` may rely on; `storage`, one action per file operation |
| `TorrentEngine` | opens and switches step by step, stop, remove, clear, reclaim, restarts; lease, `/close`, idle watch, history |
| `ProviderHealth` | verdicts, totals, scopes, migration, restarts between writes |
| `PluginRun` | a plugin run with hops, timers, host calls, deadline and interrupt handler |
| `PluginFetch` | a plugin's fetch, hop by hop |
| `ProxyServer` | the proxy instance with its two owners, path sessions and LAN routes |
| `HlsAhead` | the segment cache that fetches ahead of the player |
| `HlsPlaylist` | playlist rewriting, prefetch windows, byte ranges, segment unwrapping, as functions |
| `SeekProxy` | the seekable proxy: downloader, chunk files, readers |
| `StalkerPortal` | a catalog job: handshake, cached token, retries, parallel and serial page walks |
| `CatalogDb` | the catalog database and the paging calls of the host |
| `RedditScrape` | the catalog worker's walk over Reddit listings |
| `SportMatch`, `SportStreams` | the matcher's verdict on a channel; the batched search over it |
| `StreamRank` | provider and source order, as functions |
| `Sorting` | what it is to sort, cut and lay end to end, by the places of the elements; used by the modules that do |
| `MCEngineJobs`, `MCLanPairing` | symmetry sets |
| `MCHost`, `MCCalls`, `MCServices` | several independent components checked in one run each; `part` picks the one that runs |
| `MCRank`, `MCPlaylist` | bounded requests of `StreamRank`; bounded playlists of `HlsPlaylist` |
| `EngineProofs` | theorems about `EngineCancel`, `PluginFetch` and `ProviderHealth` |
| `EngineJobsProofs`, `LanPairingProofs`, `StorageProofs` | theorems about the module before the suffix |
| `StreamProofs` | theorems about `TorrentEngine` and `StreamRank` |
| `IptvProofs` | theorems about `StalkerPortal`, `CatalogDb`, `RedditScrape`, `SportMatch` and `SportStreams` |
| `ProxyProofs` | theorems about `HlsAhead`, `ProxyServer`, `SeekProxy` and `HlsPlaylist` |
| `SetLemmas` | lemmas about finite sets and the operators of `Sorting`: sums, least and greatest members, orders, places |

Definitions that are named after a bug and used by nothing (`SkipSync`, `CommitAlways`, ...)
are mutations: each shows that the property listed with it in `PROJECT.json` fails when the
code is changed that way.

## How the models correspond to the code

**CancelTokens / EngineCancel** (`crates/utils/src/engine_cancel.rs`). A token stored in
ROOT or CATALOG is a generation number; a child token is its parent's number and is
cancelled when that generation is in `deadRoots` / `deadCatalogs`. tokio's `Notified` is the
number of `notify_waiters` calls made before it was created. A thread's `pc` is the point
its call has reached: `minted` and `registered` are the gaps in which the code has taken a
token or created a `Notified` and not yet read the latch; `notify`, `catalog` and `root` are
the gaps inside `request_shutdown`. `waiting` is the `select!`; `SelectFuture` may always
win it, as the macro picks at random among ready branches.

**EngineJobs** (`crates/ffi/src/engine_jobs.rs`, `crates/engine/src/extract_events.rs`,
`packages/rust/lib/src/engine_jobs.dart`). `outcomes`, `tokens` and `kinds` are the maps of
`JobStore`; a step is what one lock section does. `submit` is two steps (mint the token,
insert) followed by the Dart send. A tick of the waiter visits the watched ids one by one,
and a visit is four steps: first drain, `take_result`, its clear of the queue after the
unlock, second drain and reply. What a job computes is abstracted to `answer` or
`cancelled`. `cancel_all` is a sweep and, after the unlock, `request`.

**LanPairing** (`crates/lan/src/pairing.rs`, `auth.rs`, `server.rs`,
`crates/ffi/src/engine_lan.rs`, `lan_server_service.dart`). `devices`, `token_index` and
`tickets` are the maps of `PairingState`; random strings are numbered as they are
generated, so two are never equal. A handler is admitted (`authed`) before its body is read,
changes the pairing, exports it and writes the export: four separate steps. The write
changes the store's map (`stored`) and flushes it to the file (`saved`); a flush may fail,
which `engine_lan.rs:230` drops, and the set of any other key repairs it. A start of the
server restores what is in the map, a start of the process reads the file. Expiry of codes
and tickets may happen at any time.

**Storage / DurableMap** (`crates/storage/src/lib.rs`). The whole map is the number of the
set that produced it. One action per file operation of `atomic_write` and of the restore in
`load_json_map`; `fs::copy` is a truncation followed by the contents. The disk is a model of
the file system, not of code here: `flushed`, `before` and `linked` say what a power loss
would leave. `DurableMap` is what a caller may rely on while the process can be killed; the
mapping takes `durable` to the version an open would find.

**TorrentEngine** (`crates/torrent/src/lib.rs`, `disk_cache.rs`, `crates/lan/src/idle_watch.rs`,
`server.rs`, `lib.rs`). A swarm is the id the librqbit session gives it. An action of an open
is the stretch between two awaits of `stream_magnet` / `prepare_add` / `finish_prepare`:
add (cached metadata first, then the magnet), wait for storage, publish as active, select,
wait for the head, ready; each await may fail, time out or be cancelled, and the session may
have registered the swarm by then. `reclaim_disk_cache` may evict any file but the active
one's; which one its LRU order picks is left open. `playing` is the swarm behind the URL the
player was given last. The idle watch is split where it awaits the engine, so that it acts
on what it read before.

**ProviderHealth** (`crates/engine/src/provider_health.rs`). A handler changes memory, then
writes its maps one by one; the process may stop after any of them, and any of them may fail
unnoticed. All calls are synchronous ones of the app's UI isolate
(`ProviderScoreMemory`, `SourceOrderEngine`), so one ends before the next begins. The store's
own locks would not be enough for two threads: `set_identity_scope` lets go of them between
emptying the maps and changing the scope. `earned` records which scope a verdict was given in.

**PluginRun** (`crates/engine/src/extract.rs`). A job is the stack of its runs; while one
executes JS, none of the timers, timeouts and cancellations of the task is polled, and only
the interrupt handler acts. A timer's callback executes beside what the plugin awaits, and its
error is dropped. JS steps are not fair.

**PluginFetch** (`crates/engine/src/fetch_guard.rs`, `chrome_fetch.rs`). An origin is a host
and port; every lookup may answer differently. One action for the resolve with its check,
the pinned send, the redirect with its method, body and credential rules, and the capped
read. Addresses are "public" or "local".

**ProxyServer** (`crates/ffi/src/engine_proxy.rs`, `crates/proxy/src/lib.rs`, `ext.rs`,
`LocalServerService`, `engine_lan.rs`). An instance is a number, its own port and token.
`refused` is set when a request for a URL that was handed out is not served.

**HlsAhead / HlsPlaylist** (`crates/proxy/src/hls.rs`). A slot is the `watch` channel a
waiter holds: once it leaves the map the waiter's record keeps its value. A closed
connection drops its fetch and leaves the deferred removal to run. In `HlsPlaylist` a line is
a record with its kind; rewriting, decoy removal, prefetch windows and ranges are functions
of a sequence of lines. A URL has its host, folder and name, what follows its further double
slashes (`extra`) and what its escapes hide (`esc`): `collapse_double_authority` takes for a
host whatever follows a double slash and has a dot, and `handler_target` is the target after
the handler's own decoding and repair.

**SeekProxy** (`crates/proxy/src/seek111477.rs`, `crates/ffi/src/engine_seek111477.rs`). A
byte is the upstream position it came from. The downloader's pieces, chunk rollover,
reconnects and resume point, the readers' ranges, and start, stop and purge are actions; a
stop is the abort, the removal of the cache directory and the aborted task's last poll. A
piece is counted when it is handed to tokio's blocking pool: the last `unlanded[c]` bytes of chunk
file `c` are still on their way, land in parts, may overtake one another or be lost, and a
removal takes them along. The length is what the probe was told, per session.

**StalkerPortal** (`crates/iptv/src/stalker_client.rs`). One record per call of `get_js`;
`connect` is caller 0 and page `p` is caller `p`. Page 1 and a serial walk run in the job's
task; a task of a parallel walk has no token of its own and asks the job token of whichever
worker thread polls it. A portal error may be transient or not; tokens may expire at any
time.

**CatalogDb** (`crates/iptv/src/catalog_db.rs`, `portal_catalog_page.dart`). An operation is
the sequence of tables its SQL statements commit, so that a kill keeps a prefix. A page call
takes the lock three times. **RedditScrape** (`crates/iptv-worker/src/main.rs`,
`reddit_catalog.rs`): cursors, OAuth with RSS as the fallback, also after an answer that is no
listing, the cap on what one text of a post gives and the one at which a page stops reading,
pastes that cannot be fetched, and the writes at the end of a run. Which portals of a text
over the cap are kept is left open, and so is the order of a post's deep texts.

**SportMatch / SportStreams** (`crates/live-sports/src/sport_match.rs`, `xtream_sport.rs`,
`stalker_sport.rs`, `portal_live_tv_search.dart`). A text is its sequence of words; a lexicon
says of each word what the stop lists and length tests say. The matcher's verdicts are
computed by `SportMatch` and given to `SportStreams` as the channel's `shows`, `guided` and
`strong`. The shortlist maps a place in the list to the channel's place in the ranking, which
is counted (one more than those that rank before it), so that the batches are intervals of
these numbers.

**StreamRank** (`crates/stream/src/source_order.rs`, `normalize.rs`, `select.rs`). Ids are
numbers; a source's text is the set of keywords the code looks for.

**Sorting.** A stable sort is written as what it leaves where, and not as how it gets there:
`InOrder(S, below)` puts the member with n members below it at place n + 1, and an order is
its sets of members below. `Keyed(S, key, below)` is the order of `sort_by_key` (by the key,
and where keys are equal as before); `Picked(s, keep)` is `retain` and `filter` (the places
kept, upwards); `EndToEnd` is `concat`. `StreamRank`, `CatalogDb` and `HlsPlaylist` use them
where the code sorts and filters.

## Runs

| Run | Instance | Shows |
|---|---|---|
| `host` | 2 jobs, 3 kinds, 1 canceller, capacity 1, 2 rows; 2 devices, 2 handlers and the host, 3 codes, 2 tokens, 1 ticket, failing writes | `StoreConsistent`, `OutcomeFinal`, `CancelAllReachesMinted`, `AbortSparesOtherKinds`, `AnsweredQueueGone`; `IndexInvertsDevices`, `TicketsOfCurrentTokens`, `CodePairsOnce`, `DurableUnlessOverlapped` |
| `jobs_liveness` | 2 jobs, 1 host | `AbortedJobAnswered`, `ShutdownAnswersAll` |
| `jobs_rows` (violated) | 1 job, 2 rows | rows emitted late are not shown |
| `lan_revoked` (violated) | 2 devices, 1 handler and the host, 4 codes | a revoked token returns after a restart |
| `lan_off` (violated) | 2 devices, 1 handler and the host, 3 codes | turning LAN off misses a device |
| `storage_damage` (violated) | 2 sets, kills and a damaged file | an empty primary hides a whole backup |
| `torrent` | 2 openers, 1 TV and the host, 2 torrents, 2 opens | `OnlyActiveDownloads`, `SwitchSparesPlayed`, `AbandonedLeaseEnds` |
| `torrent_reopen` (violated) | 1 opener, the host, 2 opens | a failed open of the torrent being played deletes it |
| `calls` | 2 threads and 3 cancels; plugin runs with two hops, 2 host calls; 2 segments, 1 client and the prefetches; 3 sets under kills | `FreshTokensLive`, `NoLostShutdown`, `PlaybackCancelSparesCatalog`, `ShutdownUnblocks`; `PluginEnds`; `AheadAccounting`, `OneFetchPerUrl`, `WaitersEnd`; `ImplementsDurableMap` |
| `services` | one small instance of each component, `MCServices.cfg` | `NoTruncatedWrite`, `AckedSurvives`, `NoPhantomTotal`, `ScopesApart`, `ShelfWhole`, `PagesCover`, `CatalogWhole`, `ScrapeCovers`, `BatchesAddUp`, `FetchConfined`, `UrlsServed`, `SeekServesUpstream`, `PlaylistServed`, `OrdersKept` |
| `stalker_stale` (violated) | 3 pages, 2 at a time, 2 workers | a cancel of an earlier job costs a later one a page |
| `rank_moves` (violated) | the requests of `MCRank` | a provider moves further than the cap |

The components of `host`, of `calls` and of `services` share no state in the code paths modelled; a
behaviour picks one in its first state and the others stay as they are. A property of one
component is not weakened by that, since its whole state graph is explored.

**Bounds.** *Threads:* two are enough for one to shut down while the other is in any gap of
its call, and three cancels for a shutdown to follow, or be cleared before, another. *Jobs:*
two jobs and one canceller give every order of two lock sections on the store; a queue of
capacity 1 meets its limit with the second row. *LAN:* two devices and two tokens allow a
device to pair again, or another to pair, while one is revoked; two handlers and the host give two
overlapping changes with a third party. *Storage:* three sets reach a failed directory sync,
a later set on top of it and one more after a crash. *Torrent:* two swarms are a played one
and the one switched to; two opens are a play and a switch, one after the other or, by the
other opener, beside it, with any stop, removal, reclaim, clear or restart between their
awaits. *Plugin run:* two hops, the code's three less one (`extract.rs:480`): a run that is
first, one in the middle and one that is too deep to hop; any of them, or a callback of its
timers, may loop. *Segments:* two URLs and a capacity of two reach eviction and the over-large segment.
*Health:* three verdicts over two titles and two scopes reach the floor, a switch and a
restart. *Fetch:* two redirects there and back between two origins. *Proxy:* three starts
let each owner start under the other; two sessions reach the limit. *Seek:* three bytes in
chunks of two, one reconnect, wrong lengths below and above the right one, writes that land
late, swapped, in part or never. *Stalker:* three pages two at a time leave one to spawn later;
two attempts; two troubles, three in the violated run. *Catalog database:* one identity, one
shelf, pages of one and of two rows, three answers with repeated and empty ids, one page
call, two kills. *Reddit:* three subreddits of up to five posts, pages of two and three posts, and a cap of
three portals: the first subreddit has several pages and reaches the cap without exceeding
it, so that it is covered un-lost, the last has a post with four.
*Sports:* eight channels in three lists, with their folders' names and without, two games, shortlists of four in batches of two.
*Playlists:* every sequence of up to four of eleven blocks, among them a second authority, a
double slash that stays, one that is taken for an authority, and an escaped URL. *Ranking:* every request
of `MCRank`.

**Deadlock.** It is not checked (`CHECK_DEADLOCK FALSE`) because all instances may stop: job
ids, tokens, codes, sets, opens, starts, calls and events run out, and the part of `services`
that only evaluates functions takes no step. That waiting calls end is stated by the
liveness properties instead.

**Fairness.** `EngineCancel`: weak fairness of every step a started call must take; threads
are scheduled by the system, while the wrapped futures are never assumed to complete.
`EngineJobs`: weak fairness of a started submit, of the isolate's event loop and of a
started cancel; strong fairness of handling the next queued command, since the isolate's
event queue is first-in first-out and the timer cannot overtake a command for ever.
`RunFairness`: a run whose deadline passed or that was cancelled is polled unless it executes
JS, and then the interrupt handler is called, as QuickJS does every so many instructions (an
interrupt in a timer's callback ends the callback only, `extract.rs:948`, and the run is then
polled); deadlines pass. `AheadFairness`: a client's own steps and its wait's timeout; fetches are not
fair. `TorrentFairness`: the idle watch ticks, its engine calls return, time passes; opens
are not fair. All other runs check safety only.

## Findings

- `jobs_rows`: `engine_jobs.dart:140` promises `onRow` for each `ctx.emit` payload before the
  final JSON; `take_result` clears the queue before the last drain, so rows emitted after
  the tick's first drain are lost.
- `lan_revoked`: the export of the devices and its write are not atomic
  (`engine_lan.rs:227`). A `/pair` whose export was taken before a revocation can be written
  after it; the next start restores the revoked token, although RFC 022 says that revoking
  forces re-pairing.
- `lan_off`: `stopAndClearPairing` revokes a list taken while the server still accepts
  pairings, although the settings page says that all devices are revoked.
- `storage_damage`: an empty primary is read as the empty map, although the comment on
  `load_json_map` says that open falls back on the backup when the primary is empty; the
  restore's own copy, cut short, leaves such a file.
- `torrent_reopen`: a magnet that names the active torrent (another file of it, such as the
  next episode of a season pack) leaves `stream_magnet` without a previous slot
  (`lib.rs:525`). When the open then fails at its file, its head or a cancel,
  `restore_active_after_failed_switch` deletes the torrent that is being played, although
  `lib.rs:759` says that switches keep the old stream alive until the new head is confirmed.
- `stalker_stale`: a task of a parallel page walk has no job token and takes the one an
  earlier job left on its worker thread (`stalker_client.rs:723`). If that job was cancelled,
  the page is dropped without an error, although `engine_cancel.rs:56` says that a cancel
  resets for new jobs.

- `rank_moves`: provider ranks are capped at two places from the settings
  (`source_order.rs:9`), but the capped ranks are sorted again (`source_order.rs:200`), so a
  provider that is lifted passes those that sank and may move three. `OrdersKept` states, and
  `ProvidersKept` proves, what does hold: fewer than `2 * MAX_PROVIDER_DISPLACEMENT` places.

One more thing the models show and no run states. Two opens at once, which
`engine_torrent.rs:4` does not serialise, break both torrent properties: `owned_by_player` is
read before the awaits of `finish_prepare`, so a failed open may delete a swarm that the other
one published meanwhile, and a restore may write its old slot over a newer one. The `torrent`
run has two openers; its properties promise nothing once two calls have overlapped (`odd`).

## What the properties leave out

Each property names what the code gives no promise about. `OnlyActiveDownloads` and the
switch properties leave out what follows once a call has overlapped another in the engine (a
listing is one, too), a clear overlapped a call, a magnet spelled its hash in base32, or the
metadata cache answered with the active torrent for another hash (`odd`).
`SeekServesUpstream` leaves out the events collected in `SeekFaults`: two proxies that share
a cache directory, an upstream that answers a range request with the whole file, a piece that
runs past its chunk, an open or a write that fails (`.ok()`, `let _ = f.write_all`) although
its bytes are counted, two writes of one chunk that the pool's threads run in the other order,
a length taken from the `Content-Length` of an answer that is not the file, chunk files left
by an earlier run, and a purge under a running download; each of them does make the proxy
serve wrong bytes or hold the chunk lock for good. A write that is only late is not one of
them. `CatalogWhole` leaves out
cancelled jobs and the pages of `stalker_stale`, and assumes a portal that keeps tokens until
they expire; a portal that keeps one token per device makes parallel pages take each other's
away. `PlaylistServed` says nothing of the file that is asked for when a URI is `Mangled`: it
has a double slash before a part with a dot (also in a query, or before a file name), which
`collapse_double_authority` takes for a host, or escapes that `hls_proxy_handler` decodes a
second time (`hls.rs:1276`); such a segment is requested from the wrong place. `DurableUnlessOverlapped` leaves out overlapping changes (`lan_revoked` shows why).

## Proofs

Theorems hold for every value of the constants, from the named assumptions of the modules
only. TLC evaluates those assumptions in the runs; a hypothesis that a theorem adds is named
with it below. No assumption bounds the number of threads, jobs, devices, segments, sessions,
pages or calls, except by the constant that bounds the model.

**EngineProofs** (cancellation, plugin fetch, provider health)

- `ShutdownNeverLost`: `NoLostShutdown` becomes inductive with `EpochsPast`: no call holds a
  `Notified` numbered above the notifies so far, so the next notify completes every one. A
  call that registered late is caught by the latch it reads afterwards.
- `FreshTokens` needs `DeadAreOlder`: dead generations are below the current one.
  `PlaybackSparesCatalog` is an action property, by cases on the action.
- `Confined` proves `FetchConfined`: what the property says of the requests sent,
  `CallConfined` says of the call between its hops.
- `Apart` proves `ScopesApart`: each write takes to storage only verdicts that memory has, a
  switch takes to memory only those that the scope's own copy has, and the invariant covers
  the maps from before scopes too, which a process may leave behind when it stops in
  mid-migration.
- `NoPhantom` proves `NoPhantomTotal`. `Backed` says of one record of maps that each
  provider's total is between zero and the sum of what its titles' verdicts are worth;
  `TotalsInv` says it of the memory and of every stored copy, the one from before scopes
  included. A rise of a title's net is credited only beyond what the floor had eaten, so it
  adds no more to the total than to what the title is worth; a fall takes off at least as
  much, or all there is; and totals rebuilt from old maps are floored sums of the nets.

**EngineJobsProofs.** `StoreConsistent` is inductive relative to the types, because each lock
section changes the three maps together; `OutcomeFinal` follows from the same case split.
`CancelAllReachesMinted` needs `ReachInv`: every older ROOT is dead and the jobs a finished
`cancel_all` saw are children of an older ROOT, so its request kills what the sweep missed.
`AnsweredQueueGone` needs `QueueInv`: a job's own answer, wherever it is (store, waiter,
caller), means that its task is over, so nothing pushes after the clear.

**LanPairingProofs.** `IndexInvertsDevices` needs that tokens are fresh everywhere they can be
restored from: memory, storage and snapshots hold only generated tokens, each of one device
(`RecordsSound`). `TicketsOfCurrentTokens` follows from it and from the look-up in the mint.
`DurableUnlessOverlapped` needs `DurableInv`: while nothing overlapped, a thread past its
change has, or will export, exactly the devices in memory; and `FileInv`: the file is behind
the map only while the last write has failed.

**StorageProofs.** `NoTruncatedWrite` needs `WriteInv` (what is renamed was synced, an
untainted primary is whole in the directory on the disk too). `AckedSurvives` needs `AckInv`
on top: after an acknowledged set the primary and what a power loss would leave of it are at
least that version. `Implements` is the refinement under `KillsOnly`: with `RefInv` (the
primary is whole or nothing exists; before the rename memory is ahead of the primary, after
it equal), each step is a step of `DurableMap` or a stutter, and the rename is the commit.

**StreamProofs**

- `OnlyActive` and `SwitchSpares` prove both torrent properties for any number of openers,
  torrents, TVs and calls, without a further hypothesis: what the properties leave out is in
  `odd`, and as long as that has not happened one call at a time is at work (`OneCallSteps`,
  `AtWork`), whichever opener makes it. What may download in the middle of a call depends on
  how far it is. `CallInv` says which swarms may: the active one, the one the call itself added and
  does not show yet, and the one it switches away from; `SlotKnown` says what the call may
  still rely on after the stops, removals, clears and idle pauses that happen at its awaits:
  the slot is its own swarm or empty. `SwarmsNamed` keeps two swarms of the session from
  having one hash, so that adding a magnet twice finds the first.
- `ProvidersKept`: for any candidates, settings and reliabilities, and any cap and clamp,
  `order_providers` loses no candidate, tries none twice, moves none by twice the cap or more,
  and never swaps two on which settings and reliability agree. A place in a sort is one more
  than the number of members below (`RankInOrder`), so a move is the difference of two
  cardinalities: whoever overtakes a provider has an effective rank at most the cap above its
  settings rank, and ranks that differ by the cap or more are not swapped by it
  (`EffectiveIs`, `LargerBy`, `ReorderedBounds`).
- `SourcesKept`: for any sources, device and blocklist, `rank_sources` offers each URL that is
  not blocked once, keeps the order of the providers, and within one offers what the device
  cannot decode after what it can play. That comes from the size of the penalty in the score:
  it outweighs the height, the latency and the kind together (`ScoreParts`, `PlayableFirst`).
- `Ranked` puts the two together to `OrdersKept`, for every request they cover instead of those
  of `MCRank`. They use `DisplacementIsPositive` and `ClampIsNat` and no bound on lengths.

**IptvProofs**

- `Whole` proves `CatalogWhole` for any number of pages, width of the walk and retries, from
  a portal that keeps tokens until they expire (`OneToken = FALSE`). Three facts carry it: a
  token that was given out is accepted or expired (`TokensSound`), so a refused token is the
  portal's doing; a call that failed was refused or cut by a cancel (`FailuresMeant`); a page
  before the next one to spawn is in the result, refused or still being fetched, and pages
  after it are missing only in a serial walk that was refused one (`Spawns`, `Covered`).
  Every step of a call is an instance of one lemma (`CallStep`).
- `Shelved` proves `ShelfWhole`. The tables of a file are taken as one value: every commit of
  every operation, and so every prefix a kill may leave, takes whole tables to whole tables
  (`WholeTables`).
- `PagesKept` proves `PagesCover`, for any page size and catalog, from the invariant of
  `Shelved`: the rows of a shelf come from one catalog, and `replace_shelf` gave each a place
  and an id of its own (`RowsApart`, `StoredApart`), so every sort of a page query is an order
  (SQL's `ORDER BY` ends with the place) and the same one at every call. A page is the part
  of the matching rows between two places in it, the next one starts where it ends, and
  `has_more` is clear exactly when nothing is behind it (`CoveredIs`, for any filters and
  the three sorts; `Requests` is what the run asks). That holds of one state of the
  database; a shelf replaced between two pages is outside of it, as it is in the code.
- `Scraped` proves `ScrapeCovers`: the cursor, a string that only names a subreddit and a
  place in it, is tied to what was read (`Gathered`): all posts before it and none after,
  each once, with their portals taken, unless their subreddit is among the lost ones. A body
  that fits is kept whole on each of the three ways to a page (`OpsPageIs`, `BodiesPageIs`).
- `BatchesAdd` proves `BatchesAddUp`. Nothing but an offset and the ids shown pass from one
  batch to the next, so `SportInv` speaks of the list that all calls found, if they found
  one: the shortlist is the same at every call, its channels up to the offset are shown if
  the matcher takes them with their programme, and nothing is shown that it would not. The
  places of the shortlist are a numbering from one on (`Placed`), so the batches leave none
  out. A cached programme that expires between two batches does no harm because the matcher's
  verdicts agree: a channel that has no programme is judged by its names, and the names
  alone have shown none, or the search would have ended with its first pass.
  `SportStreams` assumes that agreement of its channels (`MatcherAgrees`); `VerdictsHold`
  proves it of the verdicts of `SportMatch`, for games that have a token to look for.

**ProxyProofs**

- `FetchedOnce` proves `OneFetchPerUrl`: a slot has one owner (`OneOwner`), is pending until
  it is filled and filled until it is listed (`OwnersFill`), and only listed slots are evicted
  (`ListedFilled`), so neither an eviction nor a deferred removal frees a slot that is being
  filled.
- `Accounted` proves `AheadAccounting` on top of that: the byte count is the sum over the
  listed slots (`AccountInv`); only `store` changes what is listed, and what it evicts is the
  shortest prefix that brings the rest under both limits, or all but the newest.
- `Served` proves `UrlsServed`: the app holds the port and token of the instance that listens
  and a mounted route is registered (`AppServed`, `LanServed`); a session that will still be
  owed after the next insertion has fewer than `MAX_SESSIONS` - 1 newer ones now and is not
  past its time, so making room for one more does not reach it (`NewestStay`), and those owed
  are there (`SessionsKept`).
- `Upstream` proves `SeekServesUpstream`: until one of the named faults has happened
  (`SeekInv`), one download adds to the files at a time (`OneRuns`; an aborted one adds its last
  piece before the directory goes), a byte of a chunk file, in it or on its way, is the upstream
  byte of its place, and each file will reach as far as the downloader has come (`BytesRight`),
  so that a reconnect resumes where the file ends.
- `RangesServed` and `SegmentsServed`: a range of a playlist of any length is answered with
  exactly the bytes it names (`RangeServed`), and every segment, in a shell or not, is labelled
  by what it holds (`SegmentServed`).
- `EntriesServed` and `AheadServed`: in a playlist of any length, the player finds every real
  entry once, in its place and under its own tag, and none of the decoys among them
  (`EntriesKept`); what is fetched ahead is what it plays next, for windows of any size
  (`AheadOfPlayer`). Both the rewritten playlist and what is wanted of it pick lines from the
  same blocks laid end to end, so it is enough that they pick the same places: a line has one
  block and one place in it (`LaidLine`, `LaidPlace`), the lines that leave with a decoy are
  those of its block (`DecoyEntry`, `DroppedEntries`), and a rewrite moves only renditions,
  behind the rest (`RewriteIs`, `PickedLines`). Blocks are any sequence of single lines and of
  entries: a tag, blank lines, and its URI (`AnyBlock`), with anything after its double slashes.
  That the handler asks for the file an entry names, and for the URL that was fetched ahead, is
  shown of the URIs that are not `Mangled` (`ResolvedIs`). `PlaylistsServed` puts the four
  together to `PlaylistServed`.

**SetLemmas.** `MapThenSumSet` is a recursive function over the subsets of a finite set that
takes elements out in an order nobody chose. That such a function exists, is one, and that its
value does not depend on the order, is proved by taking a smallest subset that would refute
it (`Smallest`, from the well-founded order of strict subsets), since an induction theorem
with an operator as its parameter cannot be used here. The rest is about `Sorting`: the
members below a member number them from none on, so `InOrder` lists each once; what is picked
by one condition and then by another is picked by both; what is picked from sequences laid
end to end is what is picked from each, laid end to end.

Every invariant and action property the passing runs check is stated by a theorem, and so is
the refinement (`Implements`; the run checks it of the instance `Store` of `Storage`). Only
model-checked are the liveness properties (`AbortedJobAnswered`, `ShutdownAnswersAll`,
`ShutdownUnblocks`, `PluginEnds`, `WaitersEnd`, `AbandonedLeaseEnds`), since the prover does
not reason about fairness, and the seven properties that are violated. The prover takes
`SelectSeq` and `SortSeq` as symbols it knows nothing of, which is why the models write with
the operators of `Sorting` what the code sorts and filters; only `SportMatch` cuts texts with
`SelectSeq`, and `VerdictsHold` is true whatever words that leaves.

## Not modelled

- Torrents: what holds of concurrent opens (see above), the LRU order of the disk cache, peers
  and pieces, the prefetch task, and the contents of the metadata cache. A stop, a removal and
  a reclaim are one step each, although the code awaits the pause, the deletion and the
  reclaim after it has taken the slot: what another call does in between is left out. The opens of the
  runs spell the hash in hex; base32 magnets are in the model but left out of the instance.
- LAN: concurrent `lan_server_start` calls, a handler that outlives the 1.5 s drain, labels,
  `last_seen`, mdns.
- The crypto host, QuickJS itself, subtitle conversion, image and gzip decoding.
- IPTV and sports: Xtream and M3U parsing, extraction of portals from text, one-token Stalker
  portals, the un-batched EPG path, tiers of an answer, the host's cache of search results.
- Rust clients of HTTP services (stremio, subtitles, tmdb, indexer, metadata, scrapers) keep
  no shared state beyond what `engine_cancel` gives them.
- `crates/archive` is not built into the engine and `crates/third_party` is vendored.

Real time is not modelled: time-to-live, the 20 ms poll, the 100 ms kill of the waiter,
deadlines and the 1.5 s drain of the LAN server appear as events that may happen at any
moment or, where stated above, as assumptions. Poisoned mutexes are not modelled.

What would come next, in this order: an open that is safe against a second one, as an
abstract specification for `TorrentEngine`; page calls
of `CatalogDb` between which the shelf is replaced; the composition of `ProviderHealth` with
`Storage` in one state space (now what `storage::set` acknowledges is assumed to be durable).
