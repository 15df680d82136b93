------------------------------ MODULE MCPlaylist ------------------------------
(***************************************************************************)
(* What HlsPlaylist makes of every playlist of a bounded set, for the      *)
(* player that asked for it.                                               *)
(***************************************************************************)
EXTENDS HlsPlaylist

VARIABLE playlist   \* the input of the playlist functions: [blocks, p]

Uri(form, name, extra) == [form |-> form, host |-> "h", name |-> name, extra |-> extra, esc |-> "none"]
Segment(u) == <<Plain("info"), UriLine("uri", u)>>
Trailing(as) == <<[text |-> "h2", as |-> as]>>
Blocks == {Segment(Uri("rel", "m1", <<>>)), Segment(Uri("abs", "m2", Trailing("host"))),
           Segment(Uri("rel", "m3", Trailing("plain"))), Segment(Uri("abs", "m4", Trailing("file"))),
           Segment([Uri("rel", "m5", <<>>) EXCEPT !.esc = "url"]),
           Segment(Uri("rel", "image", <<>>)),
           <<Plain("info"), Plain("blank"), UriLine("uri", Uri("root", "image", <<>>))>>,
           <<[Plain("inf") EXCEPT !.subs = TRUE], UriLine("uri", Uri("rel", "variant", <<>>))>>,
           <<UriLine("sub", Uri("rel", "s", <<>>))>>, <<UriLine("key", Uri("abs", "k", <<>>))>>,
           <<Plain("end")>>}
Own == [host |-> "o", dir |-> "d"]
Nested == [host |-> "n", dir |-> "e"]
Playlists == [blocks : UNION {[1..n -> Blocks] : n \in 1..4},
              p : {[flixcloud |-> FALSE, own |-> Own, nested |-> Nested],
                   [flixcloud |-> TRUE, own |-> Own, nested |-> Nested]}]
NoPlaylist == [blocks |-> << >>, p |-> [flixcloud |-> FALSE, own |-> Own, nested |-> Nested]]

(* The player of a rewritten playlist is given every real entry under its    *)
(* own tag, what is fetched ahead is what the handler asks for when it plays *)
(* on, and a range is cut as asked (hls.rs, rewrite_hls_playlist,            *)
(* hls_prefetch_media_urls, hls_proxy_handler and playlist_byte_range), for  *)
(* every playlist of up to four blocks; a block counts as a byte of the      *)
(* range.  Segments are served as what they hold (strip_png_wrapper).        *)
PlaylistServed == /\ EntriesKept(playlist.blocks, playlist.p)
                  /\ AheadOfPlayer(playlist.blocks, playlist.p, 2)
                  /\ \A a, b \in -1..4 : a # -1 \/ b # -1 =>
                       RangeServed([given |-> TRUE, from |-> a, to |-> b], Len(playlist.blocks))
                  /\ playlist.blocks # <<>> => \A r \in Shells : SegmentServed(r)
===============================================================================
