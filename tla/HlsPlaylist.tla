----------------------------- MODULE HlsPlaylist -----------------------------
(***************************************************************************)
(* crates/proxy/src/hls.rs: what the HLS proxy makes of a playlist and of  *)
(* a segment, as functions.                                                *)
(*                                                                         *)
(* A URL is [host, dir, name, extra, esc].  extra lists what follows each  *)
(* further double slash: "plain" up to the next slash without a dot, or    *)
(* else a second authority ("host"), a folder, a file name or part of the  *)
(* query.  esc says what percent-escapes hide: "none", "reserved"          *)
(* characters or the double slash of a "url" in the query.  A URI of a     *)
(* playlist also has a form (absolute, protocol-relative, rooted,          *)
(* relative).  name tells a variant playlist, a still image and a media    *)
(* file apart and is "other" for what is left of a URL.  A line is a record*)
(* with its kind: "uri", "info" (#EXTINF), "inf" (#EXT-X-STREAM-INF, subs: *)
(* it names a subtitle group), "sub" (a subtitle rendition), "key" (any    *)
(* other tag with a URI), "tag", "end" (#EXT-X-ENDLIST) or "blank".        *)
(***************************************************************************)
EXTENDS Integers, Sequences, SequencesExt, FiniteSetsExt, Sorting

NoUri == [form |-> "none", host |-> "", name |-> "", extra |-> <<>>, esc |-> "none"]
Plain(k) == [kind |-> k, uri |-> NoUri, subs |-> FALSE]
UriLine(k, u) == [kind |-> k, uri |-> u, subs |-> FALSE]

-----------------------------------------------------------------------------
(* URLs *)

(* parse-flixcloud?url=... resolves against the nested playlist. *)
hls_relative_base_url(p) == IF p.flixcloud /\ p.nested.host # "" THEN p.nested ELSE p.own

(* https://hostA//hostB/path is hostB's: what follows the first double slash *)
(* is taken for an authority if there is a dot before its first slash, also  *)
(* where it is a folder, a file name or part of a query.                     *)
collapse_double_authority(u) ==
  IF u.extra = <<>> \/ Head(u.extra).as = "plain" THEN u
  ELSE [u EXCEPT !.host = Head(u.extra).text, !.extra = Tail(u.extra), !.dir = "own",
                 !.name = IF Head(u.extra).as \in {"host", "dir"} THEN @ ELSE "other"]

resolve_url(uri, base) ==
  collapse_double_authority(
    [host  |-> IF uri.form \in {"abs", "proto"} THEN uri.host ELSE base.host,
     dir   |-> IF uri.form = "rel" THEN base.dir ELSE "own",
     name  |-> uri.name, extra |-> uri.extra, esc |-> uri.esc])

build_hls_proxy_url(target, strip) == [via |-> "proxy", target |-> target, strip |-> strip]

(* The target as the handler asks for it: the query is decoded, and the      *)
(* target then once more, so that its own escapes are lost; and repaired.    *)
urlencoding_decode(u) ==
  CASE u.esc = "none" -> u
    [] u.esc = "reserved" -> [u EXCEPT !.esc = "none", !.name = "other"]
    [] u.esc = "url" -> [u EXCEPT !.esc = "none", !.extra = Append(@, [text |-> "nested", as |-> "query"])]

handler_target(u) == collapse_double_authority(urlencoding_decode(u))

\* A URL under the session's base becomes a path of the session, others stay.
ToRel(u, session) == [via    |-> IF u.host = session.host /\ u.dir = session.dir THEN "session" ELSE "direct",
                      target |-> u, strip |-> ""]

-----------------------------------------------------------------------------
(* Rewriting *)

IsMedia(l) == l.kind = "uri"
is_plain_image_uri(u) == u.name = "image"
hls_playlist_is_image_bait(body) ==
  /\ \E i \in DOMAIN body : IsMedia(body[i])
  /\ \A i \in DOMAIN body : IsMedia(body[i]) => is_plain_image_uri(body[i].uri)

\* The tag before a decoy stays.
KeepTags(body, i) == {i}

(* The decoy on line i and the segment tag just above it. *)
DecoyLines(body, i) ==
  LET above == {j \in 1..(i - 1) : body[j].kind # "blank"}
  IN  {i} \cup {j \in above : j = Max(above) /\ body[j].kind \in {"info", "inf"}}

drop_mixed_image_decoys(body) ==
  LET decoys == {i \in DOMAIN body : IsMedia(body[i]) /\ is_plain_image_uri(body[i].uri)}
      real == {i \in DOMAIN body : IsMedia(body[i])} \ decoys
      drop == UNION {DecoyLines(body, i) : i \in decoys}
  IN  IF real = {} THEN body ELSE Picked(body, DOMAIN body \ drop)

(* Subtitle renditions leave the playlist for comments; groups leave the     *)
(* variants; every URI is resolved.                                          *)
RewriteLines(body, base) ==
  LET out(l) == [kind |-> l.kind, subs |-> FALSE,
                 play |-> IF l.uri = NoUri THEN NoUri ELSE resolve_url(l.uri, base)]
      lines == Picked(body, {i \in DOMAIN body : body[i].kind # "sub"})
      subs == Picked(body, {i \in DOMAIN body : body[i].kind = "sub" /\ body[i].uri # NoUri})
  IN  [i \in DOMAIN lines |-> out(lines[i])] \o [i \in DOMAIN subs |-> out(subs[i])]

rewrite_hls_playlist(body, p, strip) ==
  LET lines == RewriteLines(drop_mixed_image_decoys(body), hls_relative_base_url(p))
  IN  [i \in DOMAIN lines |-> IF lines[i].play = NoUri THEN lines[i]
                              ELSE [lines[i] EXCEPT !.play = build_hls_proxy_url(@, strip)]]

rewrite_hls_playlist_relative(body, p, session) ==
  LET lines == RewriteLines(body, hls_relative_base_url(p))
  IN  [i \in DOMAIN lines |-> IF lines[i].play = NoUri THEN lines[i]
                              ELSE [lines[i] EXCEPT !.play = ToRel(@, session)]]

-----------------------------------------------------------------------------
(* Prefetch windows *)

hls_media_segment_urls(body, p) ==
  LET segs == Picked(body, {i \in DOMAIN body : IsMedia(body[i]) /\ body[i].uri.name # "variant"})
  IN  [i \in DOMAIN segs |-> resolve_url(segs[i].uri, hls_relative_base_url(p))]

hls_prefetch_media_urls(body, p, n) ==
  LET s == hls_media_segment_urls(body, p)
  IN  IF \E i \in DOMAIN body : body[i].kind = "end" THEN SubSeq(s, 1, Min({n, Len(s)}))
      ELSE SubSeq(s, Max({0, Len(s) - n}) + 1, Len(s))

hls_next_media_urls(ordered, after, n) ==
  IF ~Contains(ordered, after) THEN <<>>
  ELSE LET i == SelectInSeq(ordered, LAMBDA x : x = after)
       IN  SubSeq(ordered, i + 1, Min({i + n, Len(ordered)}))

-----------------------------------------------------------------------------
(* Segments: what is cut out of an image shell.  r says what the bytes hold: *)
(* shell: "none", "riff" or "png"; plain: the bytes are TS as they are;      *)
(* chunk: a RIFF chunk of TS; pixels: TS gzipped into pixels; iend: what is  *)
(* after the letters IEND ("ts", "other" or "none"); at252: TS after a       *)
(* 252-byte header.                                                          *)
IsTs(r) == IF r.plain THEN "ts" ELSE "raw"

strip_png_wrapper(r) ==
  CASE r.shell = "riff" /\ r.chunk -> "ts"
    [] r.shell = "png" /\ (r.pixels \/ r.iend = "ts") -> "ts"
    [] r.shell = "png" /\ ~r.pixels /\ r.iend = "other" -> "rest"
    [] r.shell = "png" /\ ~r.pixels /\ r.iend = "none" /\ r.at252 -> "ts"
    [] OTHER -> IsTs(r)

(* The answer of hls_proxy_handler for anything but a cached segment: q has  *)
(* strip, the URL's kind, the upstream's status and content type and whether *)
(* the body is a playlist.                                                   *)
finish_hls_proxy_body(q) ==
  IF q.ctype = "mpegurl" \/ q.url = "m3u8"
  THEN IF ~q.ok \/ ~q.extm3u
       THEN [ok |-> FALSE, type |-> "text", strip |-> ""]
       ELSE [ok |-> TRUE, type |-> "mpegurl", strip |-> IF q.strip = "png" \/ q.bait THEN "png" ELSE q.strip]
  ELSE IF q.strip = "png"
       THEN [ok |-> q.ok, type |-> IF strip_png_wrapper(q.body) = "ts" THEN "mp2t" ELSE "octets", strip |-> ""]
       ELSE [ok |-> q.ok, type |-> q.ctype, strip |-> ""]

-----------------------------------------------------------------------------
(* Ranges of a playlist.  spec is [given, from, to]: given is FALSE for no    *)
(* header or one that does not parse, a number it leaves out is -1.           *)
Whole == [kind |-> "full", first |-> 0, last |-> 0]
NotSatisfiable == [kind |-> "416", first |-> 0, last |-> 0]

playlist_byte_range(spec, total) ==
  IF ~spec.given THEN Whole
  ELSE IF spec.from = -1
  THEN IF spec.to <= 0 \/ total = 0 THEN NotSatisfiable
       ELSE [kind |-> "206", first |-> Max({0, total - spec.to}), last |-> total - 1]
  ELSE LET end == IF spec.to = -1 THEN Max({0, total - 1}) ELSE spec.to
       IN  IF total = 0 \/ spec.from >= total \/ spec.from > end THEN NotSatisfiable
           ELSE [kind |-> "206", first |-> spec.from, last |-> Min({end, total - 1})]

-----------------------------------------------------------------------------
(***************************************************************************)
(* What the proxy owes a player, for a playlist that is put together of    *)
(* blocks: a segment or a variant with the tag it belongs to, or one line. *)
(* Still images between real entries leave with their tags, and nothing    *)
(* else does: every other entry is there, once, in its place, under its    *)
(* own tag, and sent through the proxy; no subtitle rendition is left      *)
(* among the entries.  The proxy asks for the file that an entry names,    *)
(* unless its URI is one that the repair or the second decoding mangles.   *)
(* What is fetched ahead of a playlist without such images is what its     *)
(* player plays next: the first entries of a whole recording, the last of  *)
(* a live list, and those after the one it asks for, if that one is not    *)
(* mangled.  A range of the rewritten playlist                             *)
(* is answered with the bytes it names that are there, or 416 if none is.  *)
(* A segment is served as MPEG-TS exactly when it is that or hides it in   *)
(* one of the known image shells.                                          *)
(***************************************************************************)
Entries(lines) == Picked(lines, {i \in DOMAIN lines : lines[i].kind \in {"info", "inf", "uri"}})
IsImage(block) == Last(block).kind = "uri" /\ is_plain_image_uri(Last(block).uri)
IsReal(block) == Last(block).kind = "uri" /\ ~is_plain_image_uri(Last(block).uri)
Mixed(blocks) == \E i, j \in DOMAIN blocks : IsImage(blocks[i]) /\ IsReal(blocks[j])

\* The upstream's answer to a request for a playlist without a strip of its own.
PlaylistAnswer(body) == [ctype |-> "mpegurl", url |-> "m3u8", ok |-> TRUE, extm3u |-> TRUE, strip |-> "",
                         bait |-> hls_playlist_is_image_bait(body)]

(* Escapes of reserved characters, or a double slash, but the one of a second *)
(* authority, before a part with a dot.                                       *)
Mangled(uri) == \/ uri.esc # "none"
                \/ \E i \in DOMAIN uri.extra :
                     uri.extra[i].as # "plain" /\ (i = 1 => uri.extra[i].as # "host")

\* The host that a URI of a playlist names.
HostOf(uri, base) == IF uri.extra # <<>> /\ uri.extra[1].as = "host" THEN uri.extra[1].text
                     ELSE IF uri.form \in {"abs", "proto"} THEN uri.host ELSE base.host

EntriesKept(blocks, p) ==
  LET body == EndToEnd(blocks)
      base == hls_relative_base_url(p)
      asked(play) == handler_target(play.target)
      strip == finish_hls_proxy_body(PlaylistAnswer(body)).strip
      out  == Entries(rewrite_hls_playlist(body, p, strip))
      want == Entries(EndToEnd(IF Mixed(blocks)
                             THEN Picked(blocks, {b \in DOMAIN blocks : ~IsImage(blocks[b])}) ELSE blocks))
      path == Entries(rewrite_hls_playlist_relative(body, p, base))
  IN  /\ Len(out) = Len(want) /\ Len(path) = Len(Entries(body))
      /\ \A i \in DOMAIN out : /\ out[i].kind = want[i].kind /\ ~out[i].subs
                              /\ out[i].kind = "uri" =>
                                   /\ out[i].play.via = "proxy"
                                   /\ is_plain_image_uri(want[i].uri) => out[i].play.strip = "png"
                                   /\ ~Mangled(want[i].uri) =>
                                        /\ asked(out[i].play).name = want[i].uri.name
                                        /\ asked(out[i].play).host = HostOf(want[i].uri, base)
      /\ \A i \in DOMAIN path :
           LET uri == Entries(body)[i].uri
           IN  path[i].kind = "uri" /\ uri.form = "rel" /\ (uri.extra # <<>> => uri.extra[1].as = "plain")
                 => path[i].play.via = "session"

AheadOfPlayer(blocks, p, n) ==
  LET body == EndToEnd(blocks)
      lines == rewrite_hls_playlist(body, p, "png")
      shown == Picked(body, {i \in DOMAIN body : body[i].kind # "sub"})
      segs == {i \in DOMAIN shown : IsMedia(shown[i]) /\ shown[i].uri.name # "variant"}
      from == Picked(shown, segs)
      media == Picked(lines, segs)
      asks(i) == handler_target(media[i].play.target)
      ordered == hls_media_segment_urls(body, p)
      ahead == hls_prefetch_media_urls(body, p, n)
  IN  ~Mixed(blocks) =>
        /\ Len(ordered) = Len(media) /\ Len(ahead) = Min({n, Len(ordered)})
        /\ IF \E i \in DOMAIN body : body[i].kind = "end" THEN IsPrefix(ahead, ordered)
           ELSE IsSuffix(ahead, ordered)
        /\ \A i \in DOMAIN ordered : ~Mangled(from[i].uri) =>
             /\ asks(i) = ordered[i]
             /\ (\A j \in 1..(i - 1) : ordered[j] # ordered[i]) =>
                  hls_next_media_urls(ordered, asks(i), n) = SubSeq(ordered, i + 1, Min({i + n, Len(ordered)}))

RangeServed(spec, total) ==
  LET r == playlist_byte_range(spec, total)
      asked == {b \in 0..(total - 1) : IF spec.from = -1 THEN b >= total - spec.to
                                      ELSE b >= spec.from /\ (spec.to = -1 \/ b <= spec.to)}
  IN  IF asked = {} THEN r = NotSatisfiable ELSE r.kind = "206" /\ r.first..r.last = asked

\* What a segment may be: the letters IEND may also stand among compressed pixels.
Shells ==
  {r \in [shell : {"none", "riff", "png"}, plain : BOOLEAN, chunk : BOOLEAN, pixels : BOOLEAN,
          iend : {"ts", "other", "none"}, at252 : BOOLEAN] :
     /\ r.plain => r.shell = "none"
     /\ r.chunk => r.shell = "riff"
     /\ r.pixels \/ r.at252 \/ r.iend # "none" => r.shell = "png"
     /\ r.at252 => ~ r.pixels /\ r.iend # "other"}

SegmentServed(r) ==
  LET q == [ctype |-> "image", url |-> "segment", ok |-> TRUE, extm3u |-> FALSE, strip |-> "png", body |-> r]
  IN  (finish_hls_proxy_body(q).type = "mp2t") <=> (r.plain \/ r.chunk \/ r.pixels \/ r.iend = "ts" \/ r.at252)
==============================================================================
