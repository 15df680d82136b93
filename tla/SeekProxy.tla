------------------------------ MODULE SeekProxy ------------------------------
(***************************************************************************)
(* crates/proxy/src/seek111477.rs: the seekable proxy.  One downloader     *)
(* reads the upstream file from byte 0 on and appends what it gets to      *)
(* chunk files; readers are served ranges from the chunks that are there.  *)
(* A write is handed to tokio's blocking pool and counted at once: it may   *)
(* reach its file later, after the next one, in part or not at all.         *)
(* crates/ffi/src/engine_seek111477.rs keeps one proxy in SEEK.            *)
(*                                                                         *)
(* All sessions are for the same URL, so they share its cache directory.   *)
(* A byte is the upstream position it came from: chunk file c is right as  *)
(* long as its i-th byte is position c * CHUNK_SIZE + i - 1.               *)
(***************************************************************************)
EXTENDS Integers, Sequences, FiniteSetsExt

CONSTANTS SeekSessions,    \* bound: the starts of a run, 1..n
          Length,          \* upstream length
          WrongLengths,    \* lengths an answer without a range may tell
          CHUNK_SIZE, MAX_RECONNECTS,
          NetSizes,        \* sizes of the pieces the network delivers
          SeekFaults       \* what may go wrong: subset of AllSeekFaults

AllSeekFaults == {"straddle", "full", "leftover", "shared", "purged", "misprobed", "unwritten",
                  "reordered"}

ASSUME SeekConstants == /\ SeekSessions \subseteq Nat \ {0}
                        /\ Length \in Nat \ {0} /\ CHUNK_SIZE \in Nat \ {0}
                        /\ WrongLengths \subseteq 1..(2 * Length)
                        /\ MAX_RECONNECTS \in Nat /\ NetSizes \subseteq Nat \ {0}
                        /\ SeekFaults \subseteq AllSeekFaults

chunk_index(pos) == pos \div CHUNK_SIZE
chunk_start(c) == c * CHUNK_SIZE
Chunks == 0..chunk_index(2 * Length)
Positions == 0..(Length - 1)

VARIABLES seek,     \* SEEK: the session that runs, 0 for None
          session,  \* session[s].pc; .len: FileMeta.length; .have: chunk_bytes
          loader,   \* loader[s]: the downloader task of session s
          file,     \* file[c]: the bytes written to chunk file c; <<>>: none or no file
          unlanded, \* unlanded[c]: how many of them, the last ones, are not in it yet
          reader,   \* one request of a player
          mixed,    \* ghost: the faults that have happened
          garbled   \* ghost: a reader was given a byte of another position

filesVars == <<file, unlanded>>
seekVars == <<seek, session, loader, filesVars, reader, mixed, garbled>>

NoFiles == [c \in Chunks |-> <<>>]
Leftover == [NoFiles EXCEPT ![0] = <<0>>]
NoBytes == [c \in Chunks |-> 0]
IdleReader == [pc |-> "idle", s |-> 0, pos |-> 0, end |-> 0]

SeekInit ==
  /\ seek = 0 /\ reader = IdleReader /\ garbled = FALSE
  /\ session = [s \in SeekSessions |-> [pc |-> "none", len |-> 0, have |-> NoBytes]]
  /\ loader = [s \in SeekSessions |-> [pc |-> "off", at |-> 0, src |-> 0, attempt |-> 0]]
  /\ unlanded = NoBytes
  /\ \/ file = NoFiles /\ mixed = {}
     \/ "leftover" \in SeekFaults /\ file = Leftover /\ mixed = {"leftover"}

(* Bound: one kind of fault in a behaviour. *)
Fault(f) == f \in SeekFaults /\ mixed \subseteq {f}
Notes(f, when) == mixed' = IF when THEN mixed \cup {f} ELSE mixed

chunk_expected_size(s, c) == Max({0, Min({session[s].len - chunk_start(c), CHUNK_SIZE})})
Landed(c) == Len(file[c]) - unlanded[c]
Stopping(s) == session[s].pc \in {"closing", "stopped"}
has_byte(s, pos) == pos < session[s].len /\ session[s].have[chunk_index(pos)] > pos - chunk_start(chunk_index(pos))
LockFree(s) == loader[s].pc # "spin"

-----------------------------------------------------------------------------
(* Start and stop *)

(* The first half of a stop: the session is told, its downloader aborted. *)
Abort(s) == loader' = [loader EXCEPT ![s].pc = IF @ = "stream" THEN "abort" ELSE "off"]

(* The second half: the cache directory goes, and what was on its way to a   *)
(* file in it is written to a file without a name.                           *)
NoCache == file' = NoFiles /\ unlanded' = NoBytes

Starting == \E s \in SeekSessions : session[s].pc \in {"stop", "probe", "wait"}
Closing == \E s \in SeekSessions : session[s].pc = "closing"

(* seek111477_start stops the proxy that runs, then probes the URL.  The     *)
(* host queues its starts, and a stop of its own blocks it.                  *)
seek111477_start(s) ==
  /\ session[s].pc = "none" /\ \A r \in SeekSessions : r < s => session[r].pc # "none"
  /\ ~Starting /\ ~Closing /\ seek' = 0
  /\ IF seek = 0 THEN session' = [session EXCEPT ![s].pc = "probe"] /\ loader' = loader
     ELSE session' = [session EXCEPT ![s].pc = "stop", ![seek].pc = "closing"] /\ Abort(seek)
  /\ UNCHANGED <<filesVars, reader, mixed, garbled>>

seek111477_stop ==
  /\ seek # 0 /\ seek' = 0
  /\ session' = [session EXCEPT ![seek].pc = "closing"] /\ Abort(seek)
  /\ UNCHANGED <<filesVars, reader, mixed, garbled>>

(* Seek111477Proxy::stop, after the abort. *)
remove_dir_all(s) ==
  /\ session[s].pc = "closing" /\ NoCache
  /\ session' = [r \in SeekSessions |->
                    IF r = s THEN [session[r] EXCEPT !.pc = "stopped"]
                    ELSE IF session[r].pc = "stop" THEN [session[r] EXCEPT !.pc = "probe"]
                    ELSE session[r]]
  /\ UNCHANGED <<seek, loader, reader, mixed, garbled>>

(* The aborted task is at its next await.  (An open that it still waited for *)
(* may leave an empty file in the directory.)                                *)
Aborted(s) ==
  /\ loader[s].pc = "abort" /\ loader' = [loader EXCEPT ![s].pc = "off"]
  /\ UNCHANGED <<seek, session, filesVars, reader, mixed, garbled>>

(* No answer, or too many redirects. *)
follow_redirects_fails(s) == session' = [session EXCEPT ![s].pc = "failed"]

(* Up to four tries, as lock pages are met and unlocked, find the length or  *)
(* fail.  It is the total of the answer's range, or else its Content-Length, *)
(* whatever the status.  The chunk files that are there are taken for        *)
(* downloaded and the downloader starts.                                     *)
probe(s) ==
  /\ session[s].pc = "probe"
  /\ \/ \E l \in {Length} \cup WrongLengths :
          /\ l # Length => Fault("misprobed")
          /\ session' = [session EXCEPT ![s].pc = "wait", ![s].len = l,
                                         ![s].have = [c \in Chunks |-> Landed(c)]]
          /\ loader' = [loader EXCEPT ![s].pc = "request"]
          /\ Notes("misprobed", l # Length)
     \/ follow_redirects_fails(s) /\ UNCHANGED <<loader, mixed>>
  /\ UNCHANGED <<seek, filesVars, reader, garbled>>

(* The first byte is there: the proxy goes into SEEK. *)
FirstByte(s) ==
  /\ session[s].pc = "wait" /\ LockFree(s) /\ has_byte(s, 0)
  /\ session' = [session EXCEPT ![s].pc = "up"] /\ seek' = s
  /\ UNCHANGED <<loader, filesVars, reader, mixed, garbled>>

(* 90 s without one: start fails, the downloader it spawned goes on. *)
FirstByteTimesOut(s) ==
  /\ session[s].pc = "wait" /\ (LockFree(s) => ~has_byte(s, 0)) /\ Fault("shared")
  /\ session' = [session EXCEPT ![s].pc = "failed"] /\ mixed' = mixed \cup {"shared"}
  /\ UNCHANGED <<seek, loader, filesVars, reader, garbled>>

(* The settings clear the caches, a proxy that runs or not. *)
InUse == seek # 0 \/ Starting \/ \E s \in SeekSessions : loader[s].pc \notin {"off", "end"}

purge_cache ==
  /\ file # NoFiles /\ NoCache /\ (InUse => Fault("purged")) /\ Notes("purged", InUse)
  /\ UNCHANGED <<seek, session, loader, reader, garbled>>

-----------------------------------------------------------------------------
(* The downloader *)

Retry(s) == loader' = [loader EXCEPT ![s].attempt = @ + 1,
                                     ![s].pc = IF loader[s].attempt < MAX_RECONNECTS
                                               THEN "request" ELSE "end"]

(* A lock page was solved: the request is made again, with all its tries. *)
try_unlock_download_lock(s) == loader[s].attempt > 0 /\ loader' = [loader EXCEPT ![s].attempt = 0]

(* A ranged GET from the write offset on: refused, a lock page, the range, or *)
(* the whole file (200), which is taken for the range.                        *)
RequestRange(s) ==
  LET l == loader[s] IN
  /\ l.pc = "request"
  /\ \/ Retry(s) /\ mixed' = mixed
     \/ try_unlock_download_lock(s) /\ mixed' = mixed
     \/ /\ l.at < Length /\ mixed' = mixed
        /\ loader' = [loader EXCEPT ![s].pc = "stream", ![s].src = l.at, ![s].attempt = 0]
     \/ /\ l.at \in 1..(Length - 1) /\ Fault("full")
        /\ loader' = [loader EXCEPT ![s].pc = "stream", ![s].src = 0, ![s].attempt = 0]
        /\ mixed' = mixed \cup {"full"}
  /\ UNCHANGED <<seek, session, filesVars, reader, garbled>>

(* chunk_bytes after add_range(first, last): every chunk in the range counts *)
(* from its start to last.                                                   *)
add_range(s, first, last) ==
  [c \in Chunks |->
     LET n == Min({last, chunk_start(c) + chunk_expected_size(s, c) - 1}) - chunk_start(c) + 1
     IN  IF c \in chunk_index(first)..chunk_index(last) THEN Max({n, session[s].have[c]})
         ELSE session[s].have[c]]

(* The file is opened for appending, so where the piece lands is the file's  *)
(* length and not the offset that was sought; a piece that runs past its     *)
(* chunk goes whole into the one file.  It is on its way when write_all      *)
(* returns.                                                                  *)
Append1(c, n, src) == /\ file' = [file EXCEPT ![c] = @ \o [i \in 1..n |-> src + i - 1]]
                      /\ unlanded' = [unlanded EXCEPT ![c] = @ + n]

(* What goes wrong with a piece: it runs past its chunk, its file does not   *)
(* open (open(..).ok()), or its task was aborted and the directory removed   *)
(* while it was in its last poll.                                            *)
Wrong(s, n, opened) ==
  {f \in {"straddle", "unwritten", "shared"} :
     \/ f = "straddle" /\ chunk_index(loader[s].at + n - 1) # chunk_index(loader[s].at)
     \/ f = "unwritten" /\ ~opened
     \/ f = "shared" /\ session[s].pc = "stopped"}

(* A piece is written, if its file opens, and counted in any case.  One that *)
(* ends past the length leaves add_range looping under its lock.             *)
Piece(s, n, opened) ==
  LET l == loader[s]
      last == l.at + n - 1
  IN  /\ l.pc \in {"stream", "abort"} /\ l.src + n <= Length
      /\ \A f \in Wrong(s, n, opened) : Fault(f)
      /\ IF opened THEN Append1(chunk_index(l.at), n, l.src) ELSE UNCHANGED filesVars
      /\ session' = IF last >= session[s].len THEN session
                    ELSE [session EXCEPT ![s].have = add_range(s, l.at, last)]
      /\ loader' = [loader EXCEPT ![s].at = last + 1, ![s].src = l.src + n,
                                  ![s].pc = IF l.pc = "abort" THEN "off"
                                            ELSE IF last >= session[s].len THEN "spin"
                                            ELSE IF last + 1 = session[s].len THEN "end"
                                            ELSE "stream"]
      /\ mixed' = mixed \cup Wrong(s, n, opened)
      /\ UNCHANGED <<seek, reader, garbled>>

(* The blocking pool gets on with the writes of a chunk file. *)
Land(c) ==
  /\ \E n \in 0..(unlanded[c] - 1) : unlanded' = [unlanded EXCEPT ![c] = n]
  /\ UNCHANGED <<seek, session, loader, file, reader, mixed, garbled>>

(* The threads of the pool run two writes to a file in the other order. *)
WritesSwap(c) ==
  /\ Fault("reordered") /\ mixed' = mixed \cup {"reordered"}
  /\ \E i \in (Landed(c) + 1)..(Len(file[c]) - 1) :
        file' = [file EXCEPT ![c] = SubSeq(@, 1, Landed(c)) \o SubSeq(@, i + 1, Len(@))
                                      \o SubSeq(@, Landed(c) + 1, i)]
  /\ UNCHANGED <<seek, session, loader, unlanded, reader, garbled>>

(* A write fails, or part of it (let _ = write_all). *)
WriteFails(c) ==
  /\ Fault("unwritten") /\ mixed' = mixed \cup {"unwritten"}
  /\ \E i \in Landed(c)..(Len(file[c]) - 1), n \in 1..unlanded[c] :
        /\ i + n <= Len(file[c])
        /\ file' = [file EXCEPT ![c] = SubSeq(@, 1, i) \o SubSeq(@, i + n + 1, Len(@))]
        /\ unlanded' = [unlanded EXCEPT ![c] = @ - n]
  /\ UNCHANGED <<seek, session, loader, reader, garbled>>

\* The next request starts at the chunk the offset is in.
ResumeAtChunk(s) ==
  /\ loader[s].pc = "stream"
  /\ loader' = [loader EXCEPT ![s].pc = "request", ![s].at = chunk_start(chunk_index(loader[s].at))]
  /\ UNCHANGED <<seek, session, filesVars, reader, mixed, garbled>>

(* The connection ends or breaks: the next request starts at the offset. *)
StreamEnds(s) ==
  /\ loader[s].pc = "stream" /\ loader' = [loader EXCEPT ![s].pc = "request"]
  /\ UNCHANGED <<seek, session, filesVars, reader, mixed, garbled>>

-----------------------------------------------------------------------------
(* serve_root *)

(* bytes=start-end, end clipped to the length; no or a bad range is the whole file. *)
parse_range(start, end, total) == IF start > end \/ start >= total THEN <<0, total - 1>>
                                  ELSE <<start, Min({end, total - 1})>>

serve_root(s, start, end) ==
  LET r == parse_range(start, end, session[s].len)
  IN  /\ reader.pc = "idle" /\ session[s].pc = "up"
      /\ reader' = [pc |-> "read", s |-> s, pos |-> r[1], end |-> r[2]]
      /\ UNCHANGED <<seek, session, loader, filesVars, mixed, garbled>>

wait_for_byte(s, pos) == LockFree(s) /\ (has_byte(s, pos) \/ Stopping(s))

(* One turn of the loop: wait_for_byte, open (502 if there is no file), seek, *)
(* read up to the chunk's end.  A read of nothing is tried again.             *)
ReadTurn ==
  LET s == reader.s  p == reader.pos
      c == chunk_index(p)  off == p - chunk_start(c)
      want == Min({reader.end - p + 1, chunk_expected_size(s, c) - off})
      got == Max({0, Min({want, Landed(c) - off})})
  IN  /\ reader.pc = "read" /\ wait_for_byte(s, p)
      /\ \/ file[c] = <<>> /\ reader' = IdleReader /\ garbled' = garbled
         \/ /\ reader' = IF p + got > reader.end THEN IdleReader
                          ELSE [reader EXCEPT !.pos = p + got]
            /\ garbled' = (garbled \/ \E i \in 1..got : file[c][off + i] # p + i - 1)
      /\ UNCHANGED <<seek, session, loader, filesVars, mixed>>

-----------------------------------------------------------------------------
SeekNext ==
  \/ \E s \in SeekSessions : seek111477_start(s) \/ probe(s) \/ FirstByte(s) \/ FirstByteTimesOut(s)
  \/ seek111477_stop \/ purge_cache
  \/ \E s \in SeekSessions : remove_dir_all(s) \/ Aborted(s) \/ RequestRange(s) \/ StreamEnds(s)
  \/ \E s \in SeekSessions, n \in NetSizes, opened \in BOOLEAN : Piece(s, n, opened)
  \/ \E c \in Chunks : Land(c) \/ WritesSwap(c) \/ WriteFails(c)
  \/ \E s \in SeekSessions, a, b \in Positions : serve_root(s, a, b)
  \/ ReadTurn

SeekSpec == SeekInit /\ [][SeekNext]_seekVars

-----------------------------------------------------------------------------
(* Properties *)

(* A player is given the bytes it asked for, however the downloader's pieces, *)
(* reconnects and retries and the writes that land late fall between its      *)
(* reads, and the chunk lock is never held for good: as long as no piece ran  *)
(* past its chunk, no write failed or overtook another one of its chunk, no   *)
(* reconnect was answered with the whole file, the probe found the file's     *)
(* length, no chunk file was left over from before the first start, the cache *)
(* was not purged under a proxy and no downloader outlived its session.       *)
SeekServesUpstream == mixed = {} => ~garbled /\ \A s \in SeekSessions : LockFree(s)
==============================================================================
