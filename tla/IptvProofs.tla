------------------------------ MODULE IptvProofs ------------------------------
(***************************************************************************)
(* Four parts of IPTV for any values of their constants: a Stalker catalog *)
(* is whole, a shelf of the catalog database is one catalog, the scrape    *)
(* for portals skips no post and reads none twice, and the batches of a    *)
(* search for a match's channels add up to one scan.                       *)
(***************************************************************************)
EXTENDS StalkerPortal, CatalogDb, RedditScrape, SportMatch, SportStreams, SetLemmas,
        FiniteSetTheorems, SequenceTheorems, TLAPS

-----------------------------------------------------------------------------
(* StalkerPortal.  A catalog is whole for any number of pages, any width of  *)
(* the walk and any trouble, from a portal that keeps the tokens it gave out *)
(* until they expire.  Three facts carry it: every token is accepted or      *)
(* expired; a call that failed was refused by the portal or cut by a cancel; *)
(* and every page before the next one to spawn is in the result, refused, or *)
(* still being fetched.                                                      *)

CallPcs == {"off", "session", "handshake", "store", "request", "ok", "failed"}
Calls == [pc : CallPcs, refreshed : BOOLEAN, attempt : Nat, tok : Nat, path : Nat, try : Nat]
Jobs == [pc : {"idle", "connect", "first", "walk", "done", "error", "cancelled"},
         mode : {"none", "serial", "parallel"}, next : Nat, stopped : BOOLEAN, stale : BOOLEAN]

StalkerTypeOK ==
  /\ issued \in Nat /\ valid \subseteq Nat /\ expired \subseteq Nat
  /\ cache \in Nat /\ endpoint \in Nat
  /\ call \in [Callers -> Calls] /\ job \in Jobs
  /\ got \subseteq Pages /\ failed \subseteq Callers

(* A token somebody holds was given out, and is accepted or expired. *)
TokensSound ==
  /\ \A t \in Nat : t # 0 /\ t <= issued => t \in valid \cup expired
  /\ cache <= issued /\ endpoint <= issued
  /\ \A c \in Callers : /\ call[c].tok <= issued
                        /\ call[c].pc \in {"store", "request"} => call[c].tok # 0

Excused == job.stopped \/ job.stale

FailuresMeant == \A c \in Callers : call[c].pc = "failed" => c \in failed \/ Excused

Spawns ==
  /\ job.stopped => job.pc # "idle"
  /\ job.pc \in {"idle", "connect", "first"} => \A p \in Pages \ {1} : call[p].pc = "off"
  /\ job.pc = "walk" => /\ 2 <= job.next
                        /\ \A p \in Pages \ {1} : call[p].pc # "off" => p < job.next

(* Pages up to the next one are accounted for; those from there on are left  *)
(* out only by a serial walk that met a refused page.                        *)
Covered ==
  job.pc \in {"walk", "done"} /\ ~Excused =>
    /\ \A p \in Pages : p < job.next => \/ p \in got \/ p \in failed
                                        \/ job.pc = "walk" /\ p # 1 /\ call[p].pc # "off"
    /\ job.pc = "done" => \A p \in Pages : job.next <= p =>
                            job.mode = "serial" /\ \E q \in failed : q < p

WalkInv == FailuresMeant /\ Spawns /\ Covered
StalkerInv == StalkerTypeOK /\ TokensSound /\ WalkInv

\* An empty call is a call.
LEMMA NoCallIsCall == NoCall \in Calls /\ NoCall.pc = "off" /\ NoCall.tok = 0
  BY DEF NoCall, Calls, CallPcs

\* The first state satisfies the invariant.
LEMMA InitStalkerInv == StalkerInit => StalkerInv
<1> SUFFICES ASSUME StalkerInit PROVE StalkerInv
  OBVIOUS
<1> USE DEF StalkerInit
<1>1. StalkerTypeOK
  BY NoCallIsCall DEF StalkerTypeOK, Jobs
<1>2. TokensSound
  BY NoCallIsCall DEF TokensSound
<1>3. WalkInv
  BY NoCallIsCall DEF WalkInv, FailuresMeant, Spawns, Covered, Excused, Callers, Pages
<1> QED BY <1>1, <1>2, <1>3 DEF StalkerInv

(* A step of one call, which was and stays under way, leaves the walk        *)
(* accounted for if a failure it ends in is one.                             *)
LEMMA CallKeepsWalk ==
  ASSUME StalkerInv, NEW c \in Callers, NEW r \in Calls, Goes(c, r),
         call[c].pc # "off", r.pc # "off",
         UNCHANGED got, failed \subseteq failed', failed' \subseteq Callers, job' \in Jobs,
         job'.pc = job.pc, job'.mode = job.mode, job'.next = job.next,
         job'.stopped = job.stopped, job.stale => job'.stale,
         r.pc = "failed" => c \in failed' \/ Excused'
  PROVE  /\ call' \in [Callers -> Calls] /\ got' \subseteq Pages
         /\ WalkInv'
<1> USE DEF StalkerInv
<1>1. call' = [call EXCEPT ![c] = r] /\ call \in [Callers -> Calls]
  BY DEF Goes, StalkerTypeOK
<1>2. call' \in [Callers -> Calls]
  BY <1>1
<1>3. \A d \in Callers : call'[d] = IF d = c THEN r ELSE call[d]
  BY <1>1
<1>4. \A d \in Callers : call'[d].pc = "off" <=> call[d].pc = "off"
  BY <1>3
<1>5. Pages \subseteq Callers
  BY DEF Callers
<1>6. Excused => Excused'
  BY DEF Excused
<1>7. FailuresMeant'
  <2> SUFFICES ASSUME NEW d \in Callers, call'[d].pc = "failed" PROVE d \in failed' \/ Excused'
    BY DEF FailuresMeant
  <2> QED BY <1>3, <1>6 DEF WalkInv, FailuresMeant
<1>8. Spawns'
  BY <1>4, <1>5 DEF WalkInv, Spawns
<1>9. Covered'
  <2> SUFFICES ASSUME job.pc \in {"walk", "done"}, ~Excused' PROVE Covered'
    BY DEF Covered
  <2>1. ~Excused
    BY <1>6
  <2> QED BY <2>1, <1>4, <1>5 DEF WalkInv, Covered
<1> QED BY <1>2, <1>7, <1>8, <1>9 DEF WalkInv, StalkerTypeOK

(* ... and keeps the whole invariant if its tokens were given out.           *)
LEMMA CallStep ==
  ASSUME StalkerInv, NEW c \in Callers, NEW r \in Calls, Goes(c, r),
         call[c].pc # "off", r.pc # "off",
         UNCHANGED got, failed \subseteq failed', failed' \subseteq Callers, job' \in Jobs,
         job'.pc = job.pc, job'.mode = job.mode, job'.next = job.next,
         job'.stopped = job.stopped, job.stale => job'.stale,
         r.pc = "failed" => c \in failed' \/ Excused',
         issued' \in Nat, issued <= issued', valid' \subseteq Nat, expired' = expired,
         valid \subseteq valid', \A t \in Nat : issued < t /\ t <= issued' => t \in valid',
         cache' \in Nat, cache' <= issued', endpoint' \in Nat, endpoint' <= issued',
         r.tok <= issued', r.pc \in {"store", "request"} => r.tok # 0
  PROVE  StalkerInv'
<1>1. /\ call' \in [Callers -> Calls] /\ got' \subseteq Pages
      /\ WalkInv'
  BY CallKeepsWalk
<1>2. call' = [call EXCEPT ![c] = r] /\ call \in [Callers -> Calls]
  BY DEF Goes, StalkerInv, StalkerTypeOK
<1>3. StalkerTypeOK'
  BY <1>1 DEF StalkerInv, StalkerTypeOK
<1>4. \A t \in Nat : t # 0 /\ t <= issued' => t \in valid' \cup expired'
  BY DEF StalkerInv, StalkerTypeOK, TokensSound
<1>5. ASSUME NEW d \in Callers
      PROVE  call'[d].tok <= issued' /\ (call'[d].pc \in {"store", "request"} => call'[d].tok # 0)
  <2>1. CASE d = c
    BY <2>1, <1>2
  <2>2. CASE d # c
    <3>1. call'[d] = call[d] /\ call[d].tok \in Nat
      BY <1>2, <2>2 DEF Calls
    <3>2. call[d].tok <= issued /\ (call[d].pc \in {"store", "request"} => call[d].tok # 0)
      BY DEF StalkerInv, TokensSound
    <3>3. issued \in Nat
      BY DEF StalkerInv, StalkerTypeOK
    <3> QED BY <3>1, <3>2, <3>3
  <2> QED BY <2>1, <2>2
<1>6. TokensSound'
  BY <1>4, <1>5 DEF TokensSound
<1> QED BY <1>1, <1>3, <1>6 DEF StalkerInv

(* The forms in which the actions change a call. *)
LEMMA CallChanges ==
  ASSUME NEW k \in Calls, NEW pc \in CallPcs, NEW m \in Nat, NEW n \in Nat
  PROVE  /\ [k EXCEPT !.pc = pc] \in Calls
         /\ [k EXCEPT !.pc = pc, !.tok = n] \in Calls
         /\ [k EXCEPT !.pc = pc, !.path = m, !.try = n] \in Calls
         /\ [k EXCEPT !.path = m, !.try = n] \in Calls
         /\ [k EXCEPT !.try = n] \in Calls
         /\ [k EXCEPT !.pc = pc, !.attempt = n] \in Calls
         /\ [k EXCEPT !.pc = pc, !.refreshed = TRUE, !.attempt = n] \in Calls
<1>1. k.tok \in Nat /\ k.path \in Nat /\ k.try \in Nat /\ k.attempt \in Nat /\ k.refreshed \in BOOLEAN
  BY DEF Calls
<1> QED BY <1>1, Zenon DEF Calls

\* What a call holds.
LEMMA CallFields ==
  ASSUME StalkerInv, NEW c \in Callers
  PROVE  /\ call[c] \in Calls /\ call[c].pc \in CallPcs
         /\ {call[c].attempt, call[c].tok, call[c].path, call[c].try} \subseteq Nat
         /\ call[c].tok <= issued
         /\ call[c].pc \in {"store", "request"} => call[c].tok # 0
         /\ issued \in Nat /\ valid \subseteq Nat /\ cache \in Nat /\ endpoint \in Nat
         /\ cache <= issued /\ endpoint <= issued /\ job \in Jobs /\ failed \subseteq Callers
<1>1. call[c] \in Calls
  BY DEF StalkerInv, StalkerTypeOK
<1>2. /\ call[c].pc \in CallPcs
      /\ {call[c].attempt, call[c].tok, call[c].path, call[c].try} \subseteq Nat
  BY <1>1 DEF Calls
<1>3. call[c].tok <= issued /\ (call[c].pc \in {"store", "request"} => call[c].tok # 0)
  BY DEF StalkerInv, TokensSound
<1>4. cache <= issued /\ endpoint <= issued
  BY DEF StalkerInv, TokensSound
<1> QED BY <1>1, <1>2, <1>3, <1>4 DEF StalkerInv, StalkerTypeOK

\* A call takes the token there is, or goes to shake hands.
LEMMA EnsureSession ==
  ASSUME StalkerInv, NEW c \in Callers, ensure_session(c)
  PROVE  StalkerInv'
<1> DEFINE tok == IF endpoint # 0 THEN endpoint ELSE cache
           taken == [call[c] EXCEPT !.pc = "request", !.tok = tok]
           shaken == [call[c] EXCEPT !.pc = "handshake", !.path = 1, !.try = 1]
<1>1. CASE ~call[c].refreshed /\ tok # 0
  <2>1. Goes(c, taken) /\ endpoint' = tok /\ cache' = cache
    BY <1>1 DEF ensure_session
  <2>2. tok \in Nat /\ tok <= issued
    BY CallFields
  <2>3. taken \in Calls /\ taken.pc = "request" /\ taken.tok = tok
    <3>1. call[c] \in Calls /\ "request" \in CallPcs
      BY CallFields DEF CallPcs
    <3>2. taken \in Calls
      BY <3>1, <2>2, CallChanges
    <3> QED BY <3>1, <3>2 DEF Calls
  <2> HIDE DEF tok, taken
  <2> QED BY <1>1, <2>1, <2>2, <2>3, CallFields, CallStep DEF ensure_session
<1>2. CASE ~(~call[c].refreshed /\ tok # 0)
  <2>1. Goes(c, shaken) /\ endpoint' = endpoint /\ cache' = 0
    BY <1>2 DEF ensure_session
  <2>2. shaken \in Calls /\ shaken.pc = "handshake" /\ shaken.tok = call[c].tok
    <3>1. call[c] \in Calls /\ "handshake" \in CallPcs
      BY CallFields DEF CallPcs
    <3>2. shaken \in Calls
      BY <3>1, CallChanges
    <3> QED BY <3>1, <3>2 DEF Calls
  <2> HIDE DEF tok, shaken
  <2> QED BY <2>1, <2>2, CallFields, CallStep DEF ensure_session
<1> QED BY <1>1, <1>2

\* A call that is cut by a cancel is a failed call.
LEMMA CallCancelled ==
  ASSUME StalkerInv, NEW c \in Callers, Cancelled(c)
  PROVE  StalkerInv'
<1> DEFINE r == [call[c] EXCEPT !.pc = "failed"]
<1>1. r \in Calls /\ r.pc = "failed" /\ r.tok = call[c].tok
  <2>1. call[c] \in Calls /\ "failed" \in CallPcs
    BY CallFields DEF CallPcs
  <2>2. r \in Calls
    BY <2>1, CallChanges
  <2> QED BY <2>1, <2>2 DEF Calls
<1>2. Goes(c, r)
  BY DEF Cancelled, Give
<1>3. /\ job' = [job EXCEPT !.stale = @ \/ ~job.stopped]
      /\ job \in Jobs
  BY CallFields DEF Cancelled
<1>4. /\ job' \in Jobs /\ job'.pc = job.pc /\ job'.mode = job.mode /\ job'.next = job.next
      /\ job'.stopped = job.stopped /\ (job.stale => job'.stale)
  BY <1>3 DEF Jobs
<1>5. Excused'
  BY <1>3 DEF Excused, Jobs
<1> HIDE DEF r
<1> QED BY <1>1, <1>2, <1>4, <1>5, CallFields, CallStep DEF Cancelled

\* A new token is one the portal accepts.
LEMMA Handshaken ==
  ASSUME StalkerInv, ~OneToken, NEW c \in Callers, HandshakeOk(c)
  PROVE  StalkerInv'
<1> DEFINE r == [call[c] EXCEPT !.pc = "store", !.tok = issued + 1]
<1>1. r \in Calls /\ r.pc = "store" /\ r.tok = issued + 1
  <2>1. call[c] \in Calls /\ "store" \in CallPcs /\ issued + 1 \in Nat
    BY CallFields DEF CallPcs
  <2>2. r \in Calls
    BY <2>1, CallChanges
  <2> QED BY <2>1, <2>2 DEF Calls
<1>2. Goes(c, r)
  BY DEF HandshakeOk
<1>3. issued' = issued + 1 /\ valid' = valid \cup {issued + 1}
  BY DEF HandshakeOk
<1> HIDE DEF r
<1> QED BY <1>1, <1>2, <1>3, CallFields, CallStep DEF HandshakeOk

\* A handshake that fails tries again, goes to the next path, or fails its call.
LEMMA HandshakeFailed ==
  ASSUME StalkerInv, NEW c \in Callers, NEW transient \in BOOLEAN, HandshakeFails(c, transient)
  PROVE  StalkerInv'
<1>1. ASSUME NEW r \in Calls, Goes(c, r), r.pc # "off", r.pc \notin {"store", "request"},
             r.tok = call[c].tok, failed \subseteq failed', failed' \subseteq Callers,
             r.pc = "failed" => c \in failed'
      PROVE  StalkerInv'
  BY <1>1, CallFields, CallStep DEF HandshakeFails
<1>2. /\ call[c] \in Calls /\ call[c].pc = "handshake"
      /\ call[c].path + 1 \in Nat /\ call[c].try + 1 \in Nat /\ "failed" \in CallPcs
  BY CallFields DEF HandshakeFails, CallPcs
<1>3. CASE Goes(c, [call[c] EXCEPT !.try = @ + 1]) /\ failed' = failed
  <2> DEFINE r == [call[c] EXCEPT !.try = call[c].try + 1]
  <2>1. r \in Calls
    BY <1>2, CallChanges
  <2>2. r.pc = "handshake" /\ r.tok = call[c].tok
    BY <1>2 DEF Calls
  <2>3. Goes(c, r)
    BY <1>3
  <2> HIDE DEF r
  <2> QED BY <1>1, <1>3, <2>1, <2>2, <2>3, CallFields
<1>4. CASE Goes(c, [call[c] EXCEPT !.path = @ + 1, !.try = 1]) /\ failed' = failed
  <2> DEFINE r == [call[c] EXCEPT !.path = call[c].path + 1, !.try = 1]
  <2>1. r \in Calls
    BY <1>2, CallChanges
  <2>2. r.pc = "handshake" /\ r.tok = call[c].tok
    BY <1>2 DEF Calls
  <2>3. Goes(c, r)
    BY <1>4
  <2> HIDE DEF r
  <2> QED BY <1>1, <1>4, <2>1, <2>2, <2>3, CallFields
<1>5. CASE Give(c, "failed") /\ failed' = failed \cup {c}
  <2> DEFINE r == [call[c] EXCEPT !.pc = "failed"]
  <2>1. r \in Calls
    BY <1>2, CallChanges DEF CallPcs
  <2>2. r.pc = "failed" /\ r.tok = call[c].tok
    BY <1>2 DEF Calls
  <2>3. Goes(c, r)
    BY <1>5 DEF Give
  <2> HIDE DEF r
  <2> QED BY <1>1, <1>5, <2>1, <2>2, <2>3, CallFields
<1> QED BY <1>3, <1>4, <1>5 DEF HandshakeFails

\* Storing the token that the portal has just given out.
LEMMA EndpointStored ==
  ASSUME StalkerInv, NEW c \in Callers, store_endpoint(c)
  PROVE  StalkerInv'
<1> DEFINE pc == IF c = Connect THEN "ok" ELSE "request"
           r == [call[c] EXCEPT !.pc = pc]
<1>1. call[c] \in Calls /\ pc \in CallPcs /\ call[c].pc = "store"
  BY CallFields DEF CallPcs, store_endpoint
<1>2. r \in Calls
  BY <1>1, CallChanges
<1>3. r.pc = pc /\ r.tok = call[c].tok
  BY <1>1 DEF Calls
<1>4. Goes(c, r) /\ r.pc \in {"ok", "request"}
  BY <1>3 DEF store_endpoint, Give
<1> HIDE DEF pc, r
<1> QED BY <1>1, <1>2, <1>3, <1>4, CallFields, CallStep DEF store_endpoint

\* An answer ends its call.
LEMMA RequestAnswered ==
  ASSUME StalkerInv, NEW c \in Callers, RequestOk(c)
  PROVE  StalkerInv'
<1> DEFINE r == [call[c] EXCEPT !.pc = "ok"]
<1>1. call[c] \in Calls /\ "ok" \in CallPcs /\ call[c].pc = "request"
  BY CallFields DEF CallPcs, RequestOk
<1>2. r \in Calls
  BY <1>1, CallChanges
<1>3. r.pc = "ok" /\ r.tok = call[c].tok
  BY <1>1 DEF Calls
<1>4. Goes(c, r)
  BY DEF RequestOk, Give
<1> HIDE DEF r
<1> QED BY <1>1, <1>2, <1>3, <1>4, CallFields, CallStep DEF RequestOk

(* A token that is refused was given out, so it has expired. *)
LEMMA AuthFailed ==
  ASSUME StalkerInv, NEW c \in Callers, AuthFails(c)
  PROVE  StalkerInv'
<1>1. call[c] \in Calls /\ call[c].pc = "request" /\ call[c].attempt + 1 \in Nat
      /\ "session" \in CallPcs /\ "failed" \in CallPcs
  BY CallFields DEF AuthFails, CallPcs
<1>2. CASE call[c].refreshed
  <2> DEFINE r == [call[c] EXCEPT !.pc = "failed"]
  <2>1. r \in Calls
    BY <1>1, CallChanges
  <2>2. r.pc = "failed" /\ r.tok = call[c].tok
    BY <1>1 DEF Calls
  <2>3. Goes(c, r)
    BY <1>2 DEF Give, AuthFails
  <2>4. call[c].tok \in expired
    BY <1>1, CallFields DEF AuthFails, StalkerInv, TokensSound
  <2>5. failed' = failed \cup {c}
    BY <1>2, <2>4 DEF AuthFails
  <2> HIDE DEF r
  <2> QED BY <1>1, <2>1, <2>2, <2>3, <2>5, CallFields, CallStep DEF AuthFails
<1>3. CASE ~call[c].refreshed
  <2> DEFINE r == [call[c] EXCEPT !.pc = "session", !.refreshed = TRUE, !.attempt = call[c].attempt + 1]
  <2>1. r \in Calls
    BY <1>1, CallChanges
  <2>2. r.pc = "session" /\ r.tok = call[c].tok
    BY <1>1 DEF Calls
  <2>3. Goes(c, r) /\ failed' = failed
    BY <1>3 DEF AuthFails
  <2> HIDE DEF r
  <2> QED BY <1>1, <2>1, <2>2, <2>3, CallFields, CallStep DEF AuthFails
<1> QED BY <1>2, <1>3

\* A refused request asks for a new session, tries again, or fails its call.
LEMMA RequestFailed ==
  ASSUME StalkerInv, NEW c \in Callers, NEW transient \in BOOLEAN, RequestFails(c, transient)
  PROVE  StalkerInv'
<1>1. call[c] \in Calls /\ call[c].pc = "request" /\ call[c].attempt + 1 \in Nat
      /\ "session" \in CallPcs /\ "failed" \in CallPcs
  BY CallFields DEF RequestFails, CallPcs
<1>2. CASE Goes(c, [call[c] EXCEPT !.pc = "session", !.attempt = @ + 1]) /\ failed' = failed
  <2> DEFINE r == [call[c] EXCEPT !.pc = "session", !.attempt = call[c].attempt + 1]
  <2>1. r \in Calls
    BY <1>1, CallChanges
  <2>2. r.pc = "session" /\ r.tok = call[c].tok
    BY <1>1 DEF Calls
  <2>3. Goes(c, r)
    BY <1>2
  <2> HIDE DEF r
  <2> QED BY <1>1, <1>2, <2>1, <2>2, <2>3, CallFields, CallStep DEF RequestFails
<1>3. CASE Give(c, "failed") /\ failed' = failed \cup {c}
  <2> DEFINE r == [call[c] EXCEPT !.pc = "failed"]
  <2>1. r \in Calls
    BY <1>1, CallChanges
  <2>2. r.pc = "failed" /\ r.tok = call[c].tok
    BY <1>1 DEF Calls
  <2>3. Goes(c, r)
    BY <1>3 DEF Give
  <2> HIDE DEF r
  <2> QED BY <1>1, <1>3, <2>1, <2>2, <2>3, CallFields, CallStep DEF RequestFails
<1> QED BY <1>2, <1>3 DEF RequestFails

(* What happens around the job: tokens expire, workers and cancels.          *)
LEMMA AroundJob ==
  ASSUME StalkerInv, (\E w \in Workers : enter_job(w)) \/ request \/ Expire \/ UNCHANGED stalkerVars
  PROVE  StalkerInv'
<1>1. CASE (\E w \in Workers : enter_job(w)) \/ UNCHANGED stalkerVars
  <2>1. /\ UNCHANGED <<issued, valid, expired, cache, endpoint>>
        /\ UNCHANGED <<call, job, got, failed>>
    BY <1>1 DEF enter_job, stalkerVars
  <2>2. StalkerTypeOK' /\ TokensSound'
    BY <2>1 DEF StalkerInv, StalkerTypeOK, TokensSound
  <2>3. WalkInv'
    BY <2>1 DEF StalkerInv, WalkInv, FailuresMeant, Spawns, Covered, Excused
  <2> QED BY <2>2, <2>3 DEF StalkerInv
<1>2. CASE request
  <2>1. /\ UNCHANGED <<issued, valid, expired, cache, endpoint>>
        /\ UNCHANGED <<call, got, failed>>
        /\ job \in Jobs /\ job' = [job EXCEPT !.stopped = (job.pc # "idle")]
    BY <1>2 DEF request, StalkerInv, StalkerTypeOK
  <2>2. /\ job' \in Jobs /\ job'.pc = job.pc /\ job'.mode = job.mode /\ job'.next = job.next
        /\ job'.stopped <=> job.pc # "idle"
        /\ job'.stale <=> job.stale
    BY <2>1 DEF Jobs
  <2>3. StalkerTypeOK' /\ TokensSound'
    BY <2>1, <2>2 DEF StalkerInv, StalkerTypeOK, TokensSound
  <2>4. Excused => Excused'
    BY <2>2 DEF Excused, StalkerInv, WalkInv, Spawns
  <2>5. WalkInv'
    BY <2>1, <2>2, <2>4 DEF StalkerInv, WalkInv, FailuresMeant, Spawns, Covered
  <2> QED BY <2>3, <2>5 DEF StalkerInv
<1>3. CASE Expire
  <2>1. /\ UNCHANGED <<issued, cache, endpoint>> /\ UNCHANGED <<call, job, got, failed>>
        /\ expired' = expired \cup valid /\ valid' = {}
    BY <1>3 DEF Expire
  <2>2. StalkerTypeOK' /\ TokensSound'
    BY <2>1 DEF StalkerInv, StalkerTypeOK, TokensSound
  <2>3. WalkInv'
    BY <2>1 DEF StalkerInv, WalkInv, FailuresMeant, Spawns, Covered, Excused
  <2> QED BY <2>2, <2>3 DEF StalkerInv
<1> QED BY <1>1, <1>2, <1>3

(* A step of the job that starts calls, forgets calls, or does neither.      *)
LEMMA CallsReplaced ==
  ASSUME StalkerInv, UNCHANGED <<issued, valid, expired, cache, endpoint, failed>>,
         \A c \in Callers : \/ call'[c] = call[c] \/ call'[c] = NoCall
                           \/ call'[c] = [call[c] EXCEPT !.pc = "session"]
                           \/ call'[c] = [NoCall EXCEPT !.pc = "session"],
         call' = [c \in Callers |-> call'[c]],
         job' \in Jobs, got' \subseteq Pages, job'.stopped = job.stopped, job'.stale = job.stale
  PROVE  StalkerTypeOK' /\ TokensSound' /\ FailuresMeant'
<1>1. ASSUME NEW c \in Callers
      PROVE  /\ call'[c] \in Calls /\ call'[c].tok <= issued
             /\ call'[c].pc \in {"store", "request"} => call'[c].tok # 0
             /\ call'[c].pc = "failed" => call[c].pc = "failed"
  <2>1. "session" \in CallPcs /\ 0 \in Nat /\ issued \in Nat
    BY CallFields DEF CallPcs
  <2>2. CASE call'[c] \in {call[c], NoCall}
    BY <2>1, <2>2, NoCallIsCall, CallFields
  <2>3. ASSUME NEW k \in Calls, k.tok <= issued, call'[c] = [k EXCEPT !.pc = "session"]
        PROVE  call'[c] \in Calls /\ call'[c].tok <= issued /\ call'[c].pc = "session"
    <3>1. [k EXCEPT !.pc = "session"] \in Calls
      BY <2>1, CallChanges
    <3>2. [k EXCEPT !.pc = "session"].tok = k.tok /\ [k EXCEPT !.pc = "session"].pc = "session"
      BY DEF Calls
    <3> QED BY <3>1, <3>2, <2>3
  <2>4. call[c] \in Calls /\ call[c].tok <= issued /\ NoCall \in Calls /\ NoCall.tok <= issued
    BY <2>1, NoCallIsCall, CallFields
  <2> QED BY <2>2, <2>3, <2>4
<1>2. StalkerTypeOK'
  BY <1>1 DEF StalkerInv, StalkerTypeOK
<1>3. TokensSound'
  BY <1>1 DEF StalkerInv, TokensSound
<1>4. FailuresMeant'
  BY <1>1 DEF StalkerInv, WalkInv, FailuresMeant, Excused
<1> QED BY <1>2, <1>3, <1>4

\* The job connects.
LEMMA JobConnects ==
  ASSUME StalkerInv, (\E w \in Workers : request_json_async(w)) \/ Connected
  PROVE  StalkerInv'
<1>0. /\ job \in Jobs /\ call \in [Callers -> Calls] /\ got \subseteq Pages
      /\ 1 \notin Pages \ {1} /\ Connect \notin Pages /\ Connect \in Callers
      /\ Pages \subseteq Callers
  BY DEF StalkerInv, StalkerTypeOK, Pages, Connect, Callers
<1>1. CASE \E w \in Workers : request_json_async(w)
  <2>1. /\ UNCHANGED <<issued, valid, expired, cache, endpoint, failed>> /\ got' = got
        /\ job.pc = "idle" /\ job' = [job EXCEPT !.pc = "connect"]
        /\ call' = [call EXCEPT ![Connect].pc = "session"]
    BY <1>1 DEF request_json_async
  <2>2. /\ job' \in Jobs /\ job'.pc = "connect" /\ job'.stopped = job.stopped
        /\ job'.stale = job.stale
    BY <1>0, <2>1 DEF Jobs
  <2>3. \A c \in Callers : call'[c] = IF c = Connect THEN [call[c] EXCEPT !.pc = "session"] ELSE call[c]
    BY <1>0, <2>1
  <2>4. call' = [c \in Callers |-> call'[c]]
    BY <1>0, <2>1
  <2>5. StalkerTypeOK' /\ TokensSound' /\ FailuresMeant'
    BY <1>0, <2>1, <2>2, <2>3, <2>4, CallsReplaced
  <2>6. Spawns' /\ Covered'
    BY <1>0, <2>1, <2>2, <2>3 DEF StalkerInv, WalkInv, Spawns, Covered
  <2> QED BY <2>5, <2>6 DEF StalkerInv, WalkInv
<1>2. CASE Connected /\ call[Connect].pc = "failed"
  <2>1. /\ UNCHANGED <<issued, valid, expired, cache, endpoint, failed>> /\ got' = got
        /\ job.pc = "connect" /\ job' = [job EXCEPT !.pc = "error"] /\ call' = call
    BY <1>2 DEF Connected
  <2>2. /\ job' \in Jobs /\ job'.pc = "error" /\ job'.stopped = job.stopped
        /\ job'.stale = job.stale
    BY <1>0, <2>1 DEF Jobs
  <2>3. StalkerTypeOK' /\ TokensSound' /\ FailuresMeant'
    BY <1>0, <2>1, <2>2, CallsReplaced
  <2>4. Spawns' /\ Covered'
    BY <2>2 DEF Spawns, Covered
  <2> QED BY <2>3, <2>4 DEF StalkerInv, WalkInv
<1>3. CASE Connected /\ call[Connect].pc # "failed"
  <2>1. /\ UNCHANGED <<issued, valid, expired, cache, endpoint, failed>> /\ got' = got
        /\ job.pc = "connect" /\ job' = [job EXCEPT !.pc = "first"]
        /\ call' = [call EXCEPT ![1].pc = "session"]
    BY <1>3 DEF Connected
  <2>2. /\ job' \in Jobs /\ job'.pc = "first" /\ job'.stopped = job.stopped
        /\ job'.stale = job.stale
    BY <1>0, <2>1 DEF Jobs
  <2>3. \A c \in Callers : call'[c] = IF c = 1 THEN [call[c] EXCEPT !.pc = "session"] ELSE call[c]
    BY <1>0, <2>1
  <2>4. call' = [c \in Callers |-> call'[c]]
    BY <1>0, <2>1
  <2>5. StalkerTypeOK' /\ TokensSound' /\ FailuresMeant'
    BY <1>0, <2>1, <2>2, <2>3, <2>4, CallsReplaced
  <2>6. Spawns' /\ Covered'
    BY <1>0, <2>1, <2>2, <2>3 DEF StalkerInv, WalkInv, Spawns, Covered
  <2> QED BY <2>5, <2>6 DEF StalkerInv, WalkInv
<1> QED BY <1>1, <1>2, <1>3

\* How many pages a walk spawns first.
LEMMA SpawnCount ==
  ASSUME NEW m \in Nat, NEW k \in Nat
  PROVE  AtMost(m, k) \in Nat /\ AtMost(m, k) <= k
  BY DEF AtMost

(* Page 1 is there: the pages spawned next are those before the next one.    *)
LEMMA FirstPageCovers ==
  ASSUME StalkerInv, NEW mode \in {"serial", "parallel"}, FirstPage(mode)
  PROVE  StalkerInv'
<1> DEFINE n == IF mode = "serial" THEN AtMost(1, LastPage - 1) ELSE AtMost(WALK_CONCURRENCY, LastPage - 1)
<1>0. /\ job \in Jobs /\ call \in [Callers -> Calls] /\ got \subseteq Pages
      /\ 1 \in Pages /\ Pages \subseteq Callers
      /\ UNCHANGED <<issued, valid, expired, cache, endpoint, failed>> /\ job.pc = "first"
  BY StalkerConstants DEF StalkerInv, StalkerTypeOK, Pages, Callers, FirstPage
<1>1. n \in Nat /\ n <= LastPage - 1 /\ LastPage \in Nat
  <2>1. LastPage - 1 \in Nat /\ WALK_CONCURRENCY \in Nat /\ LastPage \in Nat
    BY StalkerConstants
  <2> QED BY <2>1, SpawnCount
<1>2. CASE call[1].pc = "failed"
  <2>1. job' = [job EXCEPT !.pc = "error"] /\ call' = call /\ got' = got
    BY <1>2 DEF FirstPage
  <2>2. /\ job' \in Jobs /\ job'.pc = "error" /\ job'.stopped = job.stopped
        /\ job'.stale = job.stale
    BY <1>0, <2>1 DEF Jobs
  <2>3. StalkerTypeOK' /\ TokensSound' /\ FailuresMeant'
    BY <1>0, <2>1, <2>2, CallsReplaced
  <2>4. Spawns' /\ Covered'
    BY <2>2 DEF Spawns, Covered
  <2> QED BY <2>3, <2>4 DEF StalkerInv, WalkInv
<1>3. CASE call[1].pc # "failed"
  <2> DEFINE pc == IF LastPage = 1 THEN "done" ELSE "walk"
  <2>1. /\ got' = {1} /\ call' = Spawned(call, 2, n)
        /\ job' = [job EXCEPT !.pc = pc, !.mode = mode, !.next = 2 + n]
    BY <1>3 DEF FirstPage
  <2>2. pc \in {"walk", "done"} /\ (pc = "done" <=> LastPage = 1)
    OBVIOUS
  <2>3. \A c \in Callers : call'[c] = IF c \in 2..(1 + n) THEN [NoCall EXCEPT !.pc = "session"] ELSE call[c]
    BY <1>1, <2>1 DEF Spawned
  <2>4. call' = [c \in Callers |-> call'[c]]
    BY <2>1 DEF Spawned
  <2> HIDE DEF n, pc
  <2>5. job' \in Jobs
    <3>1. 2 + n \in Nat /\ pc \in {"idle", "connect", "first", "walk", "done", "error", "cancelled"}
          /\ mode \in {"none", "serial", "parallel"}
      BY <1>1, <2>2
    <3>2. job.stopped \in BOOLEAN /\ job.stale \in BOOLEAN
      BY <1>0 DEF Jobs
    <3> QED BY <1>0, <2>1, <3>1, <3>2, Zenon DEF Jobs
  <2>6. /\ job'.pc = pc /\ job'.next = 2 + n /\ job'.mode = mode
        /\ job'.stopped = job.stopped /\ job'.stale = job.stale
    BY <1>0, <2>1 DEF Jobs
  <2>7. StalkerTypeOK' /\ TokensSound' /\ FailuresMeant'
    BY <1>0, <2>1, <2>3, <2>4, <2>5, <2>6, CallsReplaced
  <2>8. ASSUME NEW p \in Pages \ {1}
        PROVE  p \in Nat /\ p >= 2 /\ (call'[p].pc # "off" <=> p < 2 + n)
    <3>1. p \in Nat /\ p >= 2 /\ p <= LastPage /\ p \in Callers /\ call[p].pc = "off"
      BY <1>0, <1>1 DEF Pages, StalkerInv, WalkInv, Spawns
    <3>2. [NoCall EXCEPT !.pc = "session"].pc = "session"
      BY DEF NoCall
    <3>3. p \in 2..(1 + n) <=> p < 2 + n
      BY <1>1, <3>1
    <3>4. CASE p \in 2..(1 + n)
      BY <2>3, <3>1, <3>2, <3>3, <3>4
    <3>5. CASE p \notin 2..(1 + n)
      BY <2>3, <3>1, <3>3, <3>5
    <3> QED BY <3>4, <3>5
  <2>9. Spawns'
    BY <1>0, <1>1, <2>2, <2>6, <2>8 DEF Spawns, StalkerInv, WalkInv
  <2>10. Covered'
    <3>1. ASSUME NEW p \in Pages, p < 2 + n
          PROVE  p \in got' \/ (pc = "walk" /\ p # 1 /\ call'[p].pc # "off")
      <4>1. CASE p = 1
        BY <4>1, <2>1
      <4>2. CASE p # 1
        BY <4>2, <3>1, <2>2, <2>8, <1>1 DEF Pages
      <4> QED BY <4>1, <4>2
    <3>2. pc = "done" => \A p \in Pages : p < 2 + n
      BY <1>1, <2>2 DEF Pages
    <3>3. pc = "done" => \A p \in Pages : ~(2 + n <= p)
      BY <1>1, <3>2 DEF Pages
    <3> QED BY <2>6, <3>1, <3>3 DEF Covered
  <2> QED BY <2>7, <2>9, <2>10 DEF StalkerInv, WalkInv
<1> QED BY <1>2, <1>3

(* A page is joined: it is in the result or refused, and the walk ends only  *)
(* when no page is left to spawn, or a serial one was refused a page.        *)
LEMMA JoinCovers ==
  ASSUME StalkerInv, NEW p \in Pages, JoinPage(p)
  PROVE  StalkerInv'
<1> DEFINE goOn == job.next <= LastPage /\ job.next \notin Dropped(p)
           rest == [call EXCEPT ![p] = NoCall]
           c1 == IF goOn THEN Spawned(rest, job.next, 1) ELSE rest
           pc == IF Open(c1) = {} THEN "done" ELSE "walk"
           next == IF goOn THEN job.next + 1 ELSE job.next
<1>0. /\ job \in Jobs /\ call \in [Callers -> Calls] /\ got \subseteq Pages
      /\ Pages \subseteq Callers /\ UNCHANGED <<issued, valid, expired, cache, endpoint, failed>>
      /\ job.pc = "walk" /\ p # 1 /\ call[p].pc \in {"ok", "failed"} /\ LastPage \in Nat
  BY StalkerConstants DEF StalkerInv, StalkerTypeOK, Pages, Callers, JoinPage
<1>1. job.next \in Nat /\ 2 <= job.next /\ job.stopped \in BOOLEAN /\ job.stale \in BOOLEAN
  BY <1>0 DEF Jobs, StalkerInv, WalkInv, Spawns
<1>2. CASE job.stopped /\ (job.mode = "parallel" \/ goOn)
  <2>1. /\ job' = [job EXCEPT !.pc = "cancelled"] /\ got' = {}
        /\ call' = [c \in Callers |-> NoCall]
    BY <1>2 DEF JoinPage
  <2>2. /\ job' \in Jobs /\ job'.pc = "cancelled" /\ job'.stopped = job.stopped
        /\ job'.stale = job.stale
    BY <1>0, <2>1 DEF Jobs
  <2>3. StalkerTypeOK' /\ TokensSound' /\ FailuresMeant'
    BY <1>0, <2>1, <2>2, CallsReplaced
  <2>4. Spawns' /\ Covered'
    BY <2>2 DEF Spawns, Covered
  <2> QED BY <2>3, <2>4 DEF StalkerInv, WalkInv
<1>3. CASE ~(job.stopped /\ (job.mode = "parallel" \/ goOn))
  <2>1. /\ got' = IF call[p].pc = "ok" THEN got \cup {p} ELSE got
        /\ call' = c1 /\ job' = [job EXCEPT !.pc = pc, !.next = next]
    BY <1>3 DEF JoinPage
  <2>2. /\ pc \in {"walk", "done"} /\ next \in Nat /\ job.next <= next /\ next <= job.next + 1
        /\ goOn => next = job.next + 1
        /\ ~goOn => next = job.next
    BY <1>1
  <2>3. \A c \in Callers : call'[c] = IF goOn /\ c = job.next THEN [NoCall EXCEPT !.pc = "session"]
                                     ELSE IF c = p THEN NoCall ELSE call[c]
    <3>1. ASSUME NEW c \in Callers PROVE rest[c] = IF c = p THEN NoCall ELSE call[c]
      BY <1>0
    <3>2. ASSUME NEW c \in Callers PROVE c \in job.next..(job.next + 1 - 1) <=> c = job.next
      BY <1>1, <1>0 DEF Callers, Connect, Pages
    <3>3. goOn => \A c \in Callers : call'[c] = IF c \in job.next..(job.next + 1 - 1)
                                               THEN [NoCall EXCEPT !.pc = "session"] ELSE rest[c]
      BY <2>1 DEF Spawned
    <3>4. ~goOn => call' = rest
      BY <2>1
    <3> HIDE DEF rest, goOn
    <3> QED BY <3>1, <3>2, <3>3, <3>4
  <2>4. call' = [c \in Callers |-> call'[c]]
    BY <1>0, <2>1 DEF Spawned
  <2>5. pc = "done" <=> Open(call') = {}
    BY <2>1
  <2>6. goOn => job.next <= LastPage /\ job.next \in Pages
    BY <1>0, <1>1 DEF Pages
  <2>7. ~goOn /\ job.next <= LastPage => call[p].pc = "failed" /\ job.mode = "serial"
    BY DEF Dropped
  <2> HIDE DEF goOn, rest, c1, pc, next
  <2>8. job' \in Jobs
    <3>1. pc \in {"idle", "connect", "first", "walk", "done", "error", "cancelled"}
      BY <2>2
    <3>2. job.mode \in {"none", "serial", "parallel"}
      BY <1>0 DEF Jobs
    <3> QED BY <1>0, <1>1, <2>1, <2>2, <3>1, <3>2, Zenon DEF Jobs
  <2>9. /\ job'.pc = pc /\ job'.next = next /\ job'.mode = job.mode
        /\ job'.stopped = job.stopped /\ job'.stale = job.stale
    BY <1>0, <2>1 DEF Jobs
  <2>10. StalkerTypeOK' /\ TokensSound' /\ FailuresMeant'
    <3>1. got' \subseteq Pages
      BY <1>0, <2>1
    <3> QED BY <1>0, <2>3, <2>4, <2>8, <2>9, <3>1, CallsReplaced
  <2>11. [NoCall EXCEPT !.pc = "session"].pc = "session" /\ NoCall.pc = "off"
    BY DEF NoCall
  <2>12. p \in Nat /\ p < job.next /\ job.next # p
    BY <1>0, <1>1 DEF Pages, StalkerInv, WalkInv, Spawns
  <2>13. Spawns'
    <3>1. ASSUME NEW q \in Pages \ {1}, call'[q].pc # "off" PROVE q < next
      <4>1. q \in Nat /\ q \in Callers
        BY <1>0 DEF Pages
      <4>2. CASE goOn /\ q = job.next
        BY <4>1, <4>2, <1>1, <2>2
      <4>3. CASE ~(goOn /\ q = job.next)
        <5>1. call[q].pc # "off"
          BY <3>1, <4>1, <4>3, <2>3, <2>11
        <5>2. q < job.next
          BY <5>1, <1>0 DEF StalkerInv, WalkInv, Spawns
        <5> QED BY <5>2, <4>1, <1>1, <2>2
      <4> QED BY <4>2, <4>3
    <3> QED BY <1>1, <1>0, <2>2, <2>9, <3>1 DEF Spawns
  <2>14. Covered'
    <3> SUFFICES ASSUME ~Excused' PROVE Covered'
      BY DEF Covered
    <3>1. ~Excused
      BY <2>9 DEF Excused
    <3>2. p \in got' \/ p \in failed
      BY <1>0, <2>1, <3>1 DEF StalkerInv, WalkInv, FailuresMeant
    <3>3. ASSUME NEW q \in Pages, q < next
          PROVE  q \in got' \/ q \in failed \/ (pc = "walk" /\ q # 1 /\ call'[q].pc # "off")
      <4>1. q \in Nat /\ q \in Callers
        BY <1>0 DEF Pages
      <4>2. CASE q = p
        BY <4>2, <3>2
      <4>3. CASE goOn /\ q = job.next
        <5>1. call'[q] = [NoCall EXCEPT !.pc = "session"]
          BY <4>1, <4>3, <2>3
        <5>2. call'[q].pc # "off"
          BY <5>1, <2>11
        <5>3. q # 1
          BY <4>3, <1>1
        <5>4. pc = "walk"
          BY <5>2, <5>3, <2>2, <2>5 DEF Open
        <5> QED BY <5>2, <5>3, <5>4
      <4>4. CASE q # p /\ ~(goOn /\ q = job.next)
        <5>1. q < job.next
          BY <3>3, <4>1, <4>4, <1>1, <2>2
        <5>2. call'[q] = call[q]
          BY <4>1, <4>4, <2>3
        <5>3. q \in got \/ q \in failed \/ (q # 1 /\ call[q].pc # "off")
          BY <5>1, <3>1, <1>0 DEF StalkerInv, WalkInv, Covered
        <5>4. q # 1 /\ call[q].pc # "off" => pc = "walk"
          BY <5>2, <2>2, <2>5 DEF Open
        <5> QED BY <5>2, <5>3, <5>4, <2>1
      <4> QED BY <4>2, <4>3, <4>4
    <3>4. ASSUME NEW q \in Pages, pc = "done", next <= q
          PROVE  job.mode = "serial" /\ \E f \in failed : f < q
      <4>1. q \in Nat /\ q <= LastPage
        BY <1>0 DEF Pages
      <4>2. ~goOn
        <5> SUFFICES ASSUME goOn PROVE FALSE
          OBVIOUS
        <5>1. job.next \in Pages \ {1} /\ job.next \in Callers
          BY <1>0, <1>1, <2>6
        <5>2. call'[job.next].pc # "off"
          BY <5>1, <2>3, <2>11
        <5> QED BY <5>1, <5>2, <2>5, <3>4 DEF Open
      <4>3. job.next <= LastPage /\ job.next <= q
        BY <4>1, <4>2, <3>4, <1>0, <1>1, <2>2
      <4>4. call[p].pc = "failed" /\ job.mode = "serial"
        BY <4>2, <4>3, <2>7
      <4>5. p \in failed
        BY <4>4, <3>1, <1>0 DEF StalkerInv, WalkInv, FailuresMeant
      <4>6. p < q
        BY <4>1, <4>3, <2>12, <1>1
      <4> QED BY <4>4, <4>5, <4>6
    <3> QED BY <1>0, <2>2, <2>9, <3>3, <3>4 DEF Covered
  <2> QED BY <2>10, <2>13, <2>14 DEF StalkerInv, WalkInv
<1> QED BY <1>2, <1>3

-----------------------------------------------------------------------------
\* Every step keeps the invariant.
LEMMA NextStalkerInv ==
  ASSUME ~OneToken, StalkerInv, [StalkerNext]_stalkerVars
  PROVE  StalkerInv'
<1>1. CASE \E w \in Workers : enter_job(w) \/ request_json_async(w)
  BY <1>1, AroundJob, JobConnects
<1>2. CASE request \/ Expire \/ UNCHANGED stalkerVars
  BY <1>2, AroundJob
<1>3. CASE Connected
  BY <1>3, JobConnects
<1>4. CASE \E mode \in {"serial", "parallel"} : FirstPage(mode)
  BY <1>4, FirstPageCovers
<1>5. CASE \E p \in Pages : JoinPage(p)
  BY <1>5, JoinCovers
<1>6. ASSUME NEW c \in Callers,
             \/ ensure_session(c) \/ Cancelled(c) \/ HandshakeOk(c) \/ store_endpoint(c)
             \/ RequestOk(c) \/ AuthFails(c)
             \/ \E transient \in BOOLEAN : HandshakeFails(c, transient) \/ RequestFails(c, transient)
      PROVE  StalkerInv'
  BY <1>6, EnsureSession, CallCancelled, Handshaken, EndpointStored, RequestAnswered, AuthFailed,
     HandshakeFailed, RequestFailed
<1> QED BY <1>1, <1>2, <1>3, <1>4, <1>5, <1>6 DEF StalkerNext

(* A finished catalog lacks only what the portal refused.                    *)
LEMMA InvIsWhole == StalkerInv => CatalogWhole
<1> SUFFICES ASSUME StalkerInv, job.pc = "done", ~Excused, NEW p \in Pages \ got
             PROVE  \E q \in failed : q = p \/ (job.mode = "serial" /\ q < p)
  BY DEF CatalogWhole, LacksRefused, Excused
<1>1. p \in Nat /\ job.next \in Nat
  BY DEF Pages, StalkerInv, StalkerTypeOK, Jobs
<1>2. CASE p < job.next
  BY <1>2 DEF StalkerInv, WalkInv, Covered
<1>3. CASE job.next <= p
  BY <1>3 DEF StalkerInv, WalkInv, Covered
<1> QED BY <1>1, <1>2, <1>3

(* However tokens expire under the pages in flight, handshakes race for the  *)
(* shared session and errors come and go, a catalog that stalker_client.rs   *)
(* hands back lacks no page but those the portal refused, unless a cancel    *)
(* cut the job or a page took another job's for its own.                     *)
THEOREM Whole == ~OneToken /\ StalkerSpec => []CatalogWhole
<1> SUFFICES ASSUME ~OneToken PROVE StalkerSpec => []CatalogWhole
  OBVIOUS
<1>1. StalkerInv /\ [StalkerNext]_stalkerVars => StalkerInv'
  BY NextStalkerInv
<1> QED BY <1>1, InitStalkerInv, InvIsWhole, PTL DEF StalkerSpec

-----------------------------------------------------------------------------
(* CatalogDb.  Every shelf of every file is whole, for any packs,            *)
(* identities, shelves and answers of the provider.  The inductive invariant *)
(* says it of the tables of every file: an operation is a sequence of        *)
(* transactions, and each of them, whether or not the next one is reached,   *)
(* leaves whole tables; so does a kill between two of them.                  *)

CatalogCats == {CategoryRows(c.cats) : c \in CatalogAnswers} \cup {<<>>}
CatalogStreams == {StreamRows(c.streams) : c \in CatalogAnswers} \cup {<<>>}

DbTables == [shelves : SUBSET Shelves, categories : [Shelves -> CatalogCats],
             streams : [Shelves -> CatalogStreams], alive_meta : [Shelves -> {"none", "all", "live"}],
             alive_ids : [Shelves -> SUBSET {"s1"}], channel_hits : SUBSET Channels]

PackPcs == {"idle", "ask", "fetch", "import", "store", "page", "categories", "rows"}
PackCalls == [pc : PackPcs, shelf : Shelves \cup {"none"}, refresh : BOOLEAN,
              fetched : CatalogAnswers \cup {NoCatalog}, cats : CatalogCats]

(* What the property says of the file of one identity. *)
WholeShelf(t, k) ==
  /\ OneCatalog(t, k)
  /\ k \notin t.shelves => t.categories[k] = <<>> /\ t.streams[k] = <<>>
  /\ t.alive_meta[k] = "none" => t.alive_ids[k] = {}
WholeTables == {t \in DbTables : \A k \in Shelves : WholeShelf(t, k)}

CatalogInv ==
  /\ db \in [Identities -> WholeTables] /\ conn \in Identities \cup {"none"}
  /\ pack \in [Packs -> PackCalls]
  /\ \A p \in Packs : /\ pack[p].pc # "idle" => pack[p].shelf \in Shelves
                      /\ pack[p].pc \in {"import", "store"} => pack[p].fetched \in CatalogAnswers

\* An empty file is whole.
LEMMA EmptyIsWhole == EmptyTables \in WholeTables
<1>1. EmptyTables \in DbTables
  BY DEF EmptyTables, DbTables, CatalogCats, CatalogStreams
<1> QED
  BY <1>1 DEF WholeTables, WholeShelf, OneCatalog, EmptyTables

\* A catalog is stored with its header, categories and streams, or not at all.
LEMMA ReplaceWhole ==
  ASSUME NEW t \in WholeTables, NEW k \in Shelves, NEW c \in CatalogAnswers
  PROVE  replace_shelf(t, k, c) \in Seq(WholeTables)
<1> DEFINE cats == CategoryRows(c.cats)
           rows == StreamRows(c.streams)
           new == [t EXCEPT !.shelves = @ \union {k}, !.categories[k] = cats, !.streams[k] = rows]
<1>1. cats \in CatalogCats /\ rows \in CatalogStreams /\ t \in DbTables
  BY DEF CatalogCats, CatalogStreams, WholeTables
<1> HIDE DEF cats, rows
<1>2. /\ new \in DbTables /\ new.shelves = t.shelves \cup {k}
      /\ new.categories = [t.categories EXCEPT ![k] = cats]
      /\ new.streams = [t.streams EXCEPT ![k] = rows]
      /\ new.alive_meta = t.alive_meta /\ new.alive_ids = t.alive_ids
  BY <1>1 DEF DbTables
<1> HIDE DEF new
<1>3. OneCatalog(new, k)
  BY <1>1, <1>2 DEF OneCatalog, cats, rows, DbTables
<1>4. \A j \in Shelves \ {k} : WholeShelf(new, j)
  BY <1>1, <1>2 DEF WholeTables, WholeShelf, OneCatalog, DbTables
<1>5. WholeShelf(new, k)
  BY <1>1, <1>2, <1>3 DEF WholeTables, WholeShelf
<1>6. new \in WholeTables
  BY <1>2, <1>4, <1>5 DEF WholeTables
<1> QED
  BY <1>6 DEF replace_shelf, new, cats, rows

\* A clear takes the streams first, and the shelf row last.
LEMMA ClearWhole ==
  ASSUME NEW t \in WholeTables, NEW ks \in SUBSET Shelves
  PROVE  /\ ClearStreams(t, ks) \in WholeTables /\ ClearCategories(t, ks) \in WholeTables
         /\ ClearShelves(t, ks) \in WholeTables
<1> DEFINE t1 == ClearStreams(t, ks)
           t2 == ClearCategories(t, ks)
           t3 == ClearShelves(t, ks)
<1>1. t \in DbTables /\ <<>> \in CatalogCats /\ <<>> \in CatalogStreams
  BY DEF WholeTables, CatalogCats, CatalogStreams
<1>2. /\ t1 \in DbTables /\ t1.streams = Without(t.streams, ks) /\ t1.categories = t.categories
      /\ t1.shelves = t.shelves /\ t1.alive_meta = t.alive_meta /\ t1.alive_ids = t.alive_ids
  BY <1>1 DEF ClearStreams, DbTables, Without
<1>3. t2 = [t1 EXCEPT !.categories = Without(@, ks)]
  BY DEF ClearCategories
<1>4. t3 = [t2 EXCEPT !.shelves = @ \ ks]
  BY DEF ClearShelves
<1> HIDE DEF t1, t2, t3
<1>5. /\ t2 \in DbTables /\ t2.categories = Without(t.categories, ks) /\ t2.streams = t1.streams
      /\ t2.shelves = t.shelves /\ t2.alive_meta = t.alive_meta /\ t2.alive_ids = t.alive_ids
  BY <1>1, <1>2, <1>3 DEF DbTables, Without
<1>6. /\ t3 \in DbTables /\ t3.shelves = t.shelves \ ks
      /\ t3.categories = t2.categories /\ t3.streams = t1.streams
      /\ t3.alive_meta = t.alive_meta /\ t3.alive_ids = t.alive_ids
  BY <1>1, <1>4, <1>5 DEF DbTables
<1>7. ASSUME NEW k \in Shelves
      PROVE  WholeShelf(t1, k) /\ WholeShelf(t2, k) /\ WholeShelf(t3, k)
  <2>1. WholeShelf(t, k)
    BY DEF WholeTables
  <2>2. CASE k \in ks
    BY <1>2, <1>5, <1>6, <2>1, <2>2 DEF WholeShelf, OneCatalog, Without
  <2>3. CASE k \notin ks
    BY <1>2, <1>5, <1>6, <2>1, <2>3 DEF WholeShelf, OneCatalog, Without
  <2> QED
    BY <2>2, <2>3
<1> QED
  BY <1>2, <1>5, <1>6, <1>7 DEF t1, t2, t3, WholeTables

\* The alive ids go before the row that announces them.
LEMMA AliveClearWhole ==
  ASSUME NEW t \in WholeTables, NEW ks \in SUBSET Shelves
  PROVE  alive_clear(t, ks) \in Seq(WholeTables)
<1> DEFINE ids == [k \in Shelves |-> IF k \in ks THEN {} ELSE t.alive_ids[k]]
           meta == [k \in Shelves |-> IF k \in ks THEN "none" ELSE t.alive_meta[k]]
           t1 == [t EXCEPT !.alive_ids = ids]
           t2 == [t1 EXCEPT !.alive_meta = meta]
<1>1. t \in DbTables
  BY DEF WholeTables
<1>2. ids \in [Shelves -> SUBSET {"s1"}] /\ meta \in [Shelves -> {"none", "all", "live"}]
  BY <1>1 DEF DbTables
<1>3. alive_clear(t, ks) = <<t1, t2>>
  BY <1>1 DEF alive_clear, DbTables
<1> HIDE DEF ids, meta
<1>4. /\ t1 \in DbTables /\ t1.alive_ids = ids /\ t1.alive_meta = t.alive_meta
      /\ t1.shelves = t.shelves /\ t1.categories = t.categories /\ t1.streams = t.streams
  BY <1>1, <1>2 DEF DbTables
<1> HIDE DEF t1
<1>5. /\ t2 \in DbTables /\ t2.alive_ids = ids /\ t2.alive_meta = meta
      /\ t2.shelves = t.shelves /\ t2.categories = t.categories /\ t2.streams = t.streams
  BY <1>2, <1>4 DEF DbTables
<1> HIDE DEF t2
<1>6. ASSUME NEW k \in Shelves
      PROVE  WholeShelf(t1, k) /\ WholeShelf(t2, k)
  <2>1. WholeShelf(t, k)
    BY DEF WholeTables
  <2> QED
    BY <1>4, <1>5, <2>1 DEF WholeShelf, OneCatalog, ids, meta
<1> QED
  BY <1>3, <1>4, <1>5, <1>6 DEF WholeTables

Commits == {s \in Seq(WholeTables) : Len(s) >= 1}

\* One commit, and the last of several.
LEMMA OneCommit ==
  ASSUME NEW t \in WholeTables
  PROVE  <<t>> \in Commits
  BY DEF Commits

\* The last of several transactions that leave whole tables leaves whole tables.
LEMMA CommitsEnd ==
  ASSUME NEW s \in Seq(WholeTables)
  PROVE  /\ \A i \in DOMAIN s : s[i] \in WholeTables
         /\ s \in Commits => Last(s) \in WholeTables
         /\ s # <<>> => Last(s) \in WholeTables
  BY DEF Commits, Last

\* Every operation commits whole tables only.
LEMMA OperationsWhole ==
  ASSUME NEW t \in WholeTables, NEW commits \in Operations(t)
  PROVE  commits \in Commits
<1>1. ASSUME NEW ks \in SUBSET Shelves
      PROVE  /\ clear_portal(t, ks) \in Commits
             /\ alive_clear(t, ks) \in Commits
  <2>1. <<ClearStreams(t, ks), ClearCategories(t, ks), ClearShelves(t, ks)>> \in Seq(WholeTables)
    BY ClearWhole
  <2>2. alive_clear(ClearShelves(t, ks), ks) \in Seq(WholeTables)
    BY ClearWhole, AliveClearWhole
  <2>3. clear_portal(t, ks) \in Seq(WholeTables) /\ Len(clear_portal(t, ks)) >= 3
    BY <2>1, <2>2 DEF clear_portal
  <2>5. \A s \in Seq(WholeTables) : Len(s) = 2 \/ Len(s) >= 3 => s \in Commits
    BY DEF Commits
  <2>4. Len(alive_clear(t, ks)) = 2 /\ alive_clear(t, ks) \in Seq(WholeTables)
    BY AliveClearWhole DEF alive_clear
  <2> QED
    BY <2>3, <2>4, <2>5
<1>2. ASSUME NEW u \in WholeTables, NEW chs \in SUBSET Channels
      PROVE  [u EXCEPT !.channel_hits = chs] \in WholeTables
  <2> DEFINE new == [u EXCEPT !.channel_hits = chs]
  <2>1. /\ new \in DbTables /\ new.alive_ids = u.alive_ids /\ new.alive_meta = u.alive_meta
        /\ new.shelves = u.shelves /\ new.categories = u.categories /\ new.streams = u.streams
    BY DEF WholeTables, DbTables
  <2> HIDE DEF new
  <2>2. \A k \in Shelves : WholeShelf(new, k)
    BY <2>1 DEF WholeTables, WholeShelf, OneCatalog
  <2> QED
    BY <2>1, <2>2 DEF WholeTables, new
<1>3. clear_all(t) \in Commits
  <2> DEFINE cleared == clear_portal(t, Shelves)
  <2>1. cleared \in Commits
    BY <1>1
  <2> HIDE DEF cleared
  <2>2. Last(cleared) \in WholeTables
    BY <2>1, CommitsEnd DEF Commits
  <2>3. [Last(cleared) EXCEPT !.channel_hits = {}] \in WholeTables
    BY <1>2, <2>2
  <2>4. clear_all(t) = Append(cleared, [Last(cleared) EXCEPT !.channel_hits = {}])
    BY DEF clear_all, cleared
  <2> QED
    BY <2>1, <2>3, <2>4 DEF Commits
<1>4. ASSUME NEW k \in Shelves, NEW flag \in {"all", "live"}, NEW ids \in SUBSET {"s1"}
      PROVE  /\ [t EXCEPT !.alive_meta[k] = flag, !.alive_ids[k] = ids] \in WholeTables
             /\ [t EXCEPT !.alive_meta[k] = flag] \in WholeTables
  <2> DEFINE saved == [t EXCEPT !.alive_meta[k] = flag, !.alive_ids[k] = ids]
             flagged == [t EXCEPT !.alive_meta[k] = flag]
  <2>1. /\ saved \in DbTables /\ saved.alive_ids = [t.alive_ids EXCEPT ![k] = ids]
        /\ saved.alive_meta = [t.alive_meta EXCEPT ![k] = flag]
        /\ saved.shelves = t.shelves /\ saved.categories = t.categories /\ saved.streams = t.streams
    BY DEF WholeTables, DbTables
  <2>2. /\ flagged \in DbTables /\ flagged.alive_ids = t.alive_ids
        /\ flagged.alive_meta = [t.alive_meta EXCEPT ![k] = flag]
        /\ flagged.shelves = t.shelves /\ flagged.categories = t.categories
        /\ flagged.streams = t.streams
    BY DEF WholeTables, DbTables
  <2> HIDE DEF saved, flagged
  <2>3. \A j \in Shelves : WholeShelf(saved, j) /\ WholeShelf(flagged, j)
    BY <2>1, <2>2 DEF WholeTables, WholeShelf, OneCatalog, DbTables
  <2> QED
    BY <2>1, <2>2, <2>3 DEF WholeTables, saved, flagged
<1>5. ASSUME NEW chs \in SUBSET Channels
      PROVE  /\ channel_hits_clear(t, chs) \in Commits
             /\ \A ch \in chs : channel_hits_save(t, ch) \in Commits
  <2>1. /\ t.channel_hits \ chs \in SUBSET Channels
        /\ \A ch \in chs : t.channel_hits \cup {ch} \in SUBSET Channels
    BY DEF WholeTables, DbTables
  <2>2. /\ [t EXCEPT !.channel_hits = t.channel_hits \ chs] \in WholeTables
        /\ \A ch \in chs : [t EXCEPT !.channel_hits = t.channel_hits \cup {ch}] \in WholeTables
    BY <1>2, <2>1
  <2> QED
    BY <2>2, OneCommit DEF channel_hits_clear, channel_hits_save
<1>6. ASSUME NEW k \in Shelves, NEW flag \in {"all", "live"}, NEW ids \in {{}, {"s1"}}
      PROVE  alive_save(t, k, ids, flag) \in Commits /\ alive_set_live_only(t, k, flag) \in Commits
  <2>1. ids \in SUBSET {"s1"}
    OBVIOUS
  <2> QED
    BY <1>4, <2>1, OneCommit, Zenon DEF alive_save, alive_set_live_only
<1>7. \/ commits = clear_all(t)
      \/ \E ks \in SUBSET Shelves : commits = clear_portal(t, ks) \/ commits = alive_clear(t, ks)
      \/ \E k \in Shelves, ids \in {{}, {"s1"}}, f \in {"all", "live"} :
           commits = alive_save(t, k, ids, f) \/ commits = alive_set_live_only(t, k, f)
      \/ \E ch \in Channels : commits = channel_hits_save(t, ch)
      \/ \E chs \in SUBSET Channels : commits = channel_hits_clear(t, chs)
  <2> DEFINE O1 == {clear_portal(t, ks) : ks \in (SUBSET Shelves) \ {{}}}
             O2 == {alive_save(t, k, ids, f) : k \in Shelves, ids \in {{}, {"s1"}}, f \in {"all", "live"}}
             O3 == {alive_set_live_only(t, k, f) : k \in Shelves, f \in {"all", "live"}}
             O4 == {alive_clear(t, ks) : ks \in {{k} : k \in Shelves} \union {Shelves}}
             O5 == {channel_hits_save(t, ch) : ch \in Channels}
             O6 == {channel_hits_clear(t, chs) : chs \in {{ch} : ch \in Channels} \union {Channels}}
  <2>1. Operations(t) = {clear_all(t)} \union O1 \union O2 \union O3 \union O4 \union O5 \union O6
    BY SMT DEF Operations
  <2>2. commits \in O1 => \E ks \in SUBSET Shelves : commits = clear_portal(t, ks)
    OBVIOUS
  <2>3. commits \in O2 => \E k \in Shelves, ids \in {{}, {"s1"}}, f \in {"all", "live"} :
                            commits = alive_save(t, k, ids, f)
    OBVIOUS
  <2>4. commits \in O3 => \E k \in Shelves, f \in {"all", "live"} : commits = alive_set_live_only(t, k, f)
    OBVIOUS
  <2>5. commits \in O4 => \E ks \in SUBSET Shelves : commits = alive_clear(t, ks)
    OBVIOUS
  <2>6. commits \in O5 => \E ch \in Channels : commits = channel_hits_save(t, ch)
    OBVIOUS
  <2>7. commits \in O6 => \E chs \in SUBSET Channels : commits = channel_hits_clear(t, chs)
    OBVIOUS
  <2> HIDE DEF O1, O2, O3, O4, O5, O6
  <2> QED
    BY <2>1, <2>2, <2>3, <2>4, <2>5, <2>6, <2>7
<1> QED
  BY <1>1, <1>3, <1>5, <1>6, <1>7

\* The first state satisfies the invariant.
LEMMA InitCatalogInv == CatalogInit => CatalogInv
<1>1. Idle \in PackCalls /\ Idle.pc = "idle"
  BY DEF Idle, PackCalls, PackPcs, CatalogCats
<1> QED
  BY <1>1, EmptyIsWhole DEF CatalogInit, CatalogInv

(* A step of a page call writes nothing, or a whole catalog.                 *)
LEMMA PackKeeps ==
  ASSUME CatalogInv, NEW p \in Packs, NEW c \in PackCalls, pack' = [pack EXCEPT ![p] = c],
         c.pc # "idle" => c.shelf \in Shelves,
         c.pc \in {"import", "store"} => c.fetched \in CatalogAnswers,
         db' \in [Identities -> WholeTables], UNCHANGED conn
  PROVE  CatalogInv'
  BY DEF CatalogInv

\* The next phase of a call is a call.
LEMMA StepTo ==
  ASSUME CatalogInv, NEW p \in Packs, NEW pc \in PackPcs, Step(p, pc)
  PROVE  \E c \in PackCalls : /\ pack' = [pack EXCEPT ![p] = c] /\ c.pc = pc
                              /\ c.shelf = pack[p].shelf /\ c.fetched = pack[p].fetched
<1> DEFINE c == [pack[p] EXCEPT !.pc = pc]
<1>1. pack[p] \in PackCalls
  BY DEF CatalogInv
<1>2. c \in PackCalls
  BY <1>1, Zenon DEF PackCalls
<1>3. c.pc = pc /\ c.shelf = pack[p].shelf /\ c.fetched = pack[p].fetched
  BY <1>1 DEF PackCalls
<1>4. pack' = [pack EXCEPT ![p] = c]
  BY Zenon DEF Step
<1> QED
  BY <1>2, <1>3, <1>4

\* An operation ends: its pack is idle again.
LEMMA EndKeeps ==
  ASSUME CatalogInv, NEW p \in Packs, End(p), db' \in [Identities -> WholeTables], UNCHANGED conn
  PROVE  CatalogInv'
<1>1. Idle \in PackCalls /\ Idle.pc = "idle"
  BY DEF Idle, PackCalls, PackPcs, CatalogCats
<1> QED
  BY <1>1, PackKeeps DEF End

\* An operation goes on to its next answer of the provider.
LEMMA StepKeeps ==
  ASSUME CatalogInv, NEW p \in Packs, pack[p].pc # "idle",
         NEW pc \in {"fetch", "page", "categories"}, Step(p, pc),
         db' \in [Identities -> WholeTables], UNCHANGED conn
  PROVE  CatalogInv'
<1>1. pc \in PackPcs
  BY DEF PackPcs
<1>2. PICK c \in PackCalls : /\ pack' = [pack EXCEPT ![p] = c] /\ c.pc = pc
                             /\ c.shelf = pack[p].shelf /\ c.fetched = pack[p].fetched
  BY <1>1, StepTo
<1>3. pack[p].shelf \in Shelves
  BY DEF CatalogInv
<1> QED
  BY <1>2, <1>3, PackKeeps

\* An operation begins.
LEMMA BeginKeeps ==
  ASSUME CatalogInv, NEW p \in Packs, Begin(p)
  PROVE  CatalogInv'
<1>1. PICK k \in Shelves, refresh \in BOOLEAN :
        pack' = [pack EXCEPT ![p] = [Idle EXCEPT !.pc = IF refresh THEN "fetch" ELSE "ask",
                                                 !.shelf = k, !.refresh = refresh]]
  BY DEF Begin
<1> DEFINE c == [Idle EXCEPT !.pc = IF refresh THEN "fetch" ELSE "ask",
                             !.shelf = k, !.refresh = refresh]
<1>2. c \in PackCalls /\ c.pc \in {"fetch", "ask"} /\ c.shelf = k
  BY DEF Idle, PackCalls, PackPcs, CatalogCats
<1>3. db' = db /\ conn' = conn /\ db \in [Identities -> WholeTables]
  BY DEF Begin, CatalogInv
<1> QED
  BY <1>1, <1>2, <1>3, PackKeeps

\* A catalog is fetched, or found in the old format.
LEMMA FetchedKeeps ==
  ASSUME CatalogInv, NEW p \in Packs, pack[p].pc # "idle", NEW pc \in {"import", "store"},
         NEW a \in CatalogAnswers, pack' = [pack EXCEPT ![p].pc = pc, ![p].fetched = a],
         UNCHANGED <<db, conn>>
  PROVE  CatalogInv'
<1> DEFINE c == [pack[p] EXCEPT !.pc = pc, !.fetched = a]
<1>1. pack[p] \in PackCalls /\ pack[p].shelf \in Shelves /\ db \in [Identities -> WholeTables]
  BY DEF CatalogInv
<1>2. pc \in PackPcs /\ a \in CatalogAnswers \cup {NoCatalog}
  BY DEF PackPcs
<1>3. c \in PackCalls
  BY <1>1, <1>2, Zenon DEF PackCalls
<1>4. c.pc = pc /\ c.shelf = pack[p].shelf /\ c.fetched = a
  BY <1>1 DEF PackCalls
<1>5. pack' = [pack EXCEPT ![p] = c]
  BY Zenon
<1> HIDE DEF c
<1> QED
  BY <1>1, <1>3, <1>4, <1>5, PackKeeps

\* A shelf is stored, in as many of its transactions as are reached.
LEMMA StoreKeeps ==
  ASSUME CatalogInv, NEW p \in Packs, StoreShelf(p)
  PROVE  CatalogInv'
<1> DEFINE commits == replace_shelf(db[conn], pack[p].shelf, pack[p].fetched)
<1>1. /\ pack[p].shelf \in Shelves /\ pack[p].fetched \in CatalogAnswers
      /\ pack[p].pc \in {"import", "store"} /\ UNCHANGED conn
      /\ db \in [Identities -> WholeTables] /\ conn \in Identities \cup {"none"}
  BY DEF StoreShelf, CatalogInv
<1>2. conn # "none" => commits \in Seq(WholeTables)
  BY <1>1, ReplaceWhole
<1>3. db' = db \/ (conn # "none" /\ db' = [db EXCEPT ![conn] = IF commits = <<>> THEN @ ELSE Last(commits)])
  BY DEF StoreShelf, Commit
<1> HIDE DEF commits
<1>4. db' \in [Identities -> WholeTables]
  BY <1>1, <1>2, <1>3, CommitsEnd
<1>5. Step(p, "page") \/ Step(p, "fetch") \/ End(p)
  BY DEF StoreShelf, At
<1> QED
  BY <1>1, <1>4, <1>5, StepKeeps, EndKeeps

\* Every step keeps the invariant.
LEMMA NextCatalogInv == CatalogInv /\ [CatalogNext]_catalogVars => CatalogInv'
<1> SUFFICES ASSUME CatalogInv, [CatalogNext]_catalogVars PROVE CatalogInv'
  OBVIOUS
<1>1. db \in [Identities -> WholeTables] /\ conn \in Identities \cup {"none"}
  BY DEF CatalogInv
<1>2. CASE handle_json
  <2>1. PICK commits \in Operations(db[conn]) : Commit(commits)
    BY <1>2 DEF handle_json
  <2>2. db[conn] \in WholeTables
    BY <1>1, <1>2 DEF handle_json
  <2>3. commits \in Commits
    BY <2>2, OperationsWhole
  <2>4. commits \in Seq(WholeTables) /\ Last(commits) \in WholeTables
    BY <2>3, CommitsEnd DEF Commits
  <2>5. db' \in [Identities -> WholeTables]
    BY <1>1, <2>1, <2>3, <2>4 DEF Commit
  <2> QED
    BY <1>2, <2>5 DEF handle_json, CatalogInv
<1>3. CASE CatalogKill
  <2>1. Idle \in PackCalls /\ Idle.pc = "idle"
    BY DEF Idle, PackCalls, PackPcs, CatalogCats
  <2>2. db' \in [Identities -> WholeTables]
    <3>1. ASSUME conn # "none", NEW commits \in Operations(db[conn]), NEW i \in DOMAIN commits,
                 db' = [db EXCEPT ![conn] = commits[i]]
          PROVE  db' \in [Identities -> WholeTables]
      <4>1. commits \in Seq(WholeTables)
        BY <1>1, <3>1, OperationsWhole DEF Commits
      <4> QED
        BY <1>1, <3>1, <4>1
    <3>2. ASSUME conn # "none", NEW p \in Packs, pack[p].pc \in {"import", "store"},
                 NEW i \in DOMAIN replace_shelf(db[conn], pack[p].shelf, pack[p].fetched),
                 db' = [db EXCEPT ![conn] = replace_shelf(db[conn], pack[p].shelf, pack[p].fetched)[i]]
          PROVE  db' \in [Identities -> WholeTables]
      <4>1. replace_shelf(db[conn], pack[p].shelf, pack[p].fetched) \in Seq(WholeTables)
        BY <1>1, <3>2, ReplaceWhole DEF CatalogInv
      <4> QED
        BY <1>1, <3>2, <4>1
    <3> QED
      BY <1>1, <1>3, <3>1, <3>2 DEF CatalogKill
  <2> QED
    BY <1>3, <2>1, <2>2 DEF CatalogKill, CatalogInv
<1>4. CASE catalog_open \/ catalog_close \/ UNCHANGED catalogVars
  BY <1>4 DEF catalog_open, catalog_close, catalogVars, CatalogInv
<1>5. ASSUME NEW p \in Packs, Ask(p) \/ Fetch(p)
      PROVE  CatalogInv'
  BY <1>1, <1>5, FetchedKeeps, StepKeeps, EndKeeps DEF Ask, Fetch, At
<1>6. ASSUME NEW p \in Packs, PageShelf(p) \/ PageRows(p)
      PROVE  CatalogInv'
  BY <1>1, <1>6, StepKeeps, EndKeeps DEF PageShelf, PageRows, At
<1>7. ASSUME NEW p \in Packs, load_categories(p)
      PROVE  CatalogInv'
  <2> DEFINE c == [pack[p] EXCEPT !.pc = "rows", !.cats = db[conn].categories[pack[p].shelf]]
  <2>1. CASE conn = "none"
    BY <1>1, <1>7, <2>1, EndKeeps DEF load_categories
  <2>2. CASE conn # "none"
    <3>1. /\ pack' = [pack EXCEPT ![p].pc = "rows", ![p].cats = db[conn].categories[pack[p].shelf]]
          /\ pack[p] \in PackCalls /\ pack[p].shelf \in Shelves /\ UNCHANGED <<db, conn>>
      BY <1>7, <2>2 DEF load_categories, At, CatalogInv
    <3>2. "rows" \in PackPcs /\ db[conn].categories[pack[p].shelf] \in CatalogCats
      BY <1>1, <2>2, <3>1 DEF PackPcs, WholeTables, DbTables
    <3>3. c \in PackCalls
      BY <3>1, <3>2, Zenon DEF PackCalls
    <3>4. c.pc = "rows" /\ c.shelf = pack[p].shelf
      BY <3>1 DEF PackCalls
    <3>5. pack' = [pack EXCEPT ![p] = c]
      BY <3>1, Zenon
    <3> HIDE DEF c
    <3> QED
      BY <1>1, <3>1, <3>3, <3>4, <3>5, PackKeeps
  <2> QED
    BY <2>1, <2>2
<1> QED
  BY <1>2, <1>3, <1>4, <1>5, <1>6, <1>7, BeginKeeps, StoreKeeps DEF CatalogNext

(* For any identities, shelves, catalogs, packs and kills: what a file holds *)
(* of a shelf is one catalog, whole, or what a clear left of it under its    *)
(* header (replace_shelf and clear_portal of catalog_db.rs).                 *)
THEOREM Shelved == CatalogSpec => []ShelfWhole
<1>1. CatalogInv => ShelfWhole
  BY DEF CatalogInv, WholeTables, WholeShelf, ShelfWhole
<1> QED
  BY InitCatalogInv, NextCatalogInv, <1>1, PTL DEF CatalogSpec

\* The rows of a table: each has a place of its own and an id of its own.
RowsApart(R) ==
  /\ IsFiniteSet(R)
  /\ \A s \in R : s.sort_order \in Int
  /\ \A s, r \in R : s.sort_order = r.sort_order \/ s.id = r.id => s = r

\* What is stored of a catalog's streams are rows of their own.
LEMMA StoredApart ==
  ASSUME NEW c \in CatalogAnswers
  PROVE  /\ StreamRows(c.streams) \in Seq([id : STRING, category_id : STRING, name : STRING, sort_order : Nat])
         /\ RowsApart(Range(StreamRows(c.streams)))
<1> DEFINE T == [id : STRING, category_id : STRING, name : STRING, sort_order : Nat]
           streams == c.streams
           numbered == [i \in DOMAIN streams |-> [streams[i] EXCEPT !.sort_order = i]]
           keep == {i \in DOMAIN streams : /\ streams[i].id # ""
                                           /\ \A j \in (i + 1)..Len(streams) : streams[j].id # streams[i].id}
           rows == Picked(numbered, keep)
           K == Cardinality(keep)
           u == Upwards(keep)
<1>1. streams \in Seq(T)
  BY AnswersAreCatalogs
<1>2. StreamRows(c.streams) = rows
  BY DEF StreamRows
<1> HIDE DEF T, streams
<1>3. \A i \in 1..Len(streams) : streams[i] \in T
  BY <1>1
<1>4. DOMAIN streams = 1..Len(streams) /\ Len(streams) \in Nat
  BY <1>1
<1>5. numbered \in Seq(T) /\ Len(numbered) = Len(streams)
  <2>1. \A i \in 1..Len(streams) : numbered[i] \in T
    BY <1>3, <1>4 DEF T
  <2>2. numbered \in [1..Len(streams) -> T]
    BY <1>4, <2>1
  <2>3. DOMAIN numbered = 1..Len(streams)
    BY <1>4
  <2> HIDE DEF numbered
  <2> QED
    BY <1>4, <2>2, <2>3
<1>6. \A i \in 1..Len(streams) : numbered[i].sort_order = i /\ numbered[i].id = streams[i].id
  BY <1>3, <1>4 DEF T
<1>7. keep \in SUBSET (1..Len(numbered))
  BY <1>4, <1>5
<1>8. \A i, j \in keep : numbered[i].id = numbered[j].id => i = j
  <2>1. \A i \in keep : i \in 1..Len(streams)
    BY <1>4
  <2>2. ASSUME NEW i \in keep, NEW j \in keep, i < j
        PROVE  numbered[i].id # numbered[j].id
    <3>1. \A m \in (i + 1)..Len(streams) : streams[m].id # streams[i].id
      OBVIOUS
    <3> HIDE DEF keep, numbered
    <3>2. i \in 1..Len(streams) /\ j \in 1..Len(streams)
      BY <2>1
    <3>3. j \in (i + 1)..Len(streams)
      BY <1>4, <2>2, <3>2
    <3> HIDE DEF numbered
    <3> QED
      BY <1>6, <2>1, <3>1, <3>3
  <2> HIDE DEF keep, numbered
  <2>3. \A i, j \in keep : i < j \/ i = j \/ j < i
    BY <1>4, <2>1
  <2> QED
    BY <2>2, <2>3
<1> HIDE DEF numbered, keep
<1>9. /\ rows \in Seq(T) /\ Len(rows) = K /\ K \in Nat
      /\ u \in [1..K -> keep]
      /\ \A n \in 1..K : rows[n] = numbered[u[n]]
  BY <1>5, <1>7, PickedIs
<1> HIDE DEF rows, K, u
<1>10. \A s \in Range(rows) : \E i \in keep : s = numbered[i]
  BY <1>9 DEF Range
<1>11. \A i \in keep : i \in 1..Len(streams)
  BY <1>5, <1>7
<1>12. \A s \in Range(rows) : s.sort_order \in Int
  BY <1>6, <1>10, <1>11
<1>13. \A s, r \in Range(rows) : s.sort_order = r.sort_order \/ s.id = r.id => s = r
  BY <1>6, <1>8, <1>10, <1>11
<1>14. IsFiniteSet(Range(rows))
  BY <1>9, RangeFinite
<1> QED
  BY <1>2, <1>9, <1>12, <1>13, <1>14 DEF RowsApart, T

\* The rows before each row, in the order asked for.
Below(R, sort) == [s \in R |-> {r \in R : Before(sort, r, s)}]

\* The order asked for, over rows that stand apart, is one.
LEMMA BeforeOrders ==
  ASSUME NEW R, RowsApart(R), NEW sort
  PROVE  IsOrder(R, Below(R, sort))
<1> DEFINE below == Below(R, sort)
<1>1. \A s, r \in R : r \in below[s] <=> Before(sort, r, s)
  BY DEF Below
<1>2. \A s \in R : below[s] \subseteq R
  BY DEF Below
<1> HIDE DEF below
<1>3. \A s : Rank(s) \in Int
  BY DEF Rank
<1>4. \A s, r \in R : /\ s.sort_order \in Int /\ r.sort_order \in Int
                      /\ s.sort_order = r.sort_order => s = r
  BY DEF RowsApart
<1>5. \A s \in R : s \notin below[s]
  BY <1>1, <1>3, <1>4 DEF Before
<1>6. \A s, r \in R : s # r => s \in below[r] \/ r \in below[s]
  <2> SUFFICES ASSUME NEW s \in R, NEW r \in R, s # r
               PROVE  Before(sort, s, r) \/ Before(sort, r, s)
    BY <1>1
  <2>1. s.sort_order < r.sort_order \/ r.sort_order < s.sort_order
    BY <1>4
  <2>2. Rank(s) < Rank(r) \/ Rank(s) = Rank(r) \/ Rank(s) > Rank(r)
    BY <1>3
  <2>3. (Rank(s) < Rank(r) <=> Rank(r) > Rank(s)) /\ (Rank(s) > Rank(r) <=> Rank(r) < Rank(s))
    BY <1>3
  <2> QED
    BY <2>1, <2>2, <2>3 DEF Before
<1>7. ASSUME NEW s \in R, NEW r \in R, s \in below[r]
      PROVE  below[s] \subseteq below[r]
  <2> SUFFICES ASSUME NEW q \in R, Before(sort, q, s)
               PROVE  Before(sort, q, r)
    BY <1>1, <1>2
  <2>1. Before(sort, s, r)
    BY <1>1, <1>7
  <2>2. Rank(q) \in Int /\ Rank(s) \in Int /\ Rank(r) \in Int
    BY <1>3
  <2>3. q.sort_order \in Int /\ s.sort_order \in Int /\ r.sort_order \in Int
    BY <1>4
  <2> QED
    BY <2>1, <2>2, <2>3 DEF Before
<1> QED
  BY <1>2, <1>5, <1>6, <1>7 DEF IsOrder, below

\* A multiple of a number is no less than its factor.
LEMMA AtLeast ==
  ASSUME NEW x \in Nat, NEW y \in Nat \ {0}
  PROVE  x * y \in Nat /\ x * y >= x /\ (x + 1) * y = x * y + y
  OBVIOUS

\* One multiple less is at least one unit less.
LEMMA Times ==
  ASSUME NEW x \in Nat, NEW y \in Nat, NEW S \in Nat \ {0}, x < y
  PROVE  x * S + S <= y * S
<1>1. (y - x - 1) * S \in Nat
  BY AtLeast
<1>2. (y - x - 1) * S = y * S - x * S - S
  OBVIOUS
<1>3. x * S \in Nat /\ y * S \in Nat
  BY AtLeast
<1> QED
  BY <1>1, <1>2, <1>3

\* N rows are cut into pages of S: n is the first page after which none is
\* left, page m has count[m] rows.
CutInto(N, S, n, count) ==
  /\ N \in Nat /\ S \in Nat \ {0} /\ n \in Nat \ {0} /\ N <= n * S
  /\ \A m \in 1..n :
       count[m] = IF m * S < N THEN S ELSE IF (m - 1) * S < N THEN N - (m - 1) * S ELSE 0

\* The pages lie inside the rows, and each row is on one of them.
LEMMA CutIs ==
  ASSUME NEW N, NEW S, NEW n, NEW count, CutInto(N, S, n, count)
  PROVE  /\ \A m \in 1..n, i \in 1..S : i <= count[m] => (m - 1) * S + i \in 1..N
         /\ \A m \in 1..n : count[m] \in 0..S
         /\ \A r \in 1..N : \E m \in 1..n : r - (m - 1) * S \in 1..count[m]
<1> USE DEF CutInto
<1> DEFINE off == [m \in 1..(n + 1) |-> (m - 1) * S]
<1>1. ASSUME NEW m \in 1..(n + 1)
      PROVE  off[m] = (m - 1) * S /\ off[m] \in Nat
  <2>1. m - 1 \in Nat
    OBVIOUS
  <2>2. (m - 1) * S \in Nat
    BY <2>1, AtLeast
  <2> QED
    BY <2>2
<1>2. ASSUME NEW m \in 1..n
      PROVE  off[m + 1] = m * S /\ off[m + 1] = off[m] + S
  <2>1. m + 1 \in 1..(n + 1) /\ m \in 1..(n + 1) /\ m - 1 \in Nat
    OBVIOUS
  <2>2. ((m - 1) + 1) * S = (m - 1) * S + S /\ m + 1 - 1 = m /\ (m - 1) + 1 = m
    BY <2>1, AtLeast
  <2> QED
    BY <1>1, <2>1, <2>2
<1>3. off[1] = 0 /\ off[n + 1] = n * S
  <2>1. 1 \in 1..(n + 1) /\ n \in 1..n /\ 0 * S = 0 /\ 1 - 1 = 0
    OBVIOUS
  <2> QED
    BY <1>2, <2>1
<1>4. \A m \in 1..n : count[m] = IF off[m + 1] < N THEN S ELSE IF off[m] < N THEN N - off[m] ELSE 0
  BY <1>1, <1>2
<1>5. \A m \in 1..n : off[m] \in Nat /\ off[m + 1] = off[m] + S /\ off[m] = (m - 1) * S
  BY <1>1, <1>2
<1>6. N <= off[n + 1]
  BY <1>3
<1> HIDE DEF off, CutInto
<1>7. N \in Nat /\ S \in Nat \ {0} /\ n \in Nat \ {0}
  BY DEF CutInto
<1>8. \A m \in 1..n : count[m] \in 0..S
  BY <1>4, <1>5, <1>7
<1>9. \A m \in 1..n, i \in 1..S : i <= count[m] => off[m] + i \in 1..N
  BY <1>4, <1>5, <1>7
<1>10. \A r \in 1..N : \E m \in 1..n : r - off[m] \in 1..count[m]
  <2> SUFFICES ASSUME NEW r \in 1..N PROVE \E m \in 1..n : r - off[m] \in 1..count[m]
    OBVIOUS
  <2> DEFINE M == {m \in 1..n : r <= off[m + 1]}
             m == Min(M)
  <2>1. n \in M
    BY <1>6, <1>7, <1>5
  <2>2. IsFiniteSet(1..n) /\ M \in SUBSET (1..n) /\ 1..n \in SUBSET Int
    BY <1>7, FS_Interval
  <2> HIDE DEF M
  <2>3. IsFiniteSet(M) /\ M \in SUBSET Int /\ M # {}
    BY <2>1, <2>2, FS_Subset
  <2>4. m \in M /\ \A x \in M : m <= x
    BY <2>3, LeastOf
  <2> HIDE DEF m
  <2>5. m \in 1..n /\ r <= off[m + 1]
    BY <2>4 DEF M
  <2>6. off[m] < r
    <3>1. CASE m = 1
      BY <1>3, <3>1
    <3>2. CASE m # 1
      <4>1. m - 1 \in 1..n /\ m - 1 \notin M
        BY <1>7, <2>4, <2>5, <3>2
      <4>2. ~(r <= off[(m - 1) + 1]) /\ (m - 1) + 1 = m
        BY <2>5, <4>1 DEF M
      <4> QED
        BY <1>5, <2>5, <4>2
    <3> QED
      BY <3>1, <3>2
  <2>7. r - off[m] \in 1..count[m]
    BY <1>4, <1>5, <1>7, <2>5, <2>6
  <2> QED
    BY <2>5, <2>7
<1> QED
  BY <1>5, <1>8, <1>9, <1>10

\* How many of N rows page m has.
PageLength(N, S, m) == IF m * S < N THEN S ELSE IF (m - 1) * S < N THEN N - (m - 1) * S ELSE 0

\* A page is a stretch of the sorted rows, and has_more says whether it ends
\* before they do.
LEMMA PageIs ==
  ASSUME NEW t, NEW k, NEW req, RowsApart(Matching(t, k, req)), NEW S \in Nat \ {0}, NEW m \in Nat \ {0}
  PROVE  LET N == Cardinality(Matching(t, k, req))
             rows == Sorted(Matching(t, k, req), req.sort)
             q == query_page(t, k, req, m, S)
         IN  /\ q.has_more <=> m * S < N
             /\ DOMAIN q.streams = 1..PageLength(N, S, m)
             /\ \A i \in 1..PageLength(N, S, m) : q.streams[i] = rows[(m - 1) * S + i]
<1> DEFINE R == Matching(t, k, req)
           N == Cardinality(R)
           rows == Sorted(R, req.sort)
           q == query_page(t, k, req, m, S)
           o == (m - 1) * S
           last == IF o + S < N THEN o + S ELSE N
           slice == SubSeq(rows, o + 1, last)
           sort == req.sort
           below == Below(R, sort)
<1>1. rows = InOrder(R, below)
  BY DEF Sorted, Below
<1>2. IsOrder(R, below) /\ IsFiniteSet(R)
  BY BeforeOrders DEF RowsApart
<1> HIDE DEF R, below
<1>3. N \in Nat /\ InOrder(R, below) \in [1..N -> R]
  BY <1>2, InOrderIs
<1>4. rows \in [1..N -> R]
  BY <1>1, <1>3
<1> HIDE DEF rows
<1>5. Len(rows) = N
  BY <1>3, <1>4
<1>6. o \in Nat /\ m * S = o + S
  <2>1. m - 1 \in Nat /\ (m - 1) + 1 = m
    OBVIOUS
  <2>2. (m - 1) * S \in Nat /\ ((m - 1) + 1) * S = (m - 1) * S + S
    BY <2>1, AtLeast
  <2> QED
    BY <2>1, <2>2
<1>7. offset(m, S) = o
  BY DEF offset
<1>8. q.streams = slice /\ (q.has_more <=> o + Len(slice) < N)
  BY <1>5, <1>7 DEF query_page, R, rows
<1> HIDE DEF N, o, q
<1>9. last \in Nat /\ last <= N
  BY <1>3, <1>6
<1> HIDE DEF last
<1>10. /\ DOMAIN slice = 1..(last - o) /\ Len(slice) = IF o < last THEN last - o ELSE 0
       /\ \A i \in 1..(last - o) : slice[i] = rows[o + i]
  BY <1>3, <1>4, <1>6, <1>9
<1> HIDE DEF slice
<1>11. q.has_more <=> m * S < N
  <2>1. o + Len(slice) < N <=> o + S < N
    <3>1. Len(slice) = IF o < last THEN last - o ELSE 0
      BY <1>10
    <3> QED
      BY <1>3, <1>6, <3>1 DEF last
  <2> QED
    BY <1>6, <1>8, <2>1
<1>12. 1..(last - o) = 1..(IF m * S < N THEN S ELSE IF o < N THEN N - o ELSE 0)
  BY <1>3, <1>6 DEF last
<1>13. 1..(last - o) = 1..PageLength(N, S, m)
  BY <1>12 DEF PageLength, o
<1> QED
  BY <1>8, <1>10, <1>11, <1>13 DEF N, q, o, R, rows

\* The reader's last page is the first one that has the last row.
LEMMA PageCountIs ==
  ASSUME NEW t, NEW k, NEW req, RowsApart(Matching(t, k, req)), NEW S \in Nat \ {0},
         Len(t.streams[k]) \in Nat, Cardinality(Matching(t, k, req)) <= Len(t.streams[k])
  PROVE  /\ PageCount(t, k, req, S) \in Nat \ {0}
         /\ Cardinality(Matching(t, k, req)) <= PageCount(t, k, req, S) * S
<1> DEFINE N == Cardinality(Matching(t, k, req))
           L == Len(t.streams[k])
           more(m) == query_page(t, k, req, m, S).has_more
           Ends == {m \in 1..(L + 1) : ~more(m)}
           n == Min(Ends)
           chosen == PageCount(t, k, req, S)
<1>1. N \in Nat
  BY FS_CardinalityType DEF RowsApart
<1>2. \A m \in 1..(L + 1) : more(m) <=> m * S < N
  <2>1. \A m \in 1..(L + 1) : m \in Nat \ {0}
    OBVIOUS
  <2> QED
    BY <2>1, PageIs
<1>3. chosen = CHOOSE c \in 1..(L + 1) : ~more(c) /\ \A m \in 1..(c - 1) : more(m)
  BY DEF PageCount
<1> HIDE DEF N, L, more, chosen
<1>4. L \in Nat /\ N <= L
  BY DEF L, N
<1>5. L + 1 \in Ends
  <2>1. (L + 1) * S >= L + 1 /\ (L + 1) * S \in Nat
    <3>1. L + 1 \in Nat
      BY <1>4
    <3> QED
      BY <3>1, AtLeast
  <2> QED
    BY <1>1, <1>2, <1>4, <2>1
<1>6. IsFiniteSet(1..(L + 1)) /\ Ends \in SUBSET (1..(L + 1)) /\ 1..(L + 1) \in SUBSET Int
  BY <1>4, FS_Interval
<1>7. IsFiniteSet(Ends) /\ Ends \in SUBSET Int /\ Ends # {}
  <2> HIDE DEF Ends
  <2> QED
    BY <1>5, <1>6, FS_Subset
<1>8. n \in Ends /\ \A m \in Ends : n <= m
  <2> HIDE DEF Ends
  <2> QED
    BY <1>7, LeastOf
<1> HIDE DEF n
<1>9. n \in 1..(L + 1) /\ ~more(n) /\ \A m \in 1..(n - 1) : more(m)
  <2>1. \A m \in 1..(n - 1) : m \in 1..(L + 1) /\ ~(n <= m)
    BY <1>4, <1>8
  <2> QED
    BY <1>8, <2>1
<1>10. chosen \in 1..(L + 1) /\ ~more(chosen)
  <2> HIDE DEF Ends
  <2> QED
    BY <1>3, <1>9
<1>11. ~(chosen * S < N) /\ chosen \in Nat
  BY <1>2, <1>4, <1>10
<1>12. chosen * S \in Nat
  BY <1>11, AtLeast
<1>13. N <= chosen * S /\ chosen \in Nat \ {0}
  BY <1>1, <1>4, <1>10, <1>11, <1>12
<1> QED
  BY <1>13 DEF N, chosen

\* The pages a reader gets hold every matching row once, in the order asked
\* for.
LEMMA CoveredIs ==
  ASSUME NEW t, NEW k, NEW req, RowsApart(Matching(t, k, req)), NEW S \in Nat \ {0},
         Len(t.streams[k]) \in Nat, Cardinality(Matching(t, k, req)) <= Len(t.streams[k])
  PROVE  PagesCovered(t, k, req, S)
<1> DEFINE R == Matching(t, k, req)
           N == Cardinality(R)
           sort == req.sort
           below == Below(R, sort)
           rows == Sorted(R, sort)
           n == PageCount(t, k, req, S)
           pages == [m \in 1..n |-> query_page(t, k, req, m, S).streams]
           count == [m \in 1..n |-> PageLength(N, S, m)]
           places == UNION {{m} \X DOMAIN pages[m] : m \in DOMAIN pages}
           row(pl) == pages[pl[1]][pl[2]]
           place(pl) == (pl[1] - 1) * S + pl[2]
<1>1. n \in Nat \ {0} /\ N <= n * S
  BY PageCountIs
<1>2. IsOrder(R, below) /\ IsFiniteSet(R) /\ N \in Nat
  BY BeforeOrders, FS_CardinalityType DEF RowsApart
<1>3. \A m \in 1..n : /\ DOMAIN pages[m] = 1..count[m]
                      /\ \A i \in 1..count[m] : pages[m][i] = rows[(m - 1) * S + i]
  <2> SUFFICES ASSUME NEW m \in 1..n
               PROVE  /\ DOMAIN pages[m] = 1..count[m]
                      /\ \A i \in 1..count[m] : pages[m][i] = rows[(m - 1) * S + i]
    OBVIOUS
  <2> DEFINE q == query_page(t, k, req, m, S)
  <2>1. m \in Nat \ {0}
    BY <1>1
  <2>2. /\ DOMAIN q.streams = 1..PageLength(N, S, m)
        /\ \A i \in 1..PageLength(N, S, m) : q.streams[i] = rows[(m - 1) * S + i]
    BY <2>1, PageIs
  <2>3. pages[m] = q.streams /\ count[m] = PageLength(N, S, m)
    OBVIOUS
  <2> HIDE DEF q, pages, count, rows, N
  <2> QED
    BY <2>2, <2>3
<1>4. rows = InOrder(R, below)
  BY DEF Sorted, Below
<1>5. \A s, r \in R : r \in below[s] <=> Before(sort, r, s)
  BY DEF Below
<1>6. PagesCovered(t, k, req, S) <=>
        /\ {row(pl) : pl \in places} = R
        /\ \A x, y \in places : x[1] < y[1] \/ (x[1] = y[1] /\ x[2] < y[2]) => Before(sort, row(x), row(y))
  BY DEF PagesCovered
<1> HIDE DEF R, below, rows, n
<1>7. /\ InOrder(R, below) \in [1..N -> R]
      /\ \A a \in R : \E r \in 1..N : InOrder(R, below)[r] = a
      /\ \A x, y \in 1..N : x < y <=> InOrder(R, below)[x] \in below[InOrder(R, below)[y]]
  <2>1. /\ InOrder(R, below) \in [1..N -> R]
        /\ \A a \in R : /\ Cardinality(below[a]) + 1 \in 1..N
                        /\ InOrder(R, below)[Cardinality(below[a]) + 1] = a
        /\ \A x, y \in 1..N : x < y <=> InOrder(R, below)[x] \in below[InOrder(R, below)[y]]
    BY <1>2, InOrderIs
  <2> HIDE DEF N
  <2> QED
    BY <2>1
<1>8. /\ rows \in [1..N -> R]
      /\ \A a \in R : \E r \in 1..N : rows[r] = a
      /\ \A x, y \in 1..N : x < y => rows[x] \in below[rows[y]]
  BY <1>4, <1>7
<1>9. \A pl : pl \in places <=> \E m \in 1..n : \E i \in DOMAIN pages[m] : pl = <<m, i>>
  OBVIOUS
<1> HIDE DEF N, pages, places
<1>10. CutInto(N, S, n, count)
  BY <1>1, <1>2 DEF CutInto, PageLength
<1> HIDE DEF count
<1>11. /\ \A m \in 1..n, i \in 1..S : i <= count[m] => (m - 1) * S + i \in 1..N
       /\ \A m \in 1..n : count[m] \in 0..S
       /\ \A r \in 1..N : \E m \in 1..n : r - (m - 1) * S \in 1..count[m]
  BY <1>10, CutIs
<1>12. ASSUME NEW pl \in places
       PROVE  /\ pl[1] \in 1..n /\ pl[2] \in 1..S /\ pl[2] <= count[pl[1]] 
              /\ place(pl) \in 1..N /\ row(pl) = rows[place(pl)]
  <2> PICK m \in 1..n : \E i \in 1..count[m] : pl = <<m, i>>
    BY <1>3, <1>9
  <2>1. PICK i \in 1..count[m] : pl = <<m, i>>
    OBVIOUS
  <2>2. count[m] \in 0..S
    BY <1>11
  <2>3. i \in 1..S /\ i <= count[m]
    BY <2>2
  <2>4. (m - 1) * S + i \in 1..N /\ pages[m][i] = rows[(m - 1) * S + i]
    BY <1>3, <1>11, <2>3
  <2>5. pl[1] = m /\ pl[2] = i
    BY <2>1
  <2> QED
    BY <2>3, <2>4, <2>5
<1>13. ASSUME NEW a \in R
       PROVE  \E pl \in places : row(pl) = a
  <2>1. PICK r \in 1..N : rows[r] = a
    BY <1>8
  <2>2. PICK m \in 1..n : r - (m - 1) * S \in 1..count[m]
    BY <1>11
  <2> DEFINE i == r - (m - 1) * S
             pl == <<m, i>>
  <2>3. (m - 1) * S \in Nat
    <3>1. m - 1 \in Nat
      OBVIOUS
    <3> QED
      BY <3>1, AtLeast
  <2>4. (m - 1) * S + i = r
    BY <2>3
  <2> HIDE DEF i
  <2>5. pages[m][i] = a
    BY <1>3, <2>1, <2>2, <2>4 DEF i
  <2>6. pl \in places
    BY <1>3, <1>9, <2>2 DEF i
  <2>7. pl[1] = m /\ pl[2] = i
    OBVIOUS
  <2> HIDE DEF pl
  <2> QED
    BY <2>5, <2>6, <2>7
<1>14. ASSUME NEW x \in places, NEW y \in places, x[1] < y[1] \/ (x[1] = y[1] /\ x[2] < y[2])
       PROVE  place(x) < place(y)
  <2>1. /\ x[1] \in 1..n /\ x[2] \in 1..S /\ y[1] \in 1..n /\ y[2] \in 1..S
    BY <1>12
  <2>2. x[1] - 1 \in Nat /\ y[1] - 1 \in Nat
    BY <2>1
  <2>3. (x[1] - 1) * S \in Nat /\ (y[1] - 1) * S \in Nat
    BY <2>2, AtLeast
  <2>4. CASE x[1] < y[1]
    <3>1. x[1] - 1 < y[1] - 1
      BY <2>1, <2>4
    <3>2. (x[1] - 1) * S + S <= (y[1] - 1) * S
      BY <2>2, <3>1, Times
    <3> DEFINE a == (x[1] - 1) * S
               b == (y[1] - 1) * S
    <3>3. a \in Nat /\ b \in Nat /\ a + S <= b /\ place(x) = a + x[2] /\ place(y) = b + y[2]
      BY <2>3, <3>2
    <3> HIDE DEF a, b, place
    <3> QED
      BY <2>1, <3>3
  <2>5. CASE x[1] = y[1] /\ x[2] < y[2]
    BY <2>1, <2>3, <2>5
  <2> QED
    BY <1>14, <2>4, <2>5
<1> HIDE DEF row, place
<1>15. {row(pl) : pl \in places} = R
  <2>1. \A pl \in places : row(pl) \in R
    BY <1>8, <1>12
  <2> QED
    BY <1>13, <2>1
<1>16. \A x, y \in places : x[1] < y[1] \/ (x[1] = y[1] /\ x[2] < y[2]) => Before(sort, row(x), row(y))
  <2> SUFFICES ASSUME NEW x \in places, NEW y \in places, x[1] < y[1] \/ (x[1] = y[1] /\ x[2] < y[2])
               PROVE  Before(sort, row(x), row(y))
    OBVIOUS
  <2>1. place(x) \in 1..N /\ place(y) \in 1..N /\ row(x) = rows[place(x)] /\ row(y) = rows[place(y)]
    BY <1>12
  <2>2. place(x) < place(y)
    BY <1>14
  <2>3. row(x) \in below[row(y)] /\ row(x) \in R /\ row(y) \in R
    BY <1>8, <2>1, <2>2
  <2> QED
    BY <1>5, <2>3
<1> QED
  BY <1>6, <1>15, <1>16

\* The rows of a list of ids are those it names, in its order.
LEMMA ListedIs ==
  ASSUME NEW t, NEW k, RowsApart(Range(t.streams[k])), NEW T, NEW ids \in Seq(T)
  PROVE  IdsListed(t, k, ids)
<1> DEFINE R == Range(t.streams[k])
           keep == {i \in DOMAIN ids : \E s \in R : s.id = ids[i]}
           known == Picked(ids, keep)
           rows == streams_by_ids_ordered(t, k, ids)
           K == Cardinality(keep)
           u == Upwards(keep)
           Back == {s \in R : s.id \in Range(ids)}
<1>1. rows = [i \in DOMAIN known |-> CHOOSE s \in R : s.id = known[i]]
  BY DEF streams_by_ids_ordered
<1>2. IdsListed(t, k, ids) <=>
        /\ Range(rows) = Back
        /\ \A a, b \in DOMAIN rows : a < b =>
             \E i, j \in DOMAIN ids : i < j /\ ids[i] = rows[a].id /\ ids[j] = rows[b].id
  BY DEF IdsListed
<1> HIDE DEF R
<1>3. DOMAIN ids = 1..Len(ids) /\ Len(ids) \in Nat
  OBVIOUS
<1>4. keep \in SUBSET (1..Len(ids)) /\ \A i \in keep : \E s \in R : s.id = ids[i]
  BY <1>3
<1>5. \A i \in DOMAIN ids : (\E s \in R : s.id = ids[i]) => i \in keep
  OBVIOUS
<1> HIDE DEF keep, rows
<1>6. /\ known \in Seq(T) /\ Len(known) = K /\ K \in Nat
      /\ u \in [1..K -> keep]
      /\ \A n \in 1..K : known[n] = ids[u[n]]
      /\ \A i \in keep : \E n \in 1..K : u[n] = i
      /\ \A m, n \in 1..K : m < n <=> u[m] < u[n]
  BY <1>4, PickedIs
<1> HIDE DEF known, K, u
<1>7. DOMAIN known = 1..K
  BY <1>6
<1>8. ASSUME NEW n \in 1..K
      PROVE  rows[n] \in R /\ rows[n].id = ids[u[n]] /\ u[n] \in DOMAIN ids
  <2> HIDE DEF Back
  <2>0. u[n] \in keep /\ known[n] = ids[u[n]]
    BY <1>6
  <2>1. \E s \in R : s.id = known[n]
    BY <1>4, <2>0, Zenon
  <2>2. rows[n] = CHOOSE s \in R : s.id = known[n]
    BY <1>1, <1>7
  <2>3. rows[n] \in R /\ rows[n].id = known[n]
    BY <2>1, <2>2
  <2> QED
    BY <1>3, <1>4, <2>0, <2>3
<1>9. DOMAIN rows = 1..K
  BY <1>1, <1>7
<1>10. \A s, r \in R : s.id = r.id => s = r
  BY DEF RowsApart, R
<1>11. Range(rows) = Back
  <2>1. \A n \in 1..K : rows[n] \in Back
    BY <1>8 DEF Range
  <2>2. ASSUME NEW s \in Back
        PROVE  \E n \in 1..K : rows[n] = s
    <3>1. PICK i \in DOMAIN ids : ids[i] = s.id
      BY DEF Range
    <3>2. i \in keep
      BY <1>5, <3>1
    <3>3. PICK n \in 1..K : u[n] = i
      BY <1>6, <3>2
    <3> QED
      BY <1>8, <1>10, <3>1, <3>3
  <2> HIDE DEF Back
  <2> QED
    BY <1>9, <2>1, <2>2 DEF Range
<1>12. \A a, b \in DOMAIN rows : a < b =>
         \E i, j \in DOMAIN ids : i < j /\ ids[i] = rows[a].id /\ ids[j] = rows[b].id
  <2> HIDE DEF Back
  <2> SUFFICES ASSUME NEW a \in 1..K, NEW b \in 1..K, a < b
               PROVE  \E i, j \in DOMAIN ids : i < j /\ ids[i] = rows[a].id /\ ids[j] = rows[b].id
    BY <1>9
  <2>1. u[a] < u[b]
    BY <1>6
  <2> QED
    BY <1>8, <2>1
<1> QED
  BY <1>2, <1>11, <1>12

(* For any identities, shelves, catalogs, page sizes, packs and kills: the    *)
(* pages a reader asks for, one after the other while has_more is set, hold   *)
(* every stream of the shelf that matches once, in the order asked for, and a *)
(* list of ids is answered with its rows (page and query_page of              *)
(* catalog_db.rs).  It follows from CatalogInv: what a file holds of a shelf  *)
(* came from one catalog, whose rows have a place and an id of their own.     *)
THEOREM PagesKept == CatalogSpec => []PagesCover
<1>1. CatalogInv => PagesCover
  <2> SUFFICES ASSUME CatalogInv, NEW p \in Packs, At(p, "rows"), conn # "none"
               PROVE  /\ \A req \in Requests, size \in PageSizes : PagesCovered(db[conn], pack[p].shelf, req, size)
                      /\ \A ids \in IdLists : IdsListed(db[conn], pack[p].shelf, ids)
    BY DEF PagesCover
  <2> DEFINE t == db[conn]
             k == pack[p].shelf
             R == Range(t.streams[k])
  <2>1. t \in WholeTables /\ k \in Shelves
    BY DEF CatalogInv, At
  <2> HIDE DEF t, k
  <2>2. t.streams[k] \in CatalogStreams
    BY <2>1 DEF WholeTables, DbTables
  <2>3. RowsApart(R) /\ Len(t.streams[k]) \in Nat /\ Cardinality(R) <= Len(t.streams[k])
    <3>1. CASE t.streams[k] = <<>>
      <4>1. <<>> \in Seq(Nat) /\ Range(<<>>) = {} /\ Len(<<>>) = 0
        BY DEF Range
      <4>2. IsFiniteSet({}) /\ Cardinality({}) = 0
        BY FS_EmptySet
      <4>3. RowsApart({})
        BY <4>2 DEF RowsApart
      <4>4. R = {} /\ Len(t.streams[k]) = 0
        BY <3>1, <4>1
      <4> HIDE DEF R
      <4> QED
        BY <4>2, <4>3, <4>4
    <3>2. CASE t.streams[k] # <<>>
      <4>1. PICK c \in CatalogAnswers : t.streams[k] = StreamRows(c.streams)
        BY <2>2, <3>2 DEF CatalogStreams
      <4>2. StreamRows(c.streams) \in Seq([id : STRING, category_id : STRING, name : STRING, sort_order : Nat])
            /\ RowsApart(Range(StreamRows(c.streams)))
        BY StoredApart
      <4>3. Cardinality(R) <= Len(t.streams[k]) /\ Len(t.streams[k]) \in Nat
        BY <4>1, <4>2, RangeFinite
      <4> QED
        BY <4>1, <4>2, <4>3
    <3> QED
      BY <3>1, <3>2
  <2> HIDE DEF R
  <2>4. ASSUME NEW req \in Requests, NEW size \in PageSizes
        PROVE  PagesCovered(t, k, req, size)
    <3>1. Matching(t, k, req) \in SUBSET R
      BY DEF Matching, R
    <3>2. IsFiniteSet(Matching(t, k, req)) /\ Cardinality(Matching(t, k, req)) <= Cardinality(R)
      BY <2>3, <3>1, FS_Subset DEF RowsApart
    <3>3. Cardinality(Matching(t, k, req)) \in Nat /\ Cardinality(R) \in Nat
      BY <2>3, <3>2, FS_CardinalityType DEF RowsApart
    <3>4. RowsApart(Matching(t, k, req)) /\ Cardinality(Matching(t, k, req)) <= Len(t.streams[k])
      BY <2>3, <3>1, <3>2, <3>3 DEF RowsApart
    <3>5. size \in Nat \ {0}
      BY PagesHoldRows
    <3> QED
      BY <2>3, <3>4, <3>5, CoveredIs
  <2>5. ASSUME NEW ids \in IdLists
        PROVE  IdsListed(t, k, ids)
    <3> DEFINE T == {"s0", "s1", "s2", "s3"}
    <3>1. ids \in Seq(T)
      <4>1. ASSUME NEW a \in T, NEW b \in T, NEW c \in T
            PROVE  <<a, b, c>> \in Seq(T) /\ <<a, b>> \in Seq(T)
        <5> HIDE DEF T
        <5> QED
          OBVIOUS
      <4>2. "s0" \in T /\ "s1" \in T /\ "s2" \in T /\ "s3" \in T
        OBVIOUS
      <4> HIDE DEF T
      <4>3. /\ <<"s1", "s2", "s3">> \in Seq(T) /\ <<"s3", "s0", "s1">> \in Seq(T)
            /\ <<"s2", "s2">> \in Seq(T)
        BY <4>1, <4>2, Zenon
      <4> QED
        BY <4>3, Zenon DEF IdLists
    <3> HIDE DEF T
    <3> QED
      BY <2>3, <3>1, ListedIs DEF R
  <2> QED
    BY <2>4, <2>5 DEF t, k
<1> QED
  BY InitCatalogInv, NextCatalogInv, <1>1, PTL DEF CatalogSpec

-----------------------------------------------------------------------------
(* RedditScrape.  For any posts, page sizes, limits and outages, and however  *)
(* often the token expires, the scrape of CATALOG_SUBS reads every post of a  *)
(* subreddit once and keeps its portals, up to the subreddits it lost a part  *)
(* of.  The inductive invariant ties the cursor to what was read: all places  *)
(* before it, and none after it.                                              *)

PostsOf(sub) == Subs[sub + 1]

\* What a page tells of the subreddit it reads after a token.
PageOf(page, sub, after) ==
  /\ page.read \in Nat
  /\ page.cut \/ \A i \in 1..page.read : PostsOf(sub)[after + i].l1 \subseteq page.portals
  /\ \/ /\ page.next = NextSub(sub)
        /\ page.cut \/ \A i \in DOMAIN PostsOf(sub) : i <= after + page.read
     \/ \E k \in Nat : /\ page.next = SubCursor(sub, after + k) /\ page.read <= k
                       /\ page.cut \/ page.read = k

SubNumbers == 0..(Len(Subs) - 1)

(* The next place of the walk: the subreddit, Len(Subs) once the walk ended   *)
(* by itself, and the token.                                                 *)
AtSub == IF stage # "walk" /\ cursor = NoCursor THEN Len(Subs) ELSE SubIdx(parse_reddit_catalog_cursor(cursor))
AtToken == parse_reddit_catalog_cursor(cursor).after

(* What the walk has passed is read once, and its portals are gathered,       *)
(* unless its subreddit is lost.                                             *)
Gathered(walk, gone, portals, sub, token) ==
  /\ walk \in Seq(Nat \X Nat) /\ IsInjective(walk)
  /\ \A w \in Range(walk) : w[1] < sub \/ (w[1] = sub /\ w[2] <= token)
  /\ \A w \in Range(walk) : w[1] \notin gone => PostsOf(w[1])[w[2]].l1 \subseteq portals
  /\ \A s \in SubNumbers \ gone : \A i \in DOMAIN PostsOf(s) :
       s < sub \/ (s = sub /\ i <= token) => <<s, i>> \in Range(walk)

Cursors == [form : {"none", "sub", "legacy", "bare"}, sub : Nat, token : Nat]

ScrapeInv ==
  /\ cursor \in Cursors /\ (cursor.form = "none" => cursor = NoCursor)
  /\ Gathered(walked, lost, scraped.portals, AtSub, AtToken)

\* The subreddits, and the posts of each of them.
LEMMA SubsAre ==
  /\ Len(Subs) \in Nat /\ 0 < Len(Subs)
  /\ \A sub \in SubNumbers : /\ PostsOf(sub) \in Seq(Range(PostsOf(sub))) /\ Len(PostsOf(sub)) \in Nat
                             /\ DOMAIN PostsOf(sub) = 1..Len(PostsOf(sub))
<1>1. Len(Subs) \in Nat /\ 0 < Len(Subs) /\ DOMAIN Subs = 1..Len(Subs)
  BY RedditConstants
<1>2. ASSUME NEW sub \in SubNumbers PROVE PostsOf(sub) \in Seq(Range(PostsOf(sub)))
  <2>1. sub + 1 \in DOMAIN Subs
    BY <1>1 DEF SubNumbers
  <2>2. PostsOf(sub) \in Range(Subs)
    BY <2>1 DEF Range, PostsOf
  <2> QED
    BY <2>2, RedditConstants
<1>3. \A sub \in SubNumbers : Len(PostsOf(sub)) \in Nat /\ DOMAIN PostsOf(sub) = 1..Len(PostsOf(sub))
  BY <1>2, LenProperties
<1> QED
  BY <1>1, <1>2, <1>3

\* A listing is the posts after the token, as many as there are up to the limit.
LEMMA ListingIs ==
  ASSUME NEW sub \in SubNumbers, NEW after \in Nat, NEW limit \in Nat \ {0}
  PROVE  LET posts == Listing(sub, after, limit)
         IN  /\ Len(posts) \in Nat /\ Len(posts) <= limit
             /\ posts = <<>> <=> Len(posts) = 0
             /\ \A i \in 1..Len(posts) : posts[i] = PostsOf(sub)[after + i]
             /\ Len(posts) < limit => Len(PostsOf(sub)) <= after + Len(posts)
<1> DEFINE P == PostsOf(sub)
           m == after + 1
           n == IF after + limit < Len(P) THEN after + limit ELSE Len(P)
           posts == Listing(sub, after, limit)
<1>1. P \in Seq(Range(P)) /\ Len(P) \in Nat
  BY SubsAre
<1>2. m \in Int /\ n \in Int /\ m >= 1 /\ n <= Len(P)
  BY <1>1
<1>3. posts = SubSeq(P, m, n)
  BY DEF Listing, PostsOf
<1> HIDE DEF posts
<1>4. CASE m <= n
  <2>1. SubSeq(P, m, n) \in Seq(Range(P)) /\ Len(SubSeq(P, m, n)) = n - m + 1
        /\ \A i \in 1..(n - m + 1) : SubSeq(P, m, n)[i] = P[m + i - 1]
    <3> HIDE DEF P, m, n
    <3> QED
      BY <1>1, <1>2, <1>4, SubSeqProperties
  <2>2. Len(posts) = n - m + 1 /\ \A i \in 1..(n - m + 1) : posts[i] = P[m + i - 1]
    BY Zenon, <1>3, <2>1
  <2>3. /\ n - m + 1 = n - after /\ \A i \in Nat : m + i - 1 = after + i
        /\ n - after \in Nat /\ 0 < n - after /\ n - after <= limit
        /\ n - after < limit => Len(P) <= after + (n - after)
    BY <1>1, <1>2, <1>4
  <2> HIDE DEF n, P, m
  <2>4. Len(posts) = n - after /\ \A i \in 1..(n - after) : posts[i] = P[after + i]
    <3>1. Len(posts) = n - after
      BY Zenon, <2>2, <2>3
    <3>2. ASSUME NEW i \in 1..(n - after) PROVE posts[i] = P[after + i]
      <4>1. i \in Nat /\ i \in 1..(n - m + 1)
        BY <2>3, <3>2
      <4>2. m + i - 1 = after + i
        BY Zenon, <2>3, <4>1
      <4> QED
        BY Zenon, <2>2, <4>1, <4>2
    <3> QED
      BY <3>1, <3>2
  <2>5. posts # <<>>
    BY <2>4, <2>3
  <2> QED
    BY <2>3, <2>4, <2>5 DEF posts, P
<1>5. CASE ~(m <= n)
  <2>1. posts = <<>>
    <3> HIDE DEF P, m, n
    <3> QED
      BY <1>1, <1>2, <1>3, <1>5, SubSeqEmpty
  <2>2. Len(P) <= after
    BY <1>1, <1>5
  <2> QED
    BY <1>1, <2>1, <2>2 DEF posts
<1> QED
  BY <1>4, <1>5

\* A page that goes on, or goes to the next subreddit, after the n posts it read of a listing.
LEMMA PageNext ==
  ASSUME NEW sub \in SubNumbers, NEW after \in Nat, NEW limit \in Nat \ {0}, NEW more \in BOOLEAN,
         NEW page, NEW n \in 0..Len(Listing(sub, after, limit)), page.read = n,
         page.cut \/ n = Len(Listing(sub, after, limit)),
         page.cut \/ \A i \in 1..n : Listing(sub, after, limit)[i].l1 \subseteq page.portals,
         page.next = next_after(sub, more, after + Len(Listing(sub, after, limit))),
         more \/ Len(PostsOf(sub)) <= after + Len(Listing(sub, after, limit))
  PROVE  PageOf(page, sub, after)
<1> DEFINE posts == Listing(sub, after, limit)
<1>1. Len(posts) \in Nat /\ \A i \in 1..Len(posts) : posts[i] = PostsOf(sub)[after + i]
  BY ListingIs
<1>2. DOMAIN PostsOf(sub) = 1..Len(PostsOf(sub)) /\ Len(PostsOf(sub)) \in Nat
  BY SubsAre
<1> HIDE DEF posts
<1>3. page.read \in Nat /\ page.read <= Len(posts)
  BY <1>1 DEF posts
<1>4. page.cut \/ \A i \in 1..page.read : PostsOf(sub)[after + i].l1 \subseteq page.portals
  BY <1>1 DEF posts
<1>5. CASE more
  BY <1>1, <1>3, <1>4, <1>5 DEF PageOf, next_after, posts
<1>6. CASE ~more
  <2>1. page.next = NextSub(sub)
    BY <1>6 DEF next_after
  <2>2. page.cut \/ \A i \in DOMAIN PostsOf(sub) : i <= after + page.read
    BY <1>1, <1>2, <1>6 DEF posts
  <2> QED
    BY <1>3, <1>4, <2>1, <2>2 DEF PageOf
<1> QED
  BY <1>5, <1>6

\* The portals of a post's own text are among those of the page.
LEMMA BodiesHold ==
  ASSUME NEW posts, NEW n \in Nat, NEW i \in 1..n
  PROVE  posts[i].l1 \subseteq Bodies(posts, n)
  BY DEF Bodies

\* A page reads as many posts as there are before the results are full.
LEMMA ReadIs ==
  ASSUME NEW posts, Len(posts) \in Nat
  PROVE  (\A missed : Read(posts, missed) \in 0..Len(posts)) /\ ReadBodies(posts) \in 0..Len(posts)
<1>1. ASSUME NEW S, S \in SUBSET (0..Len(posts)), 0 \in S PROVE Max(S) \in 0..Len(posts)
  BY <1>1, BoundedMax
<1>2. ASSUME NEW missed PROVE Read(posts, missed) \in 0..Len(posts)
  <2> DEFINE S == {n \in 0..Len(posts) :
                     n = 0 \/ Cardinality(Bodies(posts, n - 1) \union Deep(posts, n - 1, missed)) < MAX_RESULTS}
  <2>1. 0 \in S /\ S \in SUBSET (0..Len(posts)) /\ Read(posts, missed) = Max(S)
    BY DEF Read
  <2> HIDE DEF S
  <2> QED
    BY <1>1, <2>1
<1>3. ReadBodies(posts) \in 0..Len(posts)
  <2> DEFINE S == {n \in 0..Len(posts) : n = 0 \/ Cardinality(Bodies(posts, n - 1)) < MAX_RESULTS}
  <2>1. 0 \in S /\ S \in SUBSET (0..Len(posts)) /\ ReadBodies(posts) = Max(S)
    BY DEF ReadBodies
  <2> HIDE DEF S
  <2> QED
    BY <1>1, <2>1
<1> QED
  BY <1>2, <1>3

\* What was known stays, and a text that fits is added whole.
LEMMA Added ==
  ASSUME NEW known, NEW found, NEW portals \in add_extracted(known, found)
  PROVE  /\ known \subseteq portals
         /\ HasRoom(known \union found) => found \subseteq portals
<1>1. CASE HasRoom(known \union found)
  BY <1>1 DEF add_extracted
<1>2. CASE ~HasRoom(known \union found)
  BY <1>2 DEF add_extracted
<1> QED
  BY <1>1, <1>2

\* Of texts extracted one by one, the one that fits is kept whole.
LEMMA KeptWhole ==
  ASSUME NEW texts, NEW text \in texts, HasRoom(text), NEW kept \in Kept(texts)
  PROVE  text \subseteq kept
<1>1. PICK f \in {g \in [texts -> UNION {add_extracted({}, t) : t \in texts}] :
                   \A t \in texts : g[t] \in add_extracted({}, t)} : kept = UNION {f[t] : t \in texts}
  BY Zenon DEF Kept
<1>2. f[text] \in add_extracted({}, text)
  BY <1>1
<1>3. {} \union text = text
  OBVIOUS
<1>4. text \subseteq f[text]
  BY <1>2, <1>3, Added
<1> QED
  BY <1>1, <1>4

\* The four ways to a page: the ops client's OAuth listing, ...
LEMMA OpsPageIs ==
  ASSUME NEW sub \in SubNumbers, NEW after \in Nat, NEW page \in collect_oauth_ops_posts(sub, after)
  PROVE  PageOf(page, sub, after)
<1> DEFINE posts == Listing(sub, after, OauthLimit)
           more == after + Len(posts) < Len(PostsOf(sub))
<1>1. PICK missed : page \in OpsPage(sub, after, posts, Read(posts, missed), missed)
  BY Zenon DEF collect_oauth_ops_posts
<1> DEFINE n == Read(posts, missed)
<1>2. Len(posts) \in Nat /\ OauthLimit \in Nat \ {0}
  BY ListingIs, RedditConstants
<1>3. n \in 0..Len(posts)
  BY <1>2, ReadIs
<1>4. /\ page.portals \in FoundOn(posts, n, missed) /\ page.read = n
      /\ page.cut = (n < Len(posts) \/ (n > 0 /\ ~HasRoom(posts[n].l1)))
      /\ page.next = next_after(sub, more, after + Len(posts))
  <2> HIDE DEF posts, n
  <2>1. page \in OpsPage(sub, after, posts, n, missed)
    BY <1>1 DEF n
  <2> QED
    BY <2>1 DEF OpsPage, PostsOf
<1> HIDE DEF n
<1>5. page.cut \/ \A i \in 1..n : posts[i].l1 \subseteq page.portals
  <2> HIDE DEF posts
  <2>1. CASE n = 0
    BY <2>1
  <2>2. CASE n > 0 /\ ~HasRoom(posts[n].l1)
    BY Zenon, <1>4, <2>2
  <2>3. CASE n > 0 /\ HasRoom(posts[n].l1)
    <3> DEFINE all == {posts[n].l1} \union Texts(posts, n, missed)
    <3>1. PICK kept \in Kept(all) : page.portals = Bodies(posts, n - 1) \union Deep(posts, n - 1, missed) \union kept
      <4>1. n # 0
        BY <2>3
      <4>2. page.portals \in {Bodies(posts, n - 1) \union Deep(posts, n - 1, missed) \union kept : kept \in Kept(all)}
        BY Zenon, <1>4, <4>1 DEF FoundOn
      <4> HIDE DEF all, n
      <4> QED
        BY Zenon, <4>2
    <3>2. posts[n].l1 \in all
      OBVIOUS
    <3> HIDE DEF all
    <3>4. posts[n].l1 \subseteq kept
      BY <2>3, <3>2, KeptWhole
    <3>5. \A i \in 1..(n - 1) : posts[i].l1 \subseteq Bodies(posts, n - 1)
      BY DEF Bodies
    <3>6. \A i \in 1..n : i = n \/ i \in 1..(n - 1)
      BY <1>3, <1>2
    <3> QED
      BY Zenon, <3>1, <3>4, <3>5, <3>6
  <2> QED
    BY <1>2, <1>3, <2>1, <2>2, <2>3
<1>6. /\ more \in BOOLEAN
      /\ more \/ Len(PostsOf(sub)) <= after + Len(posts)
      /\ page.cut \/ n = Len(posts)
  <2>1. more \in BOOLEAN /\ (more \/ Len(PostsOf(sub)) <= after + Len(posts))
    BY <1>2, SubsAre
  <2>2. n < Len(posts) \/ n = Len(posts)
    BY <1>2, <1>3
  <2>4. page.cut \/ n = Len(posts)
    BY Zenon, <1>4, <2>2
  <2> QED
    BY <2>1, <2>4
<1> HIDE DEF more
<1> QED
  BY Zenon, <1>2, <1>3, <1>4, <1>5, <1>6, PageNext

\* The bodies of a page that was not full are all gathered.
LEMMA BodiesPageIs ==
  ASSUME NEW posts, Len(posts) \in Nat, NEW more, NEW sub, NEW after, NEW page \in BodiesPage(posts, more, sub, after)
  PROVE  /\ page.read \in 0..Len(posts) /\ page.next = next_after(sub, more, after + Len(posts))
         /\ page.cut \/ page.read = Len(posts)
         /\ page.cut \/ \A i \in 1..page.read : posts[i].l1 \subseteq page.portals
<1> DEFINE n == ReadBodies(posts)
           all == Bodies(posts, Len(posts))
<1>1. /\ page.portals \in add_extracted({}, Bodies(posts, n)) /\ page.read = n
      /\ page.cut = (n < Len(posts) \/ ~HasRoom(all))
      /\ page.next = next_after(sub, more, after + Len(posts))
  BY DEF BodiesPage
<1>2. n \in 0..Len(posts)
  BY ReadIs
<1> HIDE DEF n
<1>3. n < Len(posts) \/ n = Len(posts)
  BY <1>2
<1>4. page.cut \/ n = Len(posts)
  BY Zenon, <1>1, <1>3
<1>5. page.cut \/ \A i \in 1..n : posts[i].l1 \subseteq page.portals
  <2>1. CASE n = Len(posts) /\ HasRoom(all)
    <3>1. page.portals \in add_extracted({}, all) /\ {} \union all = all
      BY <1>1, <2>1
    <3>2. all \subseteq page.portals
      <4> HIDE DEF all
      <4> QED
        BY <2>1, <3>1, Added
    <3>3. \A i \in 1..n : posts[i].l1 \subseteq all
      BY <2>1 DEF Bodies
    <3> QED
      BY Zenon, <3>2, <3>3
  <2>2. CASE n < Len(posts)
    BY Zenon, <1>1, <2>2
  <2>3. CASE ~HasRoom(all)
    BY Zenon, <1>1, <2>3
  <2> QED
    BY <1>3, <2>1, <2>2, <2>3
<1> QED
  BY <1>1, <1>2, <1>4, <1>5

\* ... the scraper's OAuth listing, ...
LEMMA OauthPage ==
  ASSUME NEW sub \in SubNumbers, NEW after \in Nat, NEW page \in scrape_page(sub, after)
  PROVE  PageOf(page, sub, after)
<1> DEFINE posts == Listing(sub, after, OauthLimit)
           more == after + Len(posts) < Len(PostsOf(sub))
<1>2. Len(posts) \in Nat /\ OauthLimit \in Nat \ {0}
  BY ListingIs, RedditConstants
<1> DEFINE Deeper(own, missed) == {[own EXCEPT !.portals = portals, !.bad = Cardinality(missed)] :
                                     portals \in add_extracted(own.portals, Deep(posts, Len(posts), missed))}
           Full(own) == UNION {Deeper(own, missed) : missed \in SUBSET Links(posts)}
<1>0. page \in UNION {Full(own) : own \in BodiesPage(posts, more, sub, after)}
  BY Zenon DEF scrape_page, PostsOf
<1>1. PICK own \in BodiesPage(posts, more, sub, after) : page \in Full(own)
  <2> HIDE DEF Full
  <2> QED
    BY Zenon, <1>0
<1>9. PICK missed \in SUBSET Links(posts) : page \in Deeper(own, missed)
  <2> HIDE DEF Deeper, posts
  <2> QED
    BY Zenon, <1>1
<1> HIDE DEF posts
<1>3. PICK portals \in add_extracted(own.portals, Deep(posts, Len(posts), missed)) :
        page = [own EXCEPT !.portals = portals, !.bad = Cardinality(missed)]
  BY Zenon, <1>9
<1>4. page.read = own.read /\ page.next = own.next /\ page.cut = own.cut /\ own.portals \subseteq page.portals
  <2>1. own.portals \subseteq portals
    BY Zenon, <1>3, Added
  <2>2. /\ DOMAIN own = {"portals", "posts", "read", "cut", "next", "bad"}
        /\ own = [portals |-> own.portals, posts |-> own.posts, read |-> own.read, cut |-> own.cut, next |-> own.next,
                  bad |-> own.bad]
    BY DEF BodiesPage
  <2>3. page.portals = portals /\ page.read = own.read /\ page.next = own.next /\ page.cut = own.cut
    BY <1>3, <2>2
  <2> QED
    BY <2>1, <2>3
<1>5. /\ own.read \in 0..Len(posts) /\ own.next = next_after(sub, more, after + Len(posts))
      /\ own.cut \/ own.read = Len(posts)
      /\ own.cut \/ \A i \in 1..own.read : posts[i].l1 \subseteq own.portals
  <2> HIDE DEF more
  <2> QED
    BY <1>2, BodiesPageIs
<1>6. page.cut \/ \A i \in 1..page.read : posts[i].l1 \subseteq page.portals
  BY Zenon, <1>4, <1>5
<1>7. more \in BOOLEAN /\ (more \/ Len(PostsOf(sub)) <= after + Len(posts))
  BY <1>2, SubsAre
<1> HIDE DEF more
<1>8. PICK n \in 0..Len(posts) : page.read = n /\ (page.cut \/ n = Len(posts))
  BY Zenon, <1>4, <1>5
<1> QED
  BY Zenon, <1>2, <1>4, <1>5, <1>6, <1>7, <1>8, PageNext DEF posts

\* ... the RSS feed, ...
LEMMA RssPage ==
  ASSUME NEW sub \in SubNumbers, NEW after \in Nat, NEW page \in fetch_rss_listing_body(sub, after)
  PROVE  PageOf(page, sub, after)
<1> DEFINE posts == Listing(sub, after, RssLimit)
           more == Len(posts) >= RssMore
<1>1. page \in BodiesPage(posts, more, sub, after)
  BY DEF fetch_rss_listing_body
<1>2. /\ Len(posts) \in Nat /\ RssLimit \in Nat \ {0} /\ RssMore \in Nat
      /\ Len(posts) < RssLimit => Len(PostsOf(sub)) <= after + Len(posts)
  BY ListingIs, RedditConstants
<1>3. more \in BOOLEAN /\ (more \/ Len(PostsOf(sub)) <= after + Len(posts))
  BY <1>2, RedditConstants
<1> HIDE DEF posts, more
<1>4. /\ page.read \in 0..Len(posts) /\ page.next = next_after(sub, more, after + Len(posts))
      /\ page.cut \/ page.read = Len(posts)
      /\ page.cut \/ \A i \in 1..page.read : posts[i].l1 \subseteq page.portals
  BY <1>1, <1>2, BodiesPageIs
<1>5. PICK n \in 0..Len(posts) : page.read = n /\ (page.cut \/ n = Len(posts))
  BY Zenon, <1>4
<1> QED
  BY Zenon, <1>2, <1>3, <1>4, <1>5, PageNext DEF posts

\* ... or no answer.
LEMMA NothingPage ==
  ASSUME NEW sub \in SubNumbers, NEW after \in Nat
  PROVE  PageOf(NoPage(sub, after), sub, after)
<1>1. DOMAIN PostsOf(sub) = 1..Len(PostsOf(sub)) /\ Len(PostsOf(sub)) \in Nat
  BY SubsAre
<1> DEFINE page == NoPage(sub, after)
<1>2. page.read = 0 /\ page.next = NextSub(sub) /\ page.cut = (after < Len(PostsOf(sub)))
  BY DEF NoPage, PostsOf
<1>3. (after < Len(PostsOf(sub))) \/ \A i \in DOMAIN PostsOf(sub) : i <= after + page.read
  BY <1>1, <1>2
<1>4. page.cut \/ \A i \in DOMAIN PostsOf(sub) : i <= after + page.read
  BY Zenon, <1>2, <1>3
<1> HIDE DEF page
<1> QED
  BY <1>2, <1>4 DEF PageOf, page

\* Whichever way a page comes.
LEMMA EveryPage ==
  ASSUME NEW o, NEW sub \in SubNumbers, NEW after \in Nat, NEW r \in scrape_page_ops(o, sub, after)
  PROVE  PageOf(r.page, sub, after)
<1>1. \/ r.page \in collect_oauth_ops_posts(sub, after)
      \/ r.page \in scrape_page(sub, after)
      \/ r.page \in fetch_rss_listing_body(sub, after)
      \/ r.page = NoPage(sub, after)
  <2> DEFINE Second(b) == IF b.ok THEN scrape_page(sub, after)
                          ELSE fetch_rss_listing_body(sub, after) \union {NoPage(sub, after)}
  <2>1. PICK a \in fetch_oauth_listing_body(o) :
          r \in IF a.ok
               THEN {[o |-> a.o, bad |-> a.bad + p.bad, page |-> p] : p \in collect_oauth_ops_posts(sub, after)}
               ELSE UNION {{[o |-> b.o, bad |-> a.bad + b.bad + p.bad, page |-> p] : p \in Second(b)} :
                           b \in fetch_oauth_listing_body(a.o)}
    BY Zenon DEF scrape_page_ops
  <2>2. CASE r \in {[o |-> a.o, bad |-> a.bad + p.bad, page |-> p] : p \in collect_oauth_ops_posts(sub, after)}
    BY <2>2
  <2>3. CASE r \in UNION {{[o |-> b.o, bad |-> a.bad + b.bad + p.bad, page |-> p] : p \in Second(b)} :
                         b \in fetch_oauth_listing_body(a.o)}
    <3>1. PICK b : r.page \in Second(b)
      <4> HIDE DEF Second
      <4> QED
        BY <2>3
    <3> QED
      BY <3>1
  <2> QED
    BY <2>1, <2>2, <2>3
<1> QED
  BY <1>1, OpsPageIs, OauthPage, RssPage, NothingPage

\* A cursor names a subreddit of the list.
LEMMA PlaceIs ==
  ASSUME cursor \in Cursors
  PROVE  LET c == parse_reddit_catalog_cursor(cursor)
         IN  /\ SubIdx(c) \in SubNumbers /\ c.after \in Nat /\ AtToken = c.after
             /\ AtSub \in Nat /\ (stage = "walk" => AtSub = SubIdx(c))
<1> DEFINE c == parse_reddit_catalog_cursor(cursor)
<1>1. cursor.form \in {"none", "sub", "legacy", "bare"} /\ cursor.sub \in Nat /\ cursor.token \in Nat
  BY DEF Cursors
<1>2. c.sub_idx \in Nat /\ c.after \in Nat
  BY <1>1 DEF parse_reddit_catalog_cursor
<1> QED
  BY <1>2, SubsAre DEF AtSub, AtToken, SubIdx, SubNumbers

\* A walk starts at the first subreddit, or loses the one it resumes in.
LEMMA InitScrapeInv == RedditInit => ScrapeInv
<1> SUFFICES ASSUME RedditInit PROVE ScrapeInv
  OBVIOUS
<1>1. cursor \in Cursors /\ (cursor.form = "none" => cursor = NoCursor)
  BY DEF RedditInit, Cursors, NoCursor
<1>2. walked \in Seq(Nat \X Nat) /\ Range(walked) = {} /\ IsInjective(walked)
  BY DEF RedditInit, Range, IsInjective
<1>3. cursor = NoCursor => AtSub = 0 /\ AtToken = 0
  BY SubsAre DEF RedditInit, AtSub, AtToken, SubIdx, parse_reddit_catalog_cursor, NoCursor
<1>4. cursor # NoCursor => AtSub = 0 /\ lost = {0}
  BY SubsAre DEF RedditInit, AtSub, SubIdx, parse_reddit_catalog_cursor, NoCursor
<1>5. \A s \in SubNumbers \ lost : \A i \in DOMAIN PostsOf(s) :
        ~(s < AtSub \/ (s = AtSub /\ i <= AtToken))
  BY <1>3, <1>4, SubsAre DEF SubNumbers
<1> QED
  BY <1>1, <1>2, <1>5 DEF ScrapeInv, Gathered

\* Two sequences joined: what they hold, and that nothing is there twice.
LEMMA Joined ==
  ASSUME NEW S, NEW a \in Seq(S), NEW b \in Seq(S)
  PROVE  /\ a \o b \in Seq(S) /\ Range(a \o b) = Range(a) \union Range(b)
         /\ IsInjective(a) /\ IsInjective(b) /\ Range(a) \intersect Range(b) = {} => IsInjective(a \o b)
<1> DEFINE c == a \o b
           m == Len(a)
           n == Len(b)
<1>1. /\ c \in Seq(S) /\ Len(c) = m + n
      /\ \A i \in 1..(m + n) : c[i] = IF i <= m THEN a[i] ELSE b[i - m]
  BY ConcatProperties
<1>2. m \in Nat /\ n \in Nat /\ DOMAIN a = 1..m /\ DOMAIN b = 1..n
  BY LenProperties
<1>3. DOMAIN c = 1..(m + n)
  BY <1>1, LenProperties
<1> HIDE DEF c, m, n
<1>4. /\ \A i \in 1..m : i \in DOMAIN c /\ c[i] = a[i]
      /\ \A i \in 1..n : m + i \in DOMAIN c /\ c[m + i] = b[i]
  <2>1. \A i \in 1..m : i \in 1..(m + n) /\ i <= m
    BY <1>2
  <2>2. \A i \in 1..n : m + i \in 1..(m + n) /\ ~(m + i <= m) /\ (m + i) - m = i
    BY <1>2
  <2> QED
    BY <1>1, <1>3, <2>1, <2>2
<1>5. \A k \in DOMAIN c : k \in 1..m \/ (k - m \in 1..n /\ k = m + (k - m))
  BY <1>2, <1>3
<1>6. Range(c) = Range(a) \union Range(b)
  <2>1. ASSUME NEW k \in DOMAIN c PROVE c[k] \in Range(a) \union Range(b)
    BY <1>2, <1>4, <1>5, <2>1 DEF Range
  <2>2. \A i \in 1..m : a[i] \in Range(c)
    BY <1>4 DEF Range
  <2>3. \A i \in 1..n : b[i] \in Range(c)
    BY <1>4 DEF Range
  <2> QED
    BY <1>2, <2>1, <2>2, <2>3 DEF Range
<1>7. ASSUME IsInjective(a), IsInjective(b), Range(a) \intersect Range(b) = {},
             NEW x \in DOMAIN c, NEW y \in DOMAIN c, c[x] = c[y]
      PROVE  x = y
  <2>1. \A i \in 1..m, k \in 1..n : a[i] # b[k]
    BY <1>2, <1>7 DEF Range
  <2>2. (\A i, k \in 1..m : a[i] = a[k] => i = k) /\ (\A i, k \in 1..n : b[i] = b[k] => i = k)
    BY <1>2, <1>7 DEF IsInjective
  <2>3. CASE x \in 1..m /\ y \in 1..m
    BY <1>4, <1>7, <2>2, <2>3
  <2>4. CASE x \in 1..m /\ y \notin 1..m
    <3>1. y - m \in 1..n /\ c[y] = b[y - m]
      BY <1>4, <1>5, <2>4
    <3> QED
      BY <1>4, <1>7, <2>1, <2>4, <3>1
  <2>5. CASE x \notin 1..m /\ y \in 1..m
    <3>1. x - m \in 1..n /\ c[x] = b[x - m]
      BY <1>4, <1>5, <2>5
    <3> QED
      BY <1>4, <1>7, <2>1, <2>5, <3>1
  <2>6. CASE x \notin 1..m /\ y \notin 1..m
    <3>1. /\ x - m \in 1..n /\ c[x] = b[x - m] /\ x = m + (x - m)
          /\ y - m \in 1..n /\ c[y] = b[y - m] /\ y = m + (y - m)
      BY <1>4, <1>5, <2>6
    <3>2. x - m = y - m
      BY <1>7, <2>2, <3>1
    <3> QED
      BY <3>1, <3>2
  <2> QED
    BY <2>3, <2>4, <2>5, <2>6
<1>8. IsInjective(a) /\ IsInjective(b) /\ Range(a) \intersect Range(b) = {} => IsInjective(c)
  BY <1>7 DEF IsInjective
<1> QED
  BY <1>1, <1>6, <1>8 DEF c

\* The places a page reads.
LEMMA PlacesRead ==
  ASSUME NEW sub \in Nat, NEW after \in Nat, NEW n \in Nat
  PROVE  LET new == [i \in 1..n |-> <<sub, after + i>>]
         IN  /\ new \in Seq(Nat \X Nat) /\ IsInjective(new)
             /\ Range(new) = {<<sub, after + i>> : i \in 1..n}
<1> DEFINE new == [i \in 1..n |-> <<sub, after + i>>]
<1>1. \A i \in 1..n : after + i \in Nat /\ <<sub, after + i>> \in Nat \X Nat
  OBVIOUS
<1>2. new \in [1..n -> Nat \X Nat]
  BY <1>1
<1>3. new \in Seq(Nat \X Nat)
  BY <1>2, SeqDef
<1>4. \A i, j \in 1..n : <<sub, after + i>> = <<sub, after + j>> => i = j
  OBVIOUS
<1>5. IsInjective(new)
  BY <1>4 DEF IsInjective
<1>6. Range(new) = {<<sub, after + i>> : i \in 1..n}
  BY DEF Range
<1> QED
  BY <1>3, <1>5, <1>6

\* Where the walk goes on after a page, and what it has read and lost with the page.
Moves(page, sub, after, sub2, token) ==
  \/ sub2 = sub + 1 /\ token = 0 /\ (page.cut \/ \A i \in DOMAIN PostsOf(sub) : i <= after + page.read)
  \/ sub2 = sub /\ after + page.read <= token /\ (page.cut \/ token = after + page.read)

WithPage(walk, page, sub, after) == walk \o [i \in 1..page.read |-> <<sub, after + i>>]
WithCut(gone, page, sub) == IF page.cut THEN gone \union {sub} ELSE gone

\* A page's posts come after all that were read, and the page keeps what is passed gathered.
LEMMA PageGathers ==
  ASSUME NEW walk, NEW gone, NEW portals, NEW sub \in SubNumbers, NEW after \in Nat,
         Gathered(walk, gone, portals, sub, after), NEW page, PageOf(page, sub, after),
         NEW sub2 \in Nat, NEW token \in Nat,
         Moves(page, sub, after, sub2, token)
  PROVE  Gathered(WithPage(walk, page, sub, after), WithCut(gone, page, sub), portals \union page.portals, sub2, token)
<1> DEFINE n == page.read
           new == [i \in 1..n |-> <<sub, after + i>>]
           all == walk \o new
           out == IF page.cut THEN gone \union {sub} ELSE gone
<1>1. n \in Nat /\ sub \in Nat
  BY DEF PageOf, SubNumbers
<1> HIDE DEF n
<1>2. new \in Seq(Nat \X Nat) /\ IsInjective(new) /\ Range(new) = {<<sub, after + i>> : i \in 1..n}
  BY <1>1, PlacesRead
<1> HIDE DEF new
<1>3. walk \in Seq(Nat \X Nat) /\ IsInjective(walk)
  BY DEF Gathered
<1>4. \A w \in Range(walk) : w[1] \in Nat /\ w[2] \in Nat /\ (w[1] < sub \/ (w[1] = sub /\ w[2] <= after))
  <2>1. \A i \in DOMAIN walk : walk[i] \in Nat \X Nat
    BY <1>3
  <2> QED
    BY <2>1 DEF Gathered, Range
<1>5. Range(walk) \intersect Range(new) = {}
  <2>1. ASSUME NEW i \in 1..n, <<sub, after + i>> \in Range(walk) PROVE FALSE
    <3>1. sub < sub \/ after + i <= after
      BY <1>4, <2>1
    <3> QED
      BY <1>1, <3>1
  <2> QED
    BY <1>2, <2>1
<1>6. all \in Seq(Nat \X Nat) /\ Range(all) = Range(walk) \union {<<sub, after + i>> : i \in 1..n}
  BY <1>2, <1>3, Joined
<1>7. IsInjective(all)
  BY <1>2, <1>3, <1>5, Joined
<1> HIDE DEF all
<1>8. \A w \in Range(all) : w[1] < sub2 \/ (w[1] = sub2 /\ w[2] <= token)
  <2>0. (sub2 = sub + 1 /\ token = 0) \/ (sub2 = sub /\ after + n <= token)
    BY Zenon DEF n, Moves
  <2>1. ASSUME NEW w \in Range(walk) PROVE w[1] < sub2 \/ (w[1] = sub2 /\ w[2] <= token)
    BY <1>1, <1>4, <2>0
  <2>2. ASSUME NEW i \in 1..n PROVE sub < sub2 \/ (sub = sub2 /\ after + i <= token)
    BY <1>1, <2>0
  <2> QED
    BY <1>6, <2>1, <2>2
<1>9. \A w \in Range(all) : w[1] \notin out => PostsOf(w[1])[w[2]].l1 \subseteq (portals \union page.portals)
  <2>1. ASSUME NEW w \in Range(walk), w[1] \notin out PROVE PostsOf(w[1])[w[2]].l1 \subseteq portals
    BY <2>1 DEF Gathered
  <2>2. ASSUME NEW i \in 1..n, sub \notin out PROVE PostsOf(sub)[after + i].l1 \subseteq page.portals
    BY <2>2 DEF PageOf, n
  <2> QED
    BY <1>6, <2>1, <2>2
<1>10. ASSUME NEW s \in SubNumbers \ out, NEW i \in DOMAIN PostsOf(s), s < sub2 \/ (s = sub2 /\ i <= token)
       PROVE  <<s, i>> \in Range(all)
  <2>1. s \in Nat /\ i \in Nat /\ i >= 1
    BY SubsAre DEF SubNumbers
  <2>2. CASE s < sub \/ (s = sub /\ i <= after)
    BY <1>6, <1>10, <2>2 DEF Gathered
  <2>3. CASE ~(s < sub \/ (s = sub /\ i <= after))
    <3>1. s = sub /\ ~page.cut /\ i > after /\ i <= after + n
      <4>1. (sub2 = sub + 1 /\ token = 0 /\ (page.cut \/ \A j \in DOMAIN PostsOf(sub) : j <= after + n))
            \/ (sub2 = sub /\ after + n <= token /\ (page.cut \/ token = after + n))
        BY Zenon DEF n, Moves
      <4>2. s = sub
        BY <1>1, <1>10, <2>1, <2>3, <4>1
      <4>3. ~page.cut
        BY Zenon, <1>10, <4>2
      <4>4. i <= after + n
        BY <1>1, <1>10, <2>1, <2>3, <4>1, <4>2, <4>3
      <4> QED
        BY <1>1, <2>1, <2>3, <4>2, <4>3, <4>4
    <3>2. i - after \in 1..n /\ i = after + (i - after)
      BY <1>1, <2>1, <3>1
    <3> QED
      BY <1>6, <3>1, <3>2
  <2> QED
    BY <2>2, <2>3
<1> HIDE DEF out
<1>11. Gathered(all, out, portals \union page.portals, sub2, token)
  BY <1>6, <1>7, <1>8, <1>9, <1>10 DEF Gathered
<1> QED
  BY <1>11 DEF all, new, out, n, WithPage, WithCut

\* A step of the walk.
LEMMA WalkGathers ==
  ASSUME ScrapeInv, Walk
  PROVE  ScrapeInv'
<1> DEFINE c == parse_reddit_catalog_cursor(cursor)
           sub == SubIdx(c)
<1>1. sub \in SubNumbers /\ c.after \in Nat /\ AtToken = c.after /\ AtSub = sub
  BY PlaceIs DEF ScrapeInv, Walk
<1>2. PICK r \in scrape_page_ops(oauth, sub, c.after) :
        /\ cursor' = r.page.next /\ scraped'.portals = scraped.portals \union r.page.portals
        /\ walked' = walked \o [i \in 1..r.page.read |-> <<sub, c.after + i>>]
        /\ lost' = IF r.page.cut THEN lost \union {sub} ELSE lost
  <2>1. PICK r \in scrape_page_ops(oauth, sub, c.after) :
          /\ cursor' = r.page.next
          /\ scraped' = [pages |-> scraped.pages + 1, portals |-> scraped.portals \union r.page.portals,
                         posts |-> scraped.posts \union r.page.posts]
          /\ walked' = walked \o [i \in 1..r.page.read |-> <<sub, c.after + i>>]
          /\ lost' = IF r.page.cut THEN lost \union {sub} ELSE lost
    BY Zenon DEF Walk
  <2>2. scraped'.portals = scraped.portals \union r.page.portals
    BY <2>1
  <2> QED
    BY Zenon, <2>1, <2>2
<1>3. stage' = IF cursor' = NoCursor \/ scraped'.pages = MaxPages THEN "insert" ELSE "walk"
  BY DEF Walk
<1>4. PICK after, page : after \in Nat /\ after = c.after /\ page = r.page
  BY <1>1
<1> HIDE DEF c, sub
<1>9. /\ cursor' = page.next /\ scraped'.portals = scraped.portals \union page.portals
      /\ walked' = walked \o [i \in 1..page.read |-> <<sub, after + i>>]
      /\ lost' = IF page.cut THEN lost \union {sub} ELSE lost
  BY Zenon, <1>2, <1>4
<1>5. PageOf(page, sub, after)
  BY <1>1, <1>4, EveryPage
<1>6. Gathered(walked, lost, scraped.portals, sub, after)
  BY <1>1, <1>4 DEF ScrapeInv
<1>7. CASE /\ page.next = NextSub(sub)
           /\ page.cut \/ \A i \in DOMAIN PostsOf(sub) : i <= after + page.read
  <2>1. sub \in Nat /\ sub + 1 \in Nat /\ sub < Len(Subs) /\ Len(Subs) \in Nat
    BY <1>1, SubsAre DEF SubNumbers
  <2>2. AtSub' = sub + 1 /\ AtToken' = 0
    BY <1>2, <1>3, <1>4, <1>7, <2>1
       DEF NextSub, AtSub, AtToken, SubIdx, parse_reddit_catalog_cursor, SubCursor, NoCursor
  <2>3. cursor' \in Cursors /\ (cursor'.form = "none" => cursor' = NoCursor)
    BY <1>2, <1>4, <1>7, <2>1 DEF NextSub, SubCursor, NoCursor, Cursors
  <2>4. Gathered(walked', lost', scraped'.portals, sub + 1, 0)
    <3>1. 0 \in Nat
      OBVIOUS
    <3>3. Moves(page, sub, after, sub + 1, 0)
      BY Zenon, <1>7 DEF Moves
    <3>2. Gathered(WithPage(walked, page, sub, after), WithCut(lost, page, sub), scraped.portals \union page.portals, sub + 1, 0)
      BY Zenon, <1>1, <1>4, <1>5, <1>6, <2>1, <3>1, <3>3, PageGathers
    <3> QED
      BY Zenon, <1>9, <3>2 DEF WithPage, WithCut
  <2> QED
    BY <2>2, <2>3, <2>4 DEF ScrapeInv
<1>8. ASSUME NEW k \in Nat, page.next = SubCursor(sub, after + k), page.read <= k, page.cut \/ page.read = k
      PROVE  ScrapeInv'
  <2>0. page.read \in Nat
    BY Zenon, <1>5 DEF PageOf
  <2>1. sub \in Nat /\ after + k \in Nat /\ sub < Len(Subs) /\ Len(Subs) \in Nat
    BY <1>1, <1>4, <1>8, SubsAre DEF SubNumbers
  <2>2. AtSub' = sub /\ AtToken' = after + k
    BY <1>2, <1>3, <1>4, <1>8, <2>1
       DEF AtSub, AtToken, SubIdx, parse_reddit_catalog_cursor, SubCursor, NoCursor
  <2>3. cursor' \in Cursors /\ cursor'.form = "sub"
    BY <1>2, <1>4, <1>8, <2>1 DEF SubCursor, Cursors
  <2>4. after + page.read <= after + k /\ (page.cut \/ after + k = after + page.read)
    <3>1. after + page.read <= after + k
      BY <1>4, <1>8, <2>0
    <3>2. page.cut \/ after + k = after + page.read
      BY Zenon, <1>8
    <3> QED
      BY <3>1, <3>2
  <2>6. Moves(page, sub, after, sub, after + k)
    BY Zenon, <2>4 DEF Moves
  <2>5. Gathered(walked', lost', scraped'.portals, sub, after + k)
    <3>1. Gathered(WithPage(walked, page, sub, after), WithCut(lost, page, sub), scraped.portals \union page.portals,
                  sub, after + k)
      BY Zenon, <1>1, <1>4, <1>5, <1>6, <2>1, <2>6, PageGathers
    <3> QED
      BY Zenon, <1>9, <3>1 DEF WithPage, WithCut
  <2> QED
    BY <2>2, <2>3, <2>5 DEF ScrapeInv
<1> QED
  BY <1>5, <1>7, <1>8 DEF PageOf

\* Every step keeps the invariant.
LEMMA NextScrapeInv == ScrapeInv /\ [RedditNext]_redditVars => ScrapeInv'
<1> SUFFICES ASSUME ScrapeInv, [RedditNext]_redditVars PROVE ScrapeInv'
  OBVIOUS
<1>1. ASSUME UNCHANGED <<cursor, scraped, walked, lost>>, (stage' = "walk") = (stage = "walk") PROVE ScrapeInv'
  BY <1>1 DEF ScrapeInv, AtSub, AtToken
<1>2. CASE Walk
  BY <1>2, WalkGathers
<1>3. CASE TokenExpires \/ UNCHANGED redditVars
  BY <1>1, <1>3 DEF TokenExpires, redditVars
<1>4. CASE insert_run \/ upsert_posts \/ upsert_candidate \/ patch_run \/ verify_pool
  BY <1>1, <1>4 DEF insert_run, upsert_posts, upsert_candidate, patch_run, verify_pool, GoTo
<1> QED
  BY <1>2, <1>3, <1>4 DEF RedditNext

(* For any subreddits, page sizes and outages: the worker reads no post twice, *)
(* and skips none of a subreddit whose pages were fetched and not full         *)
(* (scrape_page_ops of reddit_catalog.rs, the walk of main.rs).                *)
THEOREM Scraped == RedditSpec => []ScrapeCovers
<1>1. ScrapeInv => ScrapeCovers
  <2> SUFFICES ASSUME ScrapeInv PROVE ScrapeCovers
    OBVIOUS
  <2>1. stage # "walk" /\ cursor = NoCursor => AtSub = Len(Subs)
    BY DEF AtSub
  <2>2. Len(Subs) \in Nat /\ SubNumbers = 0..(Len(Subs) - 1)
    BY SubsAre DEF SubNumbers
  <2>3. \A w \in Range(walked) : w[1] \notin lost => Subs[w[1] + 1][w[2]].l1 \subseteq scraped.portals
    BY DEF ScrapeInv, Gathered, PostsOf
  <2>4. ASSUME stage # "walk", cursor = NoCursor, NEW s \in (0..(Len(Subs) - 1)) \ lost, NEW i \in DOMAIN Subs[s + 1]
        PROVE  <<s, i>> \in Range(walked)
    <3>1. s \in SubNumbers \ lost /\ s < AtSub /\ i \in DOMAIN PostsOf(s)
      BY <2>1, <2>2, <2>4 DEF PostsOf
    <3> QED
      BY <3>1 DEF ScrapeInv, Gathered
  <2>5. IsInjective(walked)
    BY DEF ScrapeInv, Gathered
  <2> QED
    BY <2>3, <2>4, <2>5 DEF ScrapeCovers
<1> QED
  BY InitScrapeInv, NextScrapeInv, <1>1, PTL DEF RedditSpec

-----------------------------------------------------------------------------
(* SportStreams.  The batches of a search add up to one scan of the          *)
(* shortlist, for any lists, caches, limits and batch size.  The invariant   *)
(* follows the offset: what the places up to it show is shown.  A channel    *)
(* shown before its programme was known would break it, and the matcher of   *)
(* SportMatch rules that out: the verdicts it gives agree (VerdictsHold),    *)
(* which SportStreams assumes of its channels (MatcherAgrees).               *)

SportGames == TeamGames \union EventGames
PortalLists == ChannelLists \union {<<>>}

\* What the matcher would take of a channel once its programmes are known.
AirsWith(c, roster) == <<search.game, portal, roster>> \in c.shows
Allowed(list) == Ids({c \in Range(list) : AirsWith(c, FALSE) \/ <<search.game, portal>> \in c.guided})
Wanted(list, upto) ==
  LET idxs == indices_for_epg(search.game, list)
  IN  Ids({list[i] : i \in {j \in DOMAIN idxs : idxs[j] <= upto /\ AirsWith(list[j], TRUE)}})
WantedOf(list) ==
  Ids({list[i] : i \in {j \in DOMAIN indices_for_epg(search.game, list) : AirsWith(list[j], TRUE)}})

\* The search over one list, up to a place of its shortlist.
ScannedTo(list, upto) ==
  /\ FastItems(search.game, list) = {}
  /\ Wanted(list, upto) \subseteq search.shown /\ search.shown \subseteq Allowed(list)

\* The end of a search that found one list at every call.
Ends(all) ==
  LET list == Candidates(all, search.cats)
      fast == FastItems(search.game, list)
  IN  IF fast # {} THEN search.shown = fast ELSE WantedOf(list) \subseteq search.shown /\ search.shown \subseteq Allowed(list)

SportTypeOK ==
  /\ portal \in {"xtream", "stalker"}
  /\ serves \in DOMAIN Foldless /\ shelf \subseteq PortalLists /\ live \subseteq PortalLists
  /\ search = [pc |-> search.pc, game |-> search.game, cats |-> search.cats, offset |-> search.offset,
               shown |-> search.shown, lists |-> search.lists, failed |-> search.failed]
  /\ search.pc \in {"off", "fast", "epg", "done"} /\ search.offset \in Nat /\ search.failed \in BOOLEAN
  /\ search.lists \subseteq PortalLists
  /\ search.pc # "off" => search.game \in SportGames

\* The calls of the search found this list, and lost nothing.
OneList(all) == search.lists = {all} /\ ~ search.failed

(* Nothing is shown before the programmes are asked for.  While they are, and   *)
(* every call so far found the same list and lost nothing, the channels shown    *)
(* are those of the shortlist up to the offset, and none that the matcher        *)
(* refuses; at the end they are those of the whole shortlist.                    *)
SportInv ==
  /\ SportTypeOK
  /\ search.pc \in {"off", "fast"} => search.lists = {} /\ search.shown = {} /\ search.offset = 0
  /\ search.pc = "epg" =>
       /\ search.lists # {}
       /\ \A all \in PortalLists : OneList(all) => ScannedTo(Candidates(all, search.cats), search.offset)
  /\ search.pc = "done" => \A all \in PortalLists : OneList(all) => Ends(all)

\* What comes before an element of a list ordered by rank and place.
Ahead(S, r, i) == {j \in S : r[j] > r[i] \/ (r[j] = r[i] /\ j < i)}

\* The first of an order.
First(S, r, m) == {j \in S : Cardinality(Ahead(S, r, j)) + 1 <= m}

\* The fields of a search, and the ways a step changes two of them.
SearchOf(pc, game, cats, from, shown, lists, miss) ==
  [pc |-> pc, game |-> game, cats |-> cats, offset |-> from, shown |-> shown, lists |-> lists, failed |-> miss]

Ended(s, shown) == [s EXCEPT !.pc = "done", !.shown = shown]
Judged(s, miss, shown) == [s EXCEPT !.failed = miss, !.shown = shown]

\* The league's teams only rule channels out.
LEMMA RosterRulesOut ==
  ASSUME NEW g, NEW c, NEW text, match_streams(g, c, text, TRUE)
  PROVE  match_streams(g, c, text, FALSE)
<1>1. CASE ~ is_team_game(g)
  BY <1>1 DEF match_streams
<1>2. CASE is_team_game(g)
  <2>1. MatchTeams(g, c, text, TRUE) => MatchTeams(g, c, text, FALSE)
    BY DEF MatchTeams
  <2> QED
    BY <1>2, <2>1 DEF match_streams
<1> QED
  BY <1>1, <1>2

\* A channel without programmes has no text.
LEMMA NoText ==
  ASSUME NEW told \in Told
  PROVE  TextOf(<<>>, told) = <<>>
<1>1. TextOf(<<>>, "none") = <<>> /\ TextOf(<<>>, "xtream") = <<>>
  BY DEF TextOf, xtream_short_epg
<1>2. FlattenSeq(<<>>) = <<>>
  BY DEF FlattenSeq
<1>3. SubSeq(<<>>, 1, IF Len(<<>>) < SHORT_EPG_LIMIT THEN Len(<<>>) ELSE SHORT_EPG_LIMIT) = <<>>
  <2>1. Len(<<>>) = 0 /\ (0 < SHORT_EPG_LIMIT \/ SHORT_EPG_LIMIT = 0)
    BY EpgLimitIsNat
  <2>2. (IF Len(<<>>) < SHORT_EPG_LIMIT THEN Len(<<>>) ELSE SHORT_EPG_LIMIT) = 0
    BY <2>1
  <2>3. SubSeq(<<>>, 1, 0) = <<>>
    OBVIOUS
  <2> QED
    BY <2>2, <2>3
<1>4. TextOf(<<>>, "stalker") = <<>>
  BY <1>2, <1>3 DEF TextOf, stalker_short_epg
<1> QED
  BY <1>1, <1>4 DEF Told

\* A channel the guide names by itself is strong, or shown by its names.
LEMMA GuidedIsShown ==
  ASSUME NEW g, NEW c, IsFiniteSet(specific_tokens(g)),
         is_team_game(g) \/ specific_tokens(g) \union tokenize_text(g.sport) # {},
         broadcast_channel_result_eligible(g, c, <<>>, "PreferEpg")
  PROVE  \/ broadcast_channel_result_eligible(g, c, <<>>, "StrongOnly")
         \/ match_streams(g, c, <<>>, FALSE)
<1>1. CASE is_team_game(g)
  BY <1>1 DEF match_streams, MatchTeams
<1>2. CASE ~ is_team_game(g)
  <2>1. CASE broadcast_channel_candidate_hit_kind(g, c) = "strong"
    BY <2>1 DEF broadcast_channel_result_eligible, Eligible
  <2>2. CASE broadcast_channel_candidate_hit_kind(g, c) # "strong"
    <3>1. text_confirms_broadcast_fixture(g, c.name)
      BY <2>2 DEF broadcast_channel_result_eligible, Eligible
    <3>2. text_has_title_phrase(g, c.name) \/ count_token_hits(c.name, specific_tokens(g)) >= 2
      BY <1>2, <3>1 DEF text_confirms_broadcast_fixture
    <3> DEFINE s == EventScore(g, c, <<>>, specific_tokens(g), tokenize_text(g.sport))
    <3>3. /\ s.phrase_name \in {0, 1} /\ s.phrase_epg \in {0, 1}
          /\ s.name \in Nat /\ s.cat \in Nat /\ s.epg \in Nat
      <4>1. \A text : specific_tokens(g) \intersect Range(text) \subseteq specific_tokens(g)
        OBVIOUS
      <4>2. \A text : count_token_hits(text, specific_tokens(g)) \in Nat
        BY <4>1, FS_Subset, FS_CardinalityType DEF count_token_hits
      <4>3. count_label_hits(c.folder, specific_tokens(g)) \in Nat
        BY FS_Subset, FS_CardinalityType DEF count_label_hits
      <4> QED
        BY <4>2, <4>3 DEF EventScore, One
    <3>4. s.phrase_name = 1 \/ s.name >= 2
      BY <3>2 DEF EventScore, One
    <3> HIDE DEF s
    <3>5. Tiered(s)
      BY <3>3, <3>4 DEF Tiered
    <3> QED
      BY <1>2, <3>5 DEF match_streams, match_event_streams, s
  <2> QED
    BY <2>1, <2>2
<1> QED
  BY <1>1, <1>2

(* For any lexicon, teams and programmes, and every game with a word to look   *)
(* for: the verdicts of the matcher on a channel agree (sport_match.rs).       *)
THEOREM VerdictsHold ==
  ASSUME NEW c, NEW k \in DOMAIN Games,
         LET g == MatchGame(Games[k])
         IN  /\ IsFiniteSet(specific_tokens(g))
             /\ is_team_game(g) \/ specific_tokens(g) \union tokenize_text(g.sport) # {}
  PROVE  VerdictsAgree(MatcherVerdicts(c), k)
<1> DEFINE g == MatchGame(Games[k])
           v == MatcherVerdicts(c)
<1>1. \A told \in Told, roster \in BOOLEAN :
        <<k, told, roster>> \in v.shows <=> match_streams(g, c, TextOf(c.airs, told), roster)
  BY DEF MatcherVerdicts
<1>2. \A told \in Told :
        <<k, told>> \in v.guided <=> broadcast_channel_result_eligible(g, c, TextOf(c.airs, told), "PreferEpg")
  BY DEF MatcherVerdicts
<1>3. k \in v.strong <=> broadcast_channel_result_eligible(g, c, <<>>, "StrongOnly")
  BY DEF MatcherVerdicts
<1>4. ~ v.airs => c.airs = <<>>
  BY DEF MatcherVerdicts
<1>5. TextOf(c.airs, "none") = <<>> /\ Told = {"none", "xtream", "stalker"}
  BY DEF TextOf, Told
<1> HIDE DEF g, v
<1>6. ASSUME NEW told \in Told, <<k, told, TRUE>> \in v.shows PROVE <<k, told, FALSE>> \in v.shows
  BY <1>1, <1>6, RosterRulesOut
<1>7. ASSUME ~ v.airs, NEW told \in Told, NEW roster \in BOOLEAN, <<k, told, roster>> \in v.shows
      PROVE  <<k, "none", roster>> \in v.shows
  <2>1. TextOf(c.airs, told) = TextOf(c.airs, "none")
    BY <1>4, <1>5, <1>7, NoText
  <2> QED
    BY <1>1, <1>5, <1>7, <2>1
<1>8. ASSUME <<k, "none">> \in v.guided PROVE k \in v.strong \/ <<k, "none", FALSE>> \in v.shows
  <2>1. broadcast_channel_result_eligible(g, c, <<>>, "PreferEpg")
    BY <1>2, <1>5, <1>8
  <2>2. broadcast_channel_result_eligible(g, c, <<>>, "StrongOnly") \/ match_streams(g, c, <<>>, FALSE)
    BY <2>1, GuidedIsShown DEF g
  <2> QED
    BY <1>1, <1>3, <1>5, <2>2
<1> QED
  BY <1>5, <1>6, <1>7, <1>8 DEF VerdictsAgree, v

\* The candidates are channels of the list, at places of it.
LEMMA CandidatesAre ==
  ASSUME NEW all \in PortalLists, NEW cats
  PROVE  LET list == Candidates(all, cats)
         IN  /\ IsFiniteSet(DOMAIN list) /\ DOMAIN list \subseteq Nat
             /\ \A i \in DOMAIN list : all \in ChannelLists /\ list[i] \in Range(all)
<1>1. all \in Seq(Range(all)) /\ (all \notin ChannelLists => DOMAIN all = {})
  <2>1. CASE all \in ChannelLists
    BY <2>1, SportConstants
  <2>2. CASE all = <<>>
    BY <2>2
  <2> QED
    BY <2>1, <2>2 DEF PortalLists
<1>2. Len(all) \in Nat /\ DOMAIN all = 1..Len(all)
  BY <1>1
<1>3. IsFiniteSet(DOMAIN all) /\ DOMAIN all \subseteq Nat
  BY <1>2, FS_Interval
<1>4. \A i \in DOMAIN all : all[i] \in Range(all) /\ all \in ChannelLists
  BY <1>1 DEF Range
<1> DEFINE some == InCategories(all, cats)
<1>5. DOMAIN some \subseteq DOMAIN all /\ \A i \in DOMAIN some : some[i] = all[i]
  BY DEF InCategories, Restrict
<1> HIDE DEF some
<1>6. \/ Candidates(all, cats) = some
      \/ Candidates(all, cats) = all
  BY DEF Candidates, filter_live_streams, some
<1>7. IsFiniteSet(DOMAIN some)
  BY <1>3, <1>5, FS_Subset
<1> QED
  BY <1>3, <1>4, <1>5, <1>6, <1>7

\* The first of an order are numbered from one on.
LEMMA Placed ==
  ASSUME NEW S, IsFiniteSet(S), S \subseteq Nat, NEW r \in [S -> Int], NEW m \in Nat
  PROVE  /\ Cardinality(First(S, r, m)) \in Nat
         /\ \A i \in First(S, r, m) : /\ Cardinality(Ahead(S, r, i)) \in Nat
                                      /\ Cardinality(Ahead(S, r, i)) + 1 <= Cardinality(First(S, r, m))
<1> DEFINE first == {j \in S : Cardinality(Ahead(S, r, j)) + 1 <= m}
<1>1. IsFiniteSet(first)
  BY FS_Subset
<1>2. \A i \in S : IsFiniteSet(Ahead(S, r, i)) /\ Cardinality(Ahead(S, r, i)) \in Nat
  <2>1. \A i \in S : Ahead(S, r, i) \subseteq S
    BY DEF Ahead
  <2> QED
    BY <2>1, FS_Subset, FS_CardinalityType
<1>3. ASSUME NEW i \in first
      PROVE  Cardinality(Ahead(S, r, i)) + 1 <= Cardinality(first)
  <2>1. i \in S /\ i \notin Ahead(S, r, i)
    BY DEF Ahead
  <2>2. ASSUME NEW j \in Ahead(S, r, i) PROVE j \in first
    <3>1. j \in S /\ Ahead(S, r, j) \subseteq Ahead(S, r, i)
      <4>1. j \in S /\ i \in S /\ r[i] \in Int /\ r[j] \in Int /\ i \in Nat /\ j \in Nat
        BY <2>1, <2>2 DEF Ahead
      <4>2. r[j] > r[i] \/ (r[j] = r[i] /\ j < i)
        BY <2>2 DEF Ahead
      <4>3. ASSUME NEW k \in Ahead(S, r, j) PROVE k \in Ahead(S, r, i)
        <5>1. k \in S /\ k \in Nat /\ r[k] \in Int /\ (r[k] > r[j] \/ (r[k] = r[j] /\ k < j))
          BY <4>3 DEF Ahead
        <5> QED
          BY <4>1, <4>2, <5>1 DEF Ahead
      <4> QED
        BY <4>1, <4>3
    <3>2. Cardinality(Ahead(S, r, j)) <= Cardinality(Ahead(S, r, i))
      BY <1>2, <2>1, <3>1, FS_Subset
    <3> QED
      BY <1>2, <2>1, <3>1, <3>2
  <2>3. Ahead(S, r, i) \union {i} \subseteq first
    BY <2>2
  <2>4. Cardinality(Ahead(S, r, i) \union {i}) = Cardinality(Ahead(S, r, i)) + 1
    BY <1>2, <2>1, FS_AddElement
  <2> QED
    BY <1>1, <2>3, <2>4, FS_Subset
<1> QED
  BY <1>1, <1>2, <1>3, FS_CardinalityType DEF First

\* A shortlist numbers some of the candidates from one on.
LEMMA Shortlisted ==
  ASSUME NEW all \in PortalLists, NEW cats, NEW game \in SportGames
  PROVE  LET list == Candidates(all, cats)
             idxs == indices_for_epg(game, list)
         IN  /\ DOMAIN idxs \subseteq DOMAIN list /\ Count(idxs) \in Nat
             /\ \A i \in DOMAIN idxs : idxs[i] \in Nat /\ 0 < idxs[i] /\ idxs[i] <= Count(idxs)
<1> DEFINE list == Candidates(all, cats)
           fits == Cardinality(DOMAIN list) <= MAX_EPG_FETCHES
           rank(i) == IF fits \/ list[i].rank[game] < 0 THEN 0 ELSE list[i].rank[game]
           ranked == {i \in DOMAIN list : fits \/ game \in TeamGames \/ rank(i) > 0}
           r == [i \in ranked |-> rank(i)]
           idxs == indices_for_epg(game, list)
<1>1. IsFiniteSet(DOMAIN list) /\ DOMAIN list \subseteq Nat
  BY CandidatesAre
<1>2. \A i \in DOMAIN list : list[i].rank[game] \in Int
  <2>1. \A i \in DOMAIN list : all \in ChannelLists /\ list[i] \in Range(all)
    BY CandidatesAre
  <2>2. \A c \in Range(all) : all \in ChannelLists => c.rank \in [SportGames -> Int]
    BY SportConstants DEF SportGames
  <2> HIDE DEF list
  <2> QED
    BY <2>1, <2>2
<1>3. idxs = [i \in {j \in ranked : Cardinality(Ahead(ranked, r, j)) + 1 <= MAX_EPG_FETCHES}
                |-> Cardinality(Ahead(ranked, r, i)) + 1]
  <2>1. \A i \in ranked : Ahead(ranked, r, i) = {j \in ranked : rank(j) > rank(i) \/ (rank(j) = rank(i) /\ j < i)}
    BY DEF Ahead
  <2> QED
    BY <2>1 DEF indices_for_epg
<1> HIDE DEF list
<1>4. ranked \subseteq DOMAIN list /\ r \in [ranked -> Int]
  BY <1>2
<1> HIDE DEF idxs, ranked, r
<1>5. IsFiniteSet(ranked) /\ ranked \subseteq Nat
  BY <1>1, <1>4, FS_Subset
<1>6. MAX_EPG_FETCHES \in Nat
  BY SportConstants
<1> DEFINE first == First(ranked, r, MAX_EPG_FETCHES)
<1>7. /\ Cardinality(first) \in Nat
      /\ \A i \in first : /\ Cardinality(Ahead(ranked, r, i)) \in Nat
                          /\ Cardinality(Ahead(ranked, r, i)) + 1 <= Cardinality(first)
  BY <1>4, <1>5, <1>6, Placed
<1>8. first \subseteq ranked /\ idxs = [i \in first |-> Cardinality(Ahead(ranked, r, i)) + 1]
  BY <1>3 DEF First
<1> HIDE DEF first
<1>9. DOMAIN idxs \subseteq DOMAIN list /\ Count(idxs) \in Nat
  BY <1>4, <1>7, <1>8 DEF Count
<1>10. \A i \in DOMAIN idxs : idxs[i] \in Nat /\ 0 < idxs[i] /\ idxs[i] <= Count(idxs)
  BY <1>7, <1>8 DEF Count
<1> QED
  BY <1>9, <1>10 DEF list, idxs

\* The first state satisfies the invariant.
LEMMA InitSportInv == SportInit => SportInv
  BY DEF SportInit, SportInv, SportTypeOK, NoSearch, PortalLists

\* What agrees of every channel a search looks at.
LEMMA Agreed ==
  ASSUME NEW all \in PortalLists, NEW cats, NEW game \in SportGames, NEW i \in DOMAIN Candidates(all, cats)
  PROVE  VerdictsAgree(Candidates(all, cats)[i], game)
  BY CandidatesAre, MatcherAgrees DEF SportGames

\* Without a channel for the fast pass, names alone tell of none.
LEMMA NoneByName ==
  ASSUME NEW all \in PortalLists, NEW cats, NEW game \in SportGames, FastItems(game, Candidates(all, cats)) = {},
         NEW i \in DOMAIN Candidates(all, cats), NEW roster \in BOOLEAN
  PROVE  LET c == Candidates(all, cats)[i]
         IN  game \notin c.strong /\ <<game, "none", roster>> \notin c.shows /\ <<game, "none">> \notin c.guided
<1> DEFINE list == Candidates(all, cats)
           c == list[i]
<1>1. VerdictsAgree(c, game) /\ c \in Range(list)
  BY Agreed DEF Range
<1> HIDE DEF list
<1>2. game \notin c.strong /\ <<game, "none", FALSE>> \notin c.shows
  BY <1>1 DEF FastItems, Ids, list
<1>3. <<game, "none", roster>> \notin c.shows
  BY <1>1, <1>2 DEF VerdictsAgree
<1>4. <<game, "none">> \notin c.guided
  BY <1>1, <1>2 DEF VerdictsAgree
<1> QED
  BY <1>2, <1>3, <1>4 DEF list

\* A batch shows what its programmes tell, and nothing the matcher would not take.
LEMMA BatchScans ==
  ASSUME SportInv, search.pc = "epg",
         NEW all \in PortalLists, FastItems(search.game, Candidates(all, search.cats)) = {}, NEW roster \in BOOLEAN
  PROVE  LET list == Candidates(all, search.cats)
             idxs == indices_for_epg(search.game, list)
             told == fill_epg(list, apply_cached_epg(list), Batch(idxs), {})
             team == match_streams_items(list, told, roster)
         IN  /\ team \subseteq Allowed(list) /\ broadcast_items(list, told) \subseteq Allowed(list)
             /\ \A j \in DOMAIN idxs : /\ search.offset < idxs[j]
                                       /\ idxs[j] <= next_offset(search.offset, Count(idxs))
                                       /\ AirsWith(list[j], TRUE)
                                       => list[j].id \in team
<1> DEFINE list == Candidates(all, search.cats)
           idxs == indices_for_epg(search.game, list)
           told == fill_epg(list, apply_cached_epg(list), Batch(idxs), {})
           team == match_streams_items(list, told, roster)
<1>1. search.game \in SportGames /\ portal \in {"none", "xtream", "stalker"}
  BY DEF SportInv, SportTypeOK
<1>2. DOMAIN idxs \subseteq DOMAIN list
  BY <1>1, Shortlisted
<1>3. \A i \in DOMAIN list : VerdictsAgree(list[i], search.game) /\ list[i] \in Range(list)
  BY <1>1, Agreed DEF Range
<1>4. \A i \in DOMAIN list : \A known \in BOOLEAN :
        search.game \notin list[i].strong /\ <<search.game, "none", known>> \notin list[i].shows
        /\ <<search.game, "none">> \notin list[i].guided
  BY <1>1, NoneByName
<1> HIDE DEF list, idxs
<1>5. \A i \in DOMAIN list : /\ i \in told => list[i].airs
                             /\ i \in Batch(idxs) /\ list[i].airs => i \in told
  BY DEF fill_epg, apply_cached_epg
<1> HIDE DEF told
<1>6. ASSUME NEW i \in DOMAIN list, <<search.game, Text(told, i), roster>> \in list[i].shows
      PROVE  list[i].id \in Allowed(list)
  <2>1. i \in told
    BY <1>4, <1>6 DEF Text
  <2>2. AirsWith(list[i], roster)
    BY <1>6, <2>1 DEF Text, AirsWith
  <2>3. AirsWith(list[i], FALSE)
    BY <1>1, <1>3, <2>2 DEF VerdictsAgree, AirsWith
  <2> QED
    BY <1>3, <2>3 DEF Allowed, Ids
<1>7. ASSUME NEW i \in DOMAIN list, <<search.game, Text(told, i)>> \in list[i].guided
      PROVE  list[i].id \in Allowed(list)
  <2>1. i \in told
    BY <1>4, <1>7 DEF Text
  <2>2. <<search.game, portal>> \in list[i].guided
    BY <1>7, <2>1 DEF Text
  <2> QED
    BY <1>3, <2>2 DEF Allowed, Ids
<1>8. ASSUME NEW j \in DOMAIN idxs, search.offset < idxs[j],
             idxs[j] <= next_offset(search.offset, Count(idxs)), AirsWith(list[j], TRUE)
      PROVE  list[j].id \in team
  <2>1. j \in Batch(idxs) /\ j \in DOMAIN list
    BY <1>2, <1>8 DEF Batch
  <2>2. list[j].airs
    <3>1. SUFFICES ASSUME ~ list[j].airs PROVE FALSE
      OBVIOUS
    <3>2. <<search.game, "none", TRUE>> \in list[j].shows
      BY <1>1, <1>3, <1>8, <2>1, <3>1 DEF VerdictsAgree, AirsWith
    <3> QED
      BY <1>4, <2>1, <3>2
  <2>3. Text(told, j) = portal
    BY <1>5, <2>1, <2>2 DEF Text
  <2>4. AirsWith(list[j], roster)
    BY <1>1, <1>3, <1>8, <2>1 DEF VerdictsAgree, AirsWith
  <2> QED
    BY <2>1, <2>3, <2>4 DEF match_streams_items, AirsWith
<1>9. team \subseteq Allowed(list)
  BY <1>6 DEF match_streams_items
<1>10. broadcast_items(list, told) \subseteq Allowed(list)
  BY <1>7 DEF broadcast_items
<1> HIDE DEF team
<1> QED
  BY <1>8, <1>9, <1>10 DEF list, idxs, told, team

\* A scan past the last place is a finished one.
LEMMA ScanEnds ==
  ASSUME NEW all \in PortalLists, NEW upto \in Nat, search.game \in SportGames,
         Count(indices_for_epg(search.game, Candidates(all, search.cats))) <= upto
  PROVE  Wanted(Candidates(all, search.cats), upto) = WantedOf(Candidates(all, search.cats))
<1> DEFINE list == Candidates(all, search.cats)
           idxs == indices_for_epg(search.game, list)
<1>1. \A i \in DOMAIN idxs : idxs[i] <= upto
  <2>1. Count(idxs) \in Nat /\ \A i \in DOMAIN idxs : idxs[i] \in Nat /\ idxs[i] <= Count(idxs)
    BY Shortlisted
  <2>2. Count(idxs) <= upto
    OBVIOUS
  <2> HIDE DEF idxs
  <2> QED
    BY <2>1, <2>2
<1>2. {j \in DOMAIN idxs : idxs[j] <= upto /\ AirsWith(list[j], TRUE)} = {j \in DOMAIN idxs : AirsWith(list[j], TRUE)}
  BY <1>1
<1> QED
  BY Zenon, <1>2 DEF Wanted, WantedOf

\* A search that goes on over the same portal is judged by the same lists.
LEMMA SameSearch ==
  ASSUME portal' = portal, search'.game = search.game, search'.cats = search.cats, NEW all
  PROVE  LET list == Candidates(all, search.cats)
         IN  /\ Candidates(all, search.cats)' = list
             /\ \A upto : ScannedTo(list, upto)' <=> /\ FastItems(search.game, list) = {}
                                                     /\ Wanted(list, upto) \subseteq search'.shown
                                                     /\ search'.shown \subseteq Allowed(list)
             /\ Ends(all)' <=> IF FastItems(search.game, list) # {} THEN search'.shown = FastItems(search.game, list)
                               ELSE WantedOf(list) \subseteq search'.shown /\ search'.shown \subseteq Allowed(list)
<1> DEFINE list == Candidates(all, search.cats)
<1>1. Candidates(all, search.cats)' = list
  BY DEF Candidates
<1>2. \A l : /\ Allowed(l)' = Allowed(l) /\ WantedOf(l)' = WantedOf(l)
             /\ \A upto : Wanted(l, upto)' = Wanted(l, upto)
  BY DEF Allowed, WantedOf, Wanted, AirsWith
<1> QED
  BY <1>1, <1>2 DEF ScannedTo, Ends

\* What a call may find.
LEMMA MayFind ==
  ASSUME SportTypeOK, NEW r \in LiveLists
  PROVE  /\ r.list \in PortalLists /\ r.live \subseteq PortalLists
         /\ r.ok \in BOOLEAN /\ r.lost \in BOOLEAN /\ (r.lost \/ r.ok)
<1>1. /\ serves \in PortalLists /\ Foldless[serves] \in PortalLists /\ <<>> \in PortalLists
      /\ Known \subseteq PortalLists /\ live \subseteq PortalLists
  BY SportConstants DEF SportTypeOK, Known, PortalLists
<1>2. \/ \E l \in Known : r = [ok |-> TRUE, lost |-> FALSE, list |-> l, live |-> live]
      \/ \E l \in {serves, Foldless[serves]} : r = [ok |-> TRUE, lost |-> FALSE, list |-> l, live |-> {l}]
      \/ r = [ok |-> TRUE, lost |-> TRUE, list |-> <<>>, live |-> {<<>>}]
      \/ r = [ok |-> FALSE, lost |-> TRUE, list |-> <<>>, live |-> live]
  BY DEF LiveLists, Fetched, XtreamLive, StalkerLive
<1>3. CASE \E l \in Known : r = [ok |-> TRUE, lost |-> FALSE, list |-> l, live |-> live]
  BY <1>1, <1>3
<1>4. CASE \E l \in {serves, Foldless[serves]} : r = [ok |-> TRUE, lost |-> FALSE, list |-> l, live |-> {l}]
  BY <1>1, <1>4
<1>5. CASE r = [ok |-> TRUE, lost |-> TRUE, list |-> <<>>, live |-> {<<>>}]
  BY <1>1, <1>5
<1>6. CASE r = [ok |-> FALSE, lost |-> TRUE, list |-> <<>>, live |-> live]
  BY <1>1, <1>6
<1> QED
  BY <1>2, <1>3, <1>4, <1>5, <1>6

\* The first call of a search.
LEMMA FastPassKeeps == SportInv /\ FastPass => SportInv'
<1> SUFFICES ASSUME SportInv, FastPass PROVE SportInv'
  OBVIOUS
<1>1. /\ search.pc = "fast" /\ search.lists = {} /\ search.shown = {} /\ search.offset = 0
      /\ search.game \in SportGames /\ SportTypeOK
  BY DEF SportInv, SportTypeOK, FastPass
<1>2. PICK r \in LiveLists :
        LET items == IF r.ok THEN FastItems(search.game, Candidates(r.list, search.cats)) ELSE {}
        IN  /\ live' = r.live
            /\ IF items # {} THEN Finish(Saw(r), items) ELSE search' = [Saw(r) EXCEPT !.pc = "epg"]
  BY DEF FastPass
<1> DEFINE items == IF r.ok THEN FastItems(search.game, Candidates(r.list, search.cats)) ELSE {}
<1>3. /\ r.list \in PortalLists /\ r.live \subseteq PortalLists
      /\ r.ok \in BOOLEAN /\ r.lost \in BOOLEAN /\ (r.lost \/ r.ok)
  BY <1>1, <1>2, MayFind
<1>4. portal' = portal /\ serves' = serves /\ shelf' = shelf /\ live' = r.live
  BY <1>2 DEF FastPass
<1>5. /\ search' = [pc |-> IF items # {} THEN "done" ELSE "epg", game |-> search.game, cats |-> search.cats,
                    offset |-> search.offset, shown |-> IF items # {} THEN items ELSE search.shown,
                    lists |-> {r.list}, failed |-> search.failed \/ r.lost]
  BY <1>1, <1>2 DEF Finish, Saw, SportTypeOK
<1> HIDE DEF items
<1>6. SportTypeOK'
  BY <1>1, <1>3, <1>4, <1>5 DEF SportTypeOK
<1>7. ASSUME NEW all \in PortalLists, OneList(all)'
      PROVE  /\ items # {} => Ends(all)'
             /\ items = {} => ScannedTo(Candidates(all, search.cats), search.offset)'
  <2>1. all = r.list /\ ~ r.lost /\ r.ok
    BY <1>3, <1>5, <1>7 DEF OneList
  <2>2. items = FastItems(search.game, Candidates(all, search.cats))
    BY <2>1 DEF items
  <2>3. CASE items # {}
    BY <1>4, <1>5, <2>2, <2>3, SameSearch
  <2>4. CASE items = {}
    <3>1. Wanted(Candidates(all, search.cats), 0) = {}
      <4> DEFINE idxs == indices_for_epg(search.game, Candidates(all, search.cats))
      <4>1. \A j \in DOMAIN idxs : idxs[j] \in Nat /\ ~ (idxs[j] <= 0)
        BY <1>1, Shortlisted
      <4> QED
        BY <4>1 DEF Wanted, Ids
    <3>2. search'.offset = 0 /\ search'.shown = {} /\ search'.game = search.game /\ search'.cats = search.cats
      BY <1>1, <1>5, <2>4
    <3> QED
      BY <1>4, <2>2, <2>4, <3>1, <3>2, SameSearch
  <2> QED
    BY <2>3, <2>4
<1> QED
  BY <1>5, <1>6, <1>7 DEF SportInv

\* The end of a search changes two of its fields.
LEMMA SearchEnded ==
  ASSUME NEW pc, NEW game, NEW cats, NEW from, NEW shown, NEW lists, NEW miss, NEW w
  PROVE  Ended(SearchOf(pc, game, cats, from, shown, lists, miss), w)
           = SearchOf("done", game, cats, from, w, lists, miss)
<1> DEFINE s == SearchOf(pc, game, cats, from, shown, lists, miss)
           d == SearchOf("done", game, cats, from, shown, lists, miss)
<1>1. Ended(s, w) = [[s EXCEPT !.pc = "done"] EXCEPT !.shown = w]
  BY DEF Ended
<1>2. [s EXCEPT !.pc = "done"] = d
  BY DEF SearchOf
<1>3. [d EXCEPT !.shown = w] = SearchOf("done", game, cats, from, w, lists, miss)
  BY DEF SearchOf
<1> HIDE DEF d
<1> QED
  BY <1>1, <1>2, <1>3

\* So does what a batch tells of it.
LEMMA SearchJudged ==
  ASSUME NEW pc, NEW game, NEW cats, NEW from, NEW shown, NEW lists, NEW miss, NEW v, NEW w
  PROVE  Judged(SearchOf(pc, game, cats, from, shown, lists, miss), v, w)
           = SearchOf(pc, game, cats, from, w, lists, v)
<1> DEFINE s == SearchOf(pc, game, cats, from, shown, lists, miss)
           d == SearchOf(pc, game, cats, from, shown, lists, v)
<1>1. Judged(s, v, w) = [[s EXCEPT !.failed = v] EXCEPT !.shown = w]
  BY DEF Judged
<1>2. [s EXCEPT !.failed = v] = d
  BY DEF SearchOf
<1>3. [d EXCEPT !.shown = w] = SearchOf(pc, game, cats, from, w, lists, v)
  BY DEF SearchOf
<1> HIDE DEF d
<1> QED
  BY <1>1, <1>2, <1>3

\* A call that looks programmes up.
LEMMA EpgPassKeeps == SportInv /\ EpgPass => SportInv'
<1> SUFFICES ASSUME SportInv, EpgPass PROVE SportInv'
  OBVIOUS
<1>1. /\ search.pc = "epg" /\ search.lists # {} /\ search.game \in SportGames /\ SportTypeOK
      /\ search.offset \in Nat /\ portal' = portal /\ serves' = serves /\ shelf' = shelf
  BY DEF SportInv, SportTypeOK, EpgPass
<1>2. PICK r \in LiveLists, roster \in BOOLEAN :
        LET list == Candidates(r.list, search.cats)
            idxs == indices_for_epg(search.game, list)
        IN  /\ live' = r.live
            /\ \/ ~ r.ok /\ Finish(Saw(r), search.shown)
               \/ DOMAIN idxs = {} /\ NoShortlist(Saw(r), list, roster)
               \/ search.offset >= Count(idxs) /\ Finish(Saw(r), search.shown)
               \/ \E miss \in SUBSET Batch(idxs) : EpgBatch(Saw(r), list, idxs, miss, roster)
  BY DEF EpgPass
<1>3. /\ r.list \in PortalLists /\ r.live \subseteq PortalLists
      /\ r.ok \in BOOLEAN /\ r.lost \in BOOLEAN /\ (r.lost \/ r.ok)
  BY <1>1, <1>2, MayFind
<1> DEFINE list == Candidates(r.list, search.cats)
           idxs == indices_for_epg(search.game, list)
           Going(pc, from, shown, missed) ==
             SearchOf(pc, search.game, search.cats, from, shown, search.lists \union {r.list}, missed)
<1> DEFINE miss == search.failed \/ r.lost
<1>4. Saw(r) = Going("epg", search.offset, search.shown, miss)
  <2>1. Saw(r) = [search EXCEPT !.lists = @ \union {r.list}, !.failed = miss]
    BY DEF Saw
  <2> HIDE DEF miss
  <2> QED
    BY <1>1, <2>1 DEF SportTypeOK, SearchOf
<1>8. miss \in BOOLEAN
  BY <1>1, <1>3 DEF SportTypeOK
<1> HIDE DEF miss
<1>5. ASSUME NEW shown, Finish(Saw(r), shown) PROVE search' = Going("done", search.offset, shown, miss)
  <2>1. search' = Ended(Saw(r), shown)
    BY <1>5 DEF Finish, Ended
  <2>2. Ended(Going("epg", search.offset, search.shown, miss), shown)
          = Going("done", search.offset, shown, miss)
    BY SearchEnded
  <2> HIDE DEF Going
  <2> QED
    BY Zenon, <1>4, <2>1, <2>2
<1>6. ASSUME NEW all \in PortalLists, search.lists \union {r.list} = {all}, ~ search.failed
      PROVE  ScannedTo(Candidates(all, search.cats), search.offset) /\ r.list = all
  <2>1. search.lists = {all} /\ r.list = all
    BY <1>1, <1>6
  <2> QED
    BY <1>1, <1>6, <2>1 DEF SportInv, OneList
<1>7. ASSUME NEW pc \in {"epg", "done"}, NEW from \in Nat, NEW upto \in Nat, NEW shown, NEW any \in BOOLEAN,
             search' = Going(pc, from, shown, any),
             pc = "epg" => from = upto,
             pc = "done" => any \/ Count(idxs) <= upto,
             \A all \in PortalLists : search.lists \union {r.list} = {all} /\ ~ any =>
               /\ FastItems(search.game, list) = {}
               /\ Wanted(list, upto) \subseteq shown /\ shown \subseteq Allowed(list)
      PROVE  SportInv'
  <2>1. SportTypeOK'
    BY <1>1, <1>2, <1>3, <1>7 DEF SportTypeOK, SearchOf
  <2>2. ASSUME NEW all \in PortalLists, OneList(all)'
        PROVE  /\ ~ any /\ r.list = all /\ FastItems(search.game, list) = {}
               /\ Wanted(list, upto) \subseteq shown /\ shown \subseteq Allowed(list)
    <3>1. search.lists \union {r.list} = {all} /\ ~ any
      BY <1>7, <2>2 DEF OneList, SearchOf
    <3> HIDE DEF list
    <3> QED
      BY <1>7, <3>1
  <2>3. search'.game = search.game /\ search'.cats = search.cats /\ search'.shown = shown
        /\ search'.pc = pc /\ search'.offset = from /\ search'.lists # {}
    BY <1>7 DEF SearchOf
  <2>4. ASSUME NEW all \in PortalLists, OneList(all)', pc = "done" PROVE Ends(all)'
    <3>1. Wanted(list, upto) = WantedOf(list)
      BY <1>1, <1>3, <1>7, <2>2, <2>4, ScanEnds
    <3> QED
      BY <1>1, <2>2, <2>3, <2>4, <3>1, SameSearch
  <2>5. ASSUME NEW all \in PortalLists, OneList(all)', pc = "epg"
        PROVE  ScannedTo(Candidates(all, search.cats), search.offset)'
    <3>1. upto = search'.offset
      BY <1>7, <2>3, <2>5
    <3> QED
      BY <1>1, <2>2, <2>3, <2>5, <3>1, SameSearch
  <2> QED
    BY <2>1, <2>3, <2>4, <2>5 DEF SportInv
<1>9. ASSUME NEW all \in PortalLists, search.lists \union {r.list} = {all}, ~ search.failed
      PROVE  /\ FastItems(search.game, list) = {}
             /\ Wanted(list, search.offset) \subseteq search.shown /\ search.shown \subseteq Allowed(list)
  BY <1>6, <1>9 DEF ScannedTo
<1>10. Count(idxs) \in Nat /\ DOMAIN idxs \subseteq DOMAIN list /\ \A i \in DOMAIN idxs : idxs[i] \in Nat
  BY <1>1, <1>3, Shortlisted
<1>11. CASE ~ r.ok /\ Finish(Saw(r), search.shown)
  <2>1. miss /\ search' = Going("done", search.offset, search.shown, miss)
    BY <1>3, <1>5, <1>11 DEF miss
  <2> HIDE DEF list, idxs, Going
  <2> QED
    BY <1>1, <1>7, <1>8, <2>1
<1>12. CASE search.offset >= Count(idxs) /\ Finish(Saw(r), search.shown)
  <2>1. search' = Going("done", search.offset, search.shown, miss) /\ (~ miss => ~ search.failed)
    BY <1>5, <1>12 DEF miss
  <2>2. Count(idxs) <= search.offset
    BY <1>1, <1>10, <1>12
  <2> HIDE DEF list, idxs, Going
  <2> QED
    BY <1>1, <1>7, <1>8, <1>9, <2>1, <2>2
<1>13. CASE DOMAIN idxs = {} /\ NoShortlist(Saw(r), list, roster)
  <2> DEFINE named  == {c \in Range(list) : <<search.game, "none", roster>> \in c.shows}
             strong == {c \in Range(list) : search.game \in c.strong}
             shown  == search.shown \union Ids(named \union strong)
  <2>1. search' = Going("done", search.offset, shown, miss) /\ (~ miss => ~ search.failed)
    BY <1>5, <1>13 DEF NoShortlist, miss
  <2>2. ASSUME FastItems(search.game, list) = {} PROVE named \union strong = {}
    BY <1>1, <1>2, <1>3, <2>2, NoneByName DEF Range
  <2>3. Count(idxs) <= search.offset
    BY <1>1, <1>13, FS_EmptySet DEF Count
  <2>4. Ids({}) = {}
    BY DEF Ids
  <2> HIDE DEF named, strong
  <2>5. \A all \in PortalLists : search.lists \union {r.list} = {all} /\ ~ miss =>
          /\ FastItems(search.game, list) = {}
          /\ Wanted(list, search.offset) \subseteq shown /\ shown \subseteq Allowed(list)
    <3> HIDE DEF list
    <3> QED
      BY <1>9, <2>1, <2>2, <2>4
  <2> HIDE DEF list, idxs, Going, shown
  <2> QED
    BY <1>1, <1>7, <1>8, <2>1, <2>3, <2>5
<1>14. ASSUME NEW missed \in SUBSET Batch(idxs), EpgBatch(Saw(r), list, idxs, missed, roster)
       PROVE  SportInv'
  <2> DEFINE told  == fill_epg(list, apply_cached_epg(list), Batch(idxs), missed)
             team  == match_streams_items(list, told, roster)
             items == IF search.offset = 0 THEN merge_broadcast_front(broadcast_items(list, told), team) ELSE team
             shown == search.shown \union filter_excluded_items(items, search.shown)
             next  == next_offset(search.offset, Count(idxs))
             any   == miss \/ missed # {}
  <2>1. search' = IF next < Count(idxs) THEN Going("epg", next, shown, any)
                  ELSE Going("done", search.offset, shown, any)
    <3> DEFINE now == [Saw(r) EXCEPT !.failed = @ \/ missed # {},
                                     !.shown = @ \union filter_excluded_items(items, @)]
    <3>1. IF next < Count(idxs) THEN search' = [now EXCEPT !.offset = next] ELSE Finish(now, now.shown)
      BY <1>14 DEF EpgBatch
    <3> HIDE DEF list, idxs, items, next
    <3>2. Saw(r).failed = miss /\ Saw(r).shown = search.shown
      BY <1>4 DEF SearchOf
    <3>3. (Saw(r).failed \/ missed # {}) = any
      BY <3>2
    <3>4. (Saw(r).shown \union filter_excluded_items(items, Saw(r).shown)) = shown
      BY <3>2
    <3> HIDE DEF any, shown
    <3>5. now = Judged(Saw(r), any, shown)
      BY Zenon, <3>3, <3>4 DEF Judged
    <3>6. Judged(Going("epg", search.offset, search.shown, miss), any, shown)
            = Going("epg", search.offset, shown, any)
      BY SearchJudged
    <3>9. now = Going("epg", search.offset, shown, any)
      <4> HIDE DEF now, Going
      <4> QED
        BY Zenon, <1>4, <3>5, <3>6
    <3>10. [Going("epg", search.offset, shown, any) EXCEPT !.offset = next] = Going("epg", next, shown, any)
      BY DEF SearchOf
    <3>11. now.shown = shown
      BY <3>9 DEF SearchOf
    <3>12. Ended(Going("epg", search.offset, shown, any), shown)
             = Going("done", search.offset, shown, any)
      BY SearchEnded
    <3> HIDE DEF now, Going
    <3>7. CASE next < Count(idxs)
      BY Zenon, <3>1, <3>7, <3>9, <3>10
    <3>8. CASE ~ (next < Count(idxs))
      BY Zenon, <3>1, <3>8, <3>9, <3>11, <3>12 DEF Finish, Ended
    <3> QED
      BY <3>7, <3>8
  <2>2. next \in Nat
    BY <1>1, <1>10, SportConstants DEF next_offset
  <2>3. any \in BOOLEAN /\ (~ any => ~ miss /\ ~ search.failed /\ missed = {})
    BY <1>8 DEF miss
  <2>4. ASSUME FastItems(search.game, list) = {}, missed = {},
               Wanted(list, search.offset) \subseteq search.shown, search.shown \subseteq Allowed(list)
        PROVE  Wanted(list, next) \subseteq shown /\ shown \subseteq Allowed(list)
    <3>1. /\ team \subseteq Allowed(list) /\ broadcast_items(list, told) \subseteq Allowed(list)
          /\ \A j \in DOMAIN idxs : /\ search.offset < idxs[j] /\ idxs[j] <= next /\ AirsWith(list[j], TRUE)
                                    => list[j].id \in team
      BY <1>1, <1>3, <2>4, BatchScans
    <3> HIDE DEF told, next
    <3>2. team \subseteq items /\ items \subseteq Allowed(list) /\ shown = search.shown \union items
      BY <3>1 DEF merge_broadcast_front, filter_excluded_items
    <3> HIDE DEF team, items, shown
    <3>3. ASSUME NEW j \in DOMAIN idxs, idxs[j] <= next, AirsWith(list[j], TRUE)
          PROVE  list[j].id \in shown
      <4>1. CASE idxs[j] <= search.offset
        <5>1. list[j].id \in Wanted(list, search.offset)
          BY <3>3, <4>1 DEF Wanted, Ids
        <5> QED
          BY <2>4, <3>2, <5>1
      <4>2. CASE ~ (idxs[j] <= search.offset)
        <5>1. search.offset < idxs[j]
          BY <1>1, <1>10, <4>2
        <5>2. list[j].id \in team
          BY Zenon, <3>1, <3>3, <5>1
        <5> QED
          BY <3>2, <5>2
      <4> QED
        BY <4>1, <4>2
    <3>4. Wanted(list, next) \subseteq shown
      BY <3>3 DEF Wanted, Ids
    <3> QED
      BY <2>4, <3>2, <3>4
  <2>5. \A all \in PortalLists : search.lists \union {r.list} = {all} /\ ~ any =>
          /\ FastItems(search.game, list) = {}
          /\ Wanted(list, next) \subseteq shown /\ shown \subseteq Allowed(list)
    <3> HIDE DEF list, shown, next, any
    <3> QED
      BY <1>9, <2>3, <2>4
  <2>6. next < Count(idxs) \/ Count(idxs) <= next
    BY <1>10, <2>2
  <2> HIDE DEF list, idxs, Going, shown, next, any
  <2>7. CASE next < Count(idxs)
    BY <1>7, <2>1, <2>2, <2>3, <2>5, <2>7
  <2>8. CASE ~ (next < Count(idxs))
    BY <1>1, <1>7, <2>1, <2>2, <2>3, <2>5, <2>6, <2>8
  <2> QED
    BY <2>7, <2>8
<1> QED
  BY <1>2, <1>11, <1>12, <1>13, <1>14

\* Every step keeps the invariant.
LEMMA NextSportInv == SportInv /\ [SportNext]_sportVars => SportInv'
<1> SUFFICES ASSUME SportInv, [SportNext]_sportVars PROVE SportInv'
  OBVIOUS
<1>1. ASSUME portal' = portal, search' = search,
             serves' \in DOMAIN Foldless, shelf' \subseteq PortalLists, live' \subseteq PortalLists
      PROVE  SportInv'
  <2>1. SportTypeOK'
    BY <1>1 DEF SportInv, SportTypeOK
  <2>2. \A all : /\ Candidates(all, search.cats)' = Candidates(all, search.cats)
                 /\ Ends(all)' = Ends(all)
                 /\ OneList(all)' = OneList(all)
                 /\ \A list, upto : ScannedTo(list, upto)' = ScannedTo(list, upto)
    BY <1>1 DEF Ends, OneList, ScannedTo, Candidates, Wanted, WantedOf, Allowed, AirsWith
  <2> QED
    BY <1>1, <2>1, <2>2 DEF SportInv
<1>2. SportTypeOK /\ serves \in PortalLists
  BY SportConstants DEF PortalLists, SportInv, SportTypeOK
<1>3. CASE SearchBegins
  <2>1. PICK game \in SportGames, cats \in {{}, {"c1"}} :
          search' = [pc |-> "fast", game |-> game, cats |-> cats, offset |-> 0, shown |-> {},
                     lists |-> {}, failed |-> FALSE]
    BY <1>3 DEF SearchBegins, NoSearch, SportGames
  <2>2. UNCHANGED <<portal, serves, shelf, live>>
    BY <1>3 DEF SearchBegins
  <2> QED
    BY <1>2, <2>1, <2>2 DEF SportInv, SportTypeOK
<1>4. CASE SearchCancelled
  BY <1>2, <1>4 DEF SearchCancelled, NoSearch, SportInv, SportTypeOK
<1>5. CASE LiveExpires \/ ProgrammesExpire \/ ShelfStored \/ PortalChanges \/ UNCHANGED sportVars
  BY <1>1, <1>2, <1>5 DEF LiveExpires, ProgrammesExpire, ShelfStored, PortalChanges, Happens, sportVars, SportTypeOK
<1> QED
  BY <1>3, <1>4, <1>5, FastPassKeeps, EpgPassKeeps DEF SportNext

(* For any lists, caches, batches and limits: the batches of a search add up   *)
(* to one scan of the shortlist (portal_live_tv_search.dart over              *)
(* sport_match_streams of xtream_sport.rs and stalker_sport.rs).               *)
THEOREM BatchesAdd == SportSpec => []BatchesAddUp
<1>1. SportInv => BatchesAddUp
  <2> SUFFICES ASSUME SportInv, NEW all \in search.lists, search.pc = "done", search.lists = {all}, ~ search.failed
               PROVE  LET list == Candidates(all, search.cats)
                          fast == FastItems(search.game, list)
                      IN  IF fast # {} THEN search.shown = fast
                          ELSE WantedOf(list) \subseteq search.shown /\ search.shown \subseteq Allowed(list)
    BY DEF BatchesAddUp, WantedOf, Allowed, AirsWith
  <2>1. all \in PortalLists /\ OneList(all)
    BY DEF SportInv, SportTypeOK, OneList
  <2> QED
    BY <2>1 DEF SportInv, Ends
<1> QED
  BY InitSportInv, NextSportInv, <1>1, PTL DEF SportSpec
=============================================================================
