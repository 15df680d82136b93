----------------------------- MODULE PluginFetch -----------------------------
(***************************************************************************)
(* crates/engine/src/fetch_guard.rs and chrome_fetch.rs: a plugin's fetch. *)
(* Both functions follow redirects by hand: each hop is resolved, checked  *)
(* and pinned before it is sent.                                           *)
(*                                                                         *)
(* An origin stands for a host and port.  A lookup may answer differently  *)
(* every time; an IP literal is an origin whose lookup has one answer.     *)
(***************************************************************************)
EXTENDS Integers, FiniteSets

CONSTANTS Origins, MAX_REDIRECTS, MAX_RESPONSE_BYTES,
          ChunkBytes      \* sizes of the pieces of a body

ASSUME FetchLimits == /\ MAX_REDIRECTS \in Nat /\ MAX_RESPONSE_BYTES \in Nat
                      /\ ChunkBytes \subseteq Nat

VARIABLES fetch,      \* the call: pc, where it is and what it would send
          allow_local, \* the pack's opt-in
          stopped,    \* the job's token is cancelled
          late,       \* the deadline of the whole chain has passed
          sent        \* ghost: the requests that were sent

fetchVars == <<fetch, allow_local, stopped, late, sent>>

Addresses == {"public", "local"}
NoFetch == [pc |-> "idle", first |-> "none", at |-> "none", addrs |-> {}, method |-> "GET",
            creds |-> FALSE, body |-> FALSE, hops |-> 0, bytes |-> 0]

FetchInit == /\ fetch = NoFetch /\ allow_local \in BOOLEAN /\ stopped = FALSE /\ late = FALSE
             /\ sent = {}

Answered == fetch' = NoFetch
StopFetch == ~stopped /\ fetch.pc # "idle" /\ stopped' = TRUE /\ UNCHANGED <<fetch, allow_local, late, sent>>
DeadlinePasses == /\ ~late /\ fetch.pc # "idle" /\ late' = TRUE
                  /\ UNCHANGED <<fetch, allow_local, stopped, sent>>

(* The plugin's headers may hold credentials; host and framing headers of    *)
(* the plugin are dropped before the first hop.                              *)
guarded_fetch(o, method, creds, body) ==
  /\ fetch.pc = "idle" /\ ~stopped /\ late' = FALSE /\ sent' = {}
  /\ fetch' = [NoFetch EXCEPT !.pc = "resolve", !.first = o, !.at = o, !.method = method,
                              !.creds = creds, !.body = body /\ method = "POST"]
  /\ UNCHANGED <<allow_local, stopped>>

AllPublic(addrs) == addrs # {} /\ (allow_local \/ "local" \notin addrs)

(* The lookup itself waits neither for the token nor for the deadline. *)
resolve_checked(addrs) ==
  /\ fetch.pc = "resolve"
  /\ IF ~stopped /\ AllPublic(addrs)
     THEN fetch' = [fetch EXCEPT !.pc = "send", !.addrs = addrs] ELSE Answered
  /\ UNCHANGED <<allow_local, stopped, late, sent>>

Send ==
  /\ fetch.pc = "send" /\ fetch' = [fetch EXCEPT !.pc = "reply"]
  /\ sent' = sent \cup {[to |-> fetch.at, addrs |-> fetch.addrs, method |-> fetch.method,
                         creds |-> fetch.creds, body |-> fetch.body]}
  /\ UNCHANGED <<allow_local, stopped, late>>

(* next_redirect_hop: 301, 302 and 303 turn into a GET without the body, 307 *)
(* and 308 keep both; HEAD stays HEAD.                                       *)
NextMethod(status) == IF status = "307" THEN fetch.method
                      ELSE IF fetch.method = "HEAD" THEN "HEAD" ELSE "GET"

is_cross_host(o) == o # fetch.at

\* Credentials follow the redirect unless it comes back to the first origin.
DropsLate(status, o) ==
  /\ fetch.pc = "reply"
  /\ IF fetch.hops + 1 > MAX_REDIRECTS THEN Answered
     ELSE fetch' = [fetch EXCEPT !.pc = "resolve", !.at = o, !.hops = @ + 1,
                                 !.method = NextMethod(status),
                                 !.body = @ /\ status = "307",
                                 !.creds = @ /\ (fetch.hops = 0 \/ ~is_cross_host(o))]
  /\ UNCHANGED <<allow_local, stopped, late, sent>>

Redirect(status, o) ==
  /\ fetch.pc = "reply"
  /\ IF fetch.hops + 1 > MAX_REDIRECTS THEN Answered
     ELSE fetch' = [fetch EXCEPT !.pc = "resolve", !.at = o, !.hops = @ + 1,
                                 !.method = NextMethod(status),
                                 !.body = @ /\ status = "307",
                                 !.creds = @ /\ ~is_cross_host(o)]
  /\ UNCHANGED <<allow_local, stopped, late, sent>>

(* A HEAD has no body; an announced length over the limit is refused. *)
Reply ==
  /\ fetch.pc = "reply"
  /\ IF fetch.method = "HEAD" THEN Answered
     ELSE Answered \/ fetch' = [fetch EXCEPT !.pc = "read"]
  /\ UNCHANGED <<allow_local, stopped, late, sent>>

push_capped(n) ==
  /\ fetch.pc = "read"
  /\ IF fetch.bytes + n > MAX_RESPONSE_BYTES THEN Answered
     ELSE fetch' = [fetch EXCEPT !.bytes = @ + n]
  /\ UNCHANGED <<allow_local, stopped, late, sent>>

BodyEnds == fetch.pc = "read" /\ Answered /\ UNCHANGED <<allow_local, stopped, late, sent>>

(* A request or a read ends at the deadline or on a cancel; errors of the     *)
(* connection end it in Reply and BodyEnds.                                   *)
FetchAborted ==
  /\ fetch.pc \in {"reply", "read"} /\ (stopped \/ late)
  /\ Answered /\ UNCHANGED <<allow_local, stopped, late, sent>>

-----------------------------------------------------------------------------
FetchNext ==
  \/ \E o \in Origins, m \in {"GET", "POST", "HEAD"}, c, b \in BOOLEAN : guarded_fetch(o, m, c, b)
  \/ \E addrs \in SUBSET Addresses : resolve_checked(addrs)
  \/ Send \/ Reply \/ BodyEnds \/ FetchAborted \/ StopFetch \/ DeadlinePasses
  \/ \E status \in {"302", "307"}, o \in Origins : Redirect(status, o)
  \/ \E n \in ChunkBytes : push_capped(n)

FetchSpec == FetchInit /\ [][FetchNext]_fetchVars

-----------------------------------------------------------------------------
(* Properties *)

(* However the chain of redirects winds and however lookups change between   *)
(* its hops, a request goes to a local address only with the pack's opt-in,  *)
(* credentials go to no origin but the one the plugin named, and a body only *)
(* with the method it was given for; the answer stays under the cap.         *)
FetchConfined ==
  /\ \A r \in sent : /\ "local" \in r.addrs => allow_local
                     /\ r.creds => r.to = fetch.first \/ fetch.pc = "idle"
                     /\ r.body => r.method = "POST"
  /\ fetch.bytes <= MAX_RESPONSE_BYTES /\ fetch.hops <= MAX_REDIRECTS
==============================================================================
