----------------------------- MODULE ProxyServer -----------------------------
(***************************************************************************)
(* The loopback proxy: crates/ffi/src/engine_proxy.rs (the one instance),  *)
(* crates/proxy/src/lib.rs (its server, token gate and routes) and ext.rs  *)
(* (path sessions), with the two services that use it: the app's           *)
(* LocalServerService, which keeps the port and token it was given, and    *)
(* the LAN server, which remounts the routes of the instance it found.     *)
(*                                                                         *)
(* An instance is a number; it is its own port and token.  The app's       *)
(* calls are made one at a time; requests of players may come at any time. *)
(***************************************************************************)
EXTENDS Integers, Sequences, FiniteSets, SequencesExt

CONSTANTS MaxStarts,         \* bound: instances of a run
          MaxExt,            \* bound: path sessions of a run
          MaxClock,          \* bound: time
          MAX_SESSIONS, SESSION_TTL

ASSUME ProxyConstants == {MaxStarts, MaxExt, MaxClock, MAX_SESSIONS, SESSION_TTL} \subseteq Nat \ {0}

VARIABLES instance,    \* PROXY: the instance in the slot; 0: the one never started
          listening,   \* its listen_port is set and its server accepts
          port,        \* PROXY_PORT
          starts,      \* instances made so far
          sessions,    \* of the slot's state, the oldest has the least id: [id, born]
          server,      \* LocalServerService: [port, token]
          mounted,     \* the instance the LAN server remounts, -1: no LAN server
          routes,      \* instances that hold the route the LAN server was given
          lanPlays,    \* a LAN client was given a route's URL
          clock,
          handed,      \* ghost: sessions whose URL a player holds
          refused      \* ghost: a request that should be served was not

proxyVars == <<instance, listening, port, starts, sessions, server, mounted, routes, lanPlays,
               clock, handed, refused>>

ProxyInit ==
  /\ instance = 0 /\ listening = FALSE /\ port = 0 /\ starts = 0 /\ sessions = {}
  /\ server = [port |-> 0, token |-> 0] /\ mounted = -1 /\ routes = {} /\ lanPlays = FALSE
  /\ clock = 0 /\ handed = <<>> /\ refused = FALSE

-----------------------------------------------------------------------------
(* proxy_start: the instance in the slot stops, a fresh one takes its place  *)
(* even if it cannot bind.  bound: the listener was bound.                   *)
proxy_start(bound) ==
  /\ starts < MaxStarts /\ starts' = starts + 1
  /\ instance' = starts + 1 /\ listening' = bound /\ port' = IF bound THEN starts + 1 ELSE 0
  /\ sessions' = {} /\ handed' = <<>>

NoStart == UNCHANGED <<starts, instance, listening, port, sessions, handed>>

LocalServerStart(bound) ==
  /\ server.port = 0 /\ proxy_start(bound)
  /\ server' = IF bound THEN [port |-> port', token |-> instance'] ELSE server
  /\ UNCHANGED <<mounted, routes, lanPlays, clock, refused>>

(* Connections that are open are served to their end. *)
LocalServerStop ==
  /\ server.port > 0 /\ server' = [port |-> 0, token |-> 0]
  /\ listening' = FALSE /\ port' = 0
  /\ UNCHANGED <<instance, starts, sessions, mounted, routes, lanPlays, clock, handed, refused>>

(* lan_server_start starts the proxy if it does not run. *)
StartIfMissing(bound) == IF port = 0 THEN proxy_start(bound) ELSE NoStart

lan_server_start(bound) ==
  /\ mounted = -1 /\ StartIfMissing(bound) /\ mounted' = instance' /\ lanPlays' = FALSE
  /\ UNCHANGED <<server, routes, clock, refused>>

lan_server_stop ==
  /\ mounted # -1 /\ mounted' = -1 /\ lanPlays' = FALSE
  /\ NoStart /\ UNCHANGED <<server, routes, clock, refused>>

-----------------------------------------------------------------------------
(* Path sessions *)

Live == {s \in sessions : clock - s.born < SESSION_TTL}

\* The newest sessions make room.
EvictNewest ==
  {s \in Live : Cardinality({r \in Live : r.id > s.id}) + MAX_SESSIONS > Cardinality(Live)}

(* Sessions past their time go, then the oldest until one more fits. *)
evict_stale ==
  {s \in Live : Cardinality({r \in Live : r.id < s.id}) + MAX_SESSIONS > Cardinality(Live)}

(* create_ext_session: the session is there whether or not its URL is handed *)
(* out.  An app whose server is down asks for no session.                    *)
create_ext_session ==
  LET new == [id |-> Len(handed) + 1, born |-> clock]
  IN  /\ server.port > 0 /\ Len(handed) < MaxExt
      /\ sessions' = evict_stale \cup {new}
      /\ handed' = IF listening THEN Append(handed, new) ELSE handed
      /\ UNCHANGED <<instance, listening, port, starts, server, mounted, routes, lanPlays, clock,
                     refused>>

(* A session the player may still count on: not past its time when the last  *)
(* one was made, and among the MAX_SESSIONS newest.                          *)
Owed(i) == /\ handed[i].born + SESSION_TTL > Last(handed).born
           /\ Len(handed) - i < MAX_SESSIONS

(* ext_proxy_handler: 404 without the session. *)
ext_proxy_handler(i) ==
  /\ listening /\ i \in DOMAIN handed
  /\ refused' = (refused \/ (Owed(i) /\ handed[i] \notin sessions))
  /\ NoStart /\ UNCHANGED <<server, mounted, routes, lanPlays, clock>>

(* require_proxy_token: a request of the app's URLs. *)
require_proxy_token ==
  /\ server.port > 0
  /\ refused' = (refused \/ ~listening \/ server.port # port \/ server.token # instance)
  /\ NoStart /\ UNCHANGED <<server, mounted, routes, lanPlays, clock>>

(* /v1/play registers a route in the state the LAN server remounts, and      *)
(* token_proxy_handler looks it up there.                                    *)
register_route ==
  /\ mounted # -1 /\ ~lanPlays /\ routes' = routes \cup {mounted} /\ lanPlays' = TRUE
  /\ NoStart /\ UNCHANGED <<server, mounted, clock, refused>>

token_proxy_handler ==
  /\ mounted # -1 /\ lanPlays /\ refused' = (refused \/ mounted \notin routes)
  /\ NoStart /\ UNCHANGED <<server, mounted, routes, lanPlays, clock>>

Tick == /\ clock < MaxClock /\ clock' = clock + 1
        /\ NoStart /\ UNCHANGED <<server, mounted, routes, lanPlays, refused>>

-----------------------------------------------------------------------------
ProxyNext ==
  \/ \E bound \in BOOLEAN : LocalServerStart(bound) \/ lan_server_start(bound)
  \/ LocalServerStop \/ lan_server_stop \/ create_ext_session
  \/ \E i \in 1..MaxExt : ext_proxy_handler(i)
  \/ require_proxy_token \/ register_route \/ token_proxy_handler \/ Tick

ProxySpec == ProxyInit /\ [][ProxyNext]_proxyVars

-----------------------------------------------------------------------------
(* Properties *)

(* Every URL the proxy gave away is served as long as its service is on: the *)
(* app's port and token are those of the instance that listens whatever the  *)
(* LAN server started or stopped meanwhile, a path session is there until    *)
(* its time is up or MAX_SESSIONS newer ones took its place, and a LAN route *)
(* is in the state the LAN server looks it up in, though the proxy was       *)
(* restarted under it.                                                       *)
UrlsServed == ~refused
==============================================================================
