----------------------------- MODULE LanPairing -----------------------------
(***************************************************************************)
(* Pairing of LAN clients: the PairingState of crates/lan (pairing.rs), the *)
(* bearer check and the /pair, /revoke and /open handlers that use it      *)
(* (auth.rs, server.rs), and what crates/ffi (engine_lan.rs) persists and   *)
(* restores across server restarts.                                        *)
(*                                                                         *)
(* A worker is a thread in a request handler; Host is the thread of the    *)
(* app's own FFI calls, which come one at a time.  PairingState is behind  *)
(* one mutex, storage behind another: a change of the pairing, the export  *)
(* of the devices and the write of the export are three steps.  Codes,     *)
(* tokens and tickets are random strings, taken to be fresh: they are      *)
(* numbered as they are generated.  Labels and last_seen are left out.     *)
(***************************************************************************)
EXTENDS Naturals

CONSTANTS Devices,    \* device ids of clients
          NoDevice,   \* no device
          Workers,    \* threads that run request handlers
          Host,       \* the thread of the app's own calls
          MaxTokens,  \* bound: device tokens generated
          MaxTickets, \* bound: stream tickets generated
          MaxCodes,   \* bound: pairing codes generated
          WritesFail  \* whether a write of the store's file may fail

ASSUME LanPairingAssumption ==
    /\ NoDevice \notin Devices
    /\ Host \notin Workers
    /\ MaxTokens \in Nat
    /\ MaxTickets \in Nat
    /\ MaxCodes \in Nat
    /\ WritesFail \in BOOLEAN

Tokens == 1..MaxTokens
Tickets == 1..MaxTickets
NoToken == 0
Threads == Workers \cup {Host}

VARIABLES
    running,      \* a LanServer is up
    codes,        \* codes generated; the current one has this number
    codeUsed,     \* current_code.used
    codeExpired,  \* the current code is older than CODE_TTL
    devices,      \* the token of each paired device, or NoToken
    token_index,  \* the device of each live token, or NoDevice
    nextToken,    \* tokens generated so far
    tickets,      \* the device of each live stream ticket, or NoDevice
    nextTicket,   \* tickets generated so far
    overdue,      \* tickets older than STREAM_TICKET_TTL
    stored,       \* lan_paired_devices in the store's map in memory
    saved,        \* lan_paired_devices in the store's file
    failed,       \* the last write failed: the file may be behind (observer)
    pc,           \* where each thread stands
    bearer,       \* the token a handler was admitted with
    gone,         \* the token the thread's call revoked, if any
    snapshot,     \* the devices the thread exported
    turningOff,   \* stopAndClearPairing: devices listed and not yet revoked
    off,          \* "on", "clearing", "off": the LAN addon
    mintedFor,    \* the token each ticket was minted for (observer)
    pairings,     \* tokens issued for each code (observer)
    revoked,      \* tokens whose revocation has returned (observer)
    overlapped    \* the last change began while another was being persisted

memory == <<codes, codeUsed, codeExpired, devices, token_index, nextToken,
            tickets, nextTicket, overdue>>
storage == <<stored, saved, failed>>
observers == <<mintedFor, pairings, revoked, overlapped>>
threads == <<pc, bearer, gone, snapshot>>
lanVars == <<running, memory, storage, threads, turningOff, off, observers>>

Records == [Devices -> Tokens \cup {NoToken}]
NoRecords == [d \in Devices |-> NoToken]

(* A thread is "authed" after the bearer check, "changed" when it changed    *)
(* the devices and has still to export them, "exported" before the write.    *)
Pcs == {"idle", "authed", "changed", "exported"}

CodeTypeOK ==
    /\ codes \in 0..MaxCodes
    /\ codeUsed \in BOOLEAN
    /\ codeExpired \in BOOLEAN

MemoryTypeOK ==
    /\ devices \in Records
    /\ token_index \in [Tokens -> Devices \cup {NoDevice}]
    /\ nextToken \in 0..MaxTokens
    /\ tickets \in [Tickets -> Devices \cup {NoDevice}]
    /\ nextTicket \in 0..MaxTickets
    /\ overdue \subseteq Tickets

ThreadTypeOK ==
    /\ pc \in [Threads -> Pcs]
    /\ bearer \in [Threads -> Tokens \cup {NoToken}]
    /\ gone \in [Threads -> Tokens \cup {NoToken}]
    /\ snapshot \in [Threads -> Records]
    /\ \A w \in Threads : pc[w] = "authed" => bearer[w] # NoToken

LanHostTypeOK ==
    /\ running \in BOOLEAN
    /\ stored \in Records
    /\ saved \in Records
    /\ failed \in BOOLEAN
    /\ turningOff \subseteq Devices
    /\ off \in {"on", "clearing", "off"}

ObserverTypeOK ==
    /\ mintedFor \in [Tickets -> Tokens \cup {NoToken}]
    /\ pairings \in [1..MaxCodes -> Nat]
    /\ revoked \subseteq Tokens
    /\ overlapped \in BOOLEAN

LanTypeOK ==
    /\ CodeTypeOK
    /\ MemoryTypeOK
    /\ ThreadTypeOK
    /\ LanHostTypeOK
    /\ ObserverTypeOK

LanInit ==
    /\ running = FALSE
    /\ codes = 0
    /\ codeUsed = TRUE
    /\ codeExpired = FALSE
    /\ devices = NoRecords
    /\ token_index = [t \in Tokens |-> NoDevice]
    /\ nextToken = 0
    /\ tickets = [t \in Tickets |-> NoDevice]
    /\ nextTicket = 0
    /\ overdue = {}
    /\ stored = NoRecords
    /\ saved = NoRecords
    /\ failed = FALSE
    /\ pc = [w \in Threads |-> "idle"]
    /\ bearer = [w \in Threads |-> NoToken]
    /\ gone = [w \in Threads |-> NoToken]
    /\ snapshot = [w \in Threads |-> NoRecords]
    /\ turningOff = {}
    /\ off = "on"
    /\ mintedFor = [t \in Tickets |-> NoToken]
    /\ pairings = [c \in 1..MaxCodes |-> 0]
    /\ revoked = {}
    /\ overlapped = FALSE

IsIdle(w) == pc[w] = "idle"

\* The call of w returns; what it knew is forgotten.
Leave(w) ==
    /\ pc' = [pc EXCEPT ![w] = "idle"]
    /\ bearer' = [bearer EXCEPT ![w] = NoToken]
    /\ gone' = [gone EXCEPT ![w] = NoToken]
    /\ snapshot' = [snapshot EXCEPT ![w] = NoRecords]

\* No call is between a change of the devices and the write of its export.
Quiet == \A w \in Threads : pc[w] \notin {"changed", "exported"}

-----------------------------------------------------------------------------
(* The server.  A start builds a new PairingState, restores the stored       *)
(* devices into it and mints a code; a stop or a crash drops it.             *)

restore_devices(records) ==
    /\ devices' = records
    /\ token_index' = [t \in Tokens |->
          IF \E d \in Devices : records[d] = t
          THEN CHOOSE d \in Devices : records[d] = t
          ELSE NoDevice]

NewCode ==
    /\ codes < MaxCodes
    /\ codes' = codes + 1
    /\ codeUsed' = FALSE
    /\ codeExpired' = FALSE

lan_server_start ==
    /\ ~running
    /\ IsIdle(Host)
    /\ off # "clearing"
    /\ running' = TRUE
    /\ off' = "on"
    /\ restore_devices(stored)
    /\ NewCode
    /\ overlapped' = FALSE
    /\ UNCHANGED <<nextToken, tickets, nextTicket, overdue, storage, threads,
                   turningOff, mintedFor, pairings, revoked>>

DropState ==
    /\ running' = FALSE
    /\ devices' = NoRecords
    /\ token_index' = [t \in Tokens |-> NoDevice]
    /\ tickets' = [t \in Tickets |-> NoDevice]
    /\ overdue' = {}
    /\ codeUsed' = TRUE
    /\ codeExpired' = FALSE
    /\ UNCHANGED <<codes, nextToken, nextTicket, observers>>

\* stop waits for the handlers to drain; it is taken to succeed in its 1.5 s.
lan_server_stop ==
    /\ running
    /\ off = "on"
    /\ \A w \in Threads : IsIdle(w)
    /\ DropState
    /\ UNCHANGED <<storage, threads, turningOff, off>>

(* The process dies, the server up or down: handlers die with it wherever    *)
(* they stand, and the store is read from its file again.                    *)
Crash ==
    /\ DropState
    /\ stored' = saved
    /\ failed' = FALSE
    /\ UNCHANGED saved
    /\ pc' = [w \in Threads |-> "idle"]
    /\ bearer' = [w \in Threads |-> NoToken]
    /\ gone' = [w \in Threads |-> NoToken]
    /\ snapshot' = [w \in Threads |-> NoRecords]
    /\ turningOff' = {}
    /\ off' = IF off = "clearing" THEN "on" ELSE off

-----------------------------------------------------------------------------
\* Codes.

refresh_code ==
    /\ running
    /\ IsIdle(Host)
    /\ NewCode
    /\ UNCHANGED <<running, devices, token_index, nextToken, tickets, nextTicket,
                   overdue, storage, threads, turningOff, off, observers>>

CodeExpires ==
    /\ running
    /\ ~codeExpired
    /\ codeExpired' = TRUE
    /\ UNCHANGED <<running, codes, codeUsed, devices, token_index, nextToken,
                   tickets, nextTicket, overdue, storage, threads, turningOff, off,
                   observers>>

-----------------------------------------------------------------------------
(* Changes of the pairing, each under its lock.                              *)

\* The index with the old token of d left in.
KeepTokenOf(d) == token_index

WithoutTokenOf(d) ==
    [t \in Tokens |-> IF t = devices[d] THEN NoDevice ELSE token_index[t]]

\* The tickets with those of d left in.
KeepTicketsOf(d) == tickets

\* The tickets of d emptied and not removed.
EmptyTicketsOf(d) ==
    [t \in Tickets |-> IF tickets[t] = d THEN NoToken ELSE tickets[t]]

WithoutTicketsOf(d) ==
    [t \in Tickets |-> IF tickets[t] = d THEN NoDevice ELSE tickets[t]]

\* Thread w has changed the devices; token is the one it revoked, if any.
Changed(w, token) ==
    /\ pc' = [pc EXCEPT ![w] = "changed"]
    /\ gone' = [gone EXCEPT ![w] = token]
    /\ UNCHANGED <<bearer, snapshot>>
    /\ overlapped' = ~Quiet

CodeAccepted == ~codeUsed /\ ~codeExpired

\* The code stays good after a pair.
KeepCode == UNCHANGED codeUsed

UseCode == codeUsed' = TRUE

\* /pair with the current code; any other code or state is an early return.
pair(w, d) ==
    /\ running
    /\ IsIdle(w)
    /\ CodeAccepted
    /\ nextToken < MaxTokens
    /\ nextToken' = nextToken + 1
    /\ token_index' = [WithoutTokenOf(d) EXCEPT ![nextToken'] = d]
    /\ tickets' = IF devices[d] = NoToken THEN tickets ELSE WithoutTicketsOf(d)
    /\ devices' = [devices EXCEPT ![d] = nextToken']
    /\ UseCode
    /\ pairings' = [pairings EXCEPT ![codes] = @ + 1]
    /\ Changed(w, NoToken)
    /\ UNCHANGED <<running, codes, codeExpired, nextTicket, overdue, storage,
                   turningOff, off, mintedFor, revoked>>

revoke_device(d) ==
    /\ devices[d] # NoToken
    /\ token_index' = WithoutTokenOf(d)
    /\ tickets' = WithoutTicketsOf(d)
    /\ devices' = [devices EXCEPT ![d] = NoToken]
    /\ UNCHANGED <<running, codes, codeUsed, codeExpired, nextToken, nextTicket,
                   overdue, storage, mintedFor, pairings, revoked>>

\* require_bearer_token: the token is valid when it is checked.
validate_token(w, t) ==
    /\ running
    /\ IsIdle(w)
    /\ token_index[t] # NoDevice
    /\ pc' = [pc EXCEPT ![w] = "authed"]
    /\ bearer' = [bearer EXCEPT ![w] = t]
    /\ UNCHANGED <<running, memory, storage, gone, snapshot, turningOff, off,
                   observers>>

revoke_handler(w, d) ==
    /\ pc[w] = "authed"
    /\ \/ /\ revoke_device(d)
          /\ Changed(w, devices[d])
       \/ /\ devices[d] = NoToken
          /\ Leave(w)
          /\ UNCHANGED <<running, memory, storage, observers>>
    /\ UNCHANGED <<turningOff, off>>

lan_revoke_device(d) ==
    /\ running
    /\ IsIdle(Host)
    /\ off = "on"
    /\ revoke_device(d)
    /\ Changed(Host, devices[d])
    /\ UNCHANGED <<turningOff, off>>

-----------------------------------------------------------------------------
(* Stream tickets.  /open mints one after it has received its body: the      *)
(* bearer it was admitted with may have been revoked or replaced by then.    *)

mint_stream_ticket(w) ==
    /\ pc[w] = "authed"
    /\ \/ /\ token_index[bearer[w]] # NoDevice
          /\ nextTicket < MaxTickets
          /\ nextTicket' = nextTicket + 1
          /\ tickets' = [tickets EXCEPT
                           ![nextTicket'] = token_index[bearer[w]]]
          /\ mintedFor' = [mintedFor EXCEPT ![nextTicket'] = bearer[w]]
       \/ /\ token_index[bearer[w]] = NoDevice
          /\ UNCHANGED <<tickets, nextTicket, mintedFor>>
    /\ Leave(w)
    /\ UNCHANGED <<running, codes, codeUsed, codeExpired, devices, token_index,
                   nextToken, overdue, storage, turningOff, off, pairings,
                   revoked, overlapped>>

TicketExpires(t) ==
    /\ tickets[t] # NoDevice
    /\ t \notin overdue
    /\ overdue' = overdue \cup {t}
    /\ UNCHANGED <<running, codes, codeUsed, codeExpired, devices, token_index,
                   nextToken, tickets, nextTicket, storage, threads, turningOff,
                   off, observers>>

\* A media GET with an overdue ticket removes it.
validate_stream_ticket(t) ==
    /\ running
    /\ tickets[t] # NoDevice
    /\ t \in overdue
    /\ tickets' = [tickets EXCEPT ![t] = NoDevice]
    /\ UNCHANGED <<running, codes, codeUsed, codeExpired, devices, token_index,
                   nextToken, nextTicket, overdue, storage, threads, turningOff,
                   off, observers>>

-----------------------------------------------------------------------------
(* persist_paired_devices: export under the pairing lock, then write.  The   *)
(* write changes the store's map in memory, then flushes the whole map to    *)
(* the file; a flush that fails leaves the file as it was, and nobody looks  *)
(* at the error.                                                             *)

export_devices(w) ==
    /\ pc[w] = "changed"
    /\ pc' = [pc EXCEPT ![w] = "exported"]
    /\ snapshot' = [snapshot EXCEPT ![w] = devices]
    /\ UNCHANGED <<running, memory, storage, bearer, gone, turningOff, off,
                   observers>>

\* A set that changes memory alone.
NoFlush == UNCHANGED saved /\ failed' = FALSE

flush ==
    \/ saved' = stored' /\ failed' = FALSE
    \/ WritesFail /\ UNCHANGED saved /\ failed' = TRUE

persist_paired_devices(w) ==
    /\ pc[w] = "exported"
    /\ stored' = snapshot[w]
    /\ flush
    /\ revoked' = revoked \cup ({gone[w]} \ {NoToken})
    /\ Leave(w)
    /\ UNCHANGED <<running, memory, turningOff, off, mintedFor, pairings,
                   overlapped>>

\* A set of any other key writes the file, with the devices in memory.
SetOther ==
    /\ failed
    /\ saved' = stored
    /\ failed' = FALSE
    /\ UNCHANGED stored
    /\ UNCHANGED <<running, memory, threads, turningOff, off, observers>>

-----------------------------------------------------------------------------
(* stopAndClearPairing of the host: list the devices of the running server,  *)
(* revoke them one by one, stop.  With no server running the list is empty.  *)

StartClearing ==
    /\ IsIdle(Host)
    /\ off = "on"
    /\ off' = "clearing"
    /\ turningOff' = {d \in Devices : devices[d] # NoToken}
    /\ UNCHANGED <<running, memory, storage, threads, observers>>

ClearDevice(d) ==
    /\ off = "clearing"
    /\ d \in turningOff
    /\ IsIdle(Host)
    /\ turningOff' = turningOff \ {d}
    /\ \/ /\ revoke_device(d)
          /\ Changed(Host, devices[d])
       \/ /\ devices[d] = NoToken
          /\ UNCHANGED <<running, memory, storage, threads, observers>>
    /\ UNCHANGED off

FinishClearing ==
    /\ off = "clearing"
    /\ turningOff = {}
    /\ \A w \in Threads : IsIdle(w)
    /\ off' = "off"
    /\ DropState
    /\ UNCHANGED <<storage, threads, turningOff>>

-----------------------------------------------------------------------------
Server ==
    \/ lan_server_start
    \/ lan_server_stop
    \/ Crash
    \/ SetOther
    \/ refresh_code
    \/ CodeExpires
    \/ StartClearing
    \/ FinishClearing

Handler(w) ==
    \/ \E d \in Devices : pair(w, d) \/ revoke_handler(w, d)
    \/ \E t \in Tokens : validate_token(w, t)
    \/ mint_stream_ticket(w)

Persist(w) == export_devices(w) \/ persist_paired_devices(w)

LanNext ==
    \/ Server
    \/ \E d \in Devices : lan_revoke_device(d) \/ ClearDevice(d)
    \/ \E w \in Workers : Handler(w)
    \/ \E w \in Threads : Persist(w)
    \/ \E t \in Tickets : TicketExpires(t) \/ validate_stream_ticket(t)

LanSpec == LanInit /\ [][LanNext]_lanVars

-----------------------------------------------------------------------------
(* The token index is the inverse of the device map (pairing.rs:40-41): a    *)
(* bearer is accepted exactly when it is the current token of its device.    *)
IndexInvertsDevices ==
    \A t \in Tokens, d \in Devices : token_index[t] = d <=> devices[d] = t

(* A live stream ticket belongs to a device that is paired with the very     *)
(* token it was minted for: revoking or re-pairing a device voids its        *)
(* tickets, also those minted by an /open that was admitted before           *)
(* (pairing.rs:119, :178, :265).                                             *)
TicketsOfCurrentTokens ==
    \A t \in Tickets :
        tickets[t] # NoDevice =>
            /\ mintedFor[t] # NoToken
            /\ devices[tickets[t]] = mintedFor[t]

(* A pairing code issues at most one token, across concurrent /pair requests *)
(* and refreshes ("code rejected on reuse", test pair_once_rejects_reuse).   *)
CodePairsOnce == \A c \in 1..MaxCodes : pairings[c] <= 1

(* With no call in flight the store holds the paired devices, so a restart   *)
(* of the server changes nothing, and its file holds them too, so a restart  *)
(* of the process changes nothing either.  Not promised, for the code does   *)
(* neither: after a change that began while another was being persisted      *)
(* (overlapping writes are not ordered, engine_lan.rs:227; a change on its   *)
(* own repairs what overlap left), and of the file while the last write has  *)
(* failed (the error is dropped, engine_lan.rs:230; the next write repairs   *)
(* it).                                                                      *)
DurableUnlessOverlapped ==
    (running /\ Quiet /\ ~overlapped) =>
        /\ stored = devices
        /\ ~failed => saved = devices

(* Once the revocation of a token has returned the token is never accepted   *)
(* again, also after a restart (RFC-022 R22-A05: "Revoking a device forces   *)
(* re-pairing").  Two overlapping calls may write their exports in the other *)
(* order, and a restart then restores the revoked token.                     *)
RevokedStaysOut == \A t \in revoked : token_index[t] = NoDevice

(* Turning LAN off leaves no device in storage (docs lan.md:19: "stops the   *)
(* server and revokes all paired devices").  With the server down there is   *)
(* no device to list, and nothing is revoked.                                *)
LanOffRevokesAll == off = "off" => stored = NoRecords
=============================================================================
