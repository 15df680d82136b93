-------------------------- MODULE LanPairingProofs --------------------------
(***************************************************************************)
(* Theorems about LanPairing for any devices, any number of handlers and   *)
(* any bounds.  The inductive invariants say besides the properties that   *)
(* every record (in memory, in an export or in storage) names each token   *)
(* once and only tokens already generated, which is what makes a restore   *)
(* and a fresh token keep the index exact; and that a code counts no       *)
(* pairing before it is used.                                              *)
(***************************************************************************)
EXTENDS LanPairing, TLAPS

\* Records give no two devices one token, and no token after the n-th.
Sound(records, n) ==
    /\ \A d, e \in Devices :
          records[d] = records[e] /\ records[d] # NoToken => d = e
    /\ \A d \in Devices : records[d] <= n

RecordsSound ==
    /\ Sound(devices, nextToken)
    /\ Sound(stored, nextToken)
    /\ Sound(saved, nextToken)
    /\ \A w \in Threads : Sound(snapshot[w], nextToken)

IndexInv == LanTypeOK /\ RecordsSound /\ IndexInvertsDevices

CodeInv ==
    /\ CodePairsOnce
    /\ \A c \in 1..MaxCodes : c > codes => pairings[c] = 0
    /\ ~codeUsed => codes # 0 /\ pairings[codes] = 0

Mid(w) == pc[w] \in {"changed", "exported"}

\* With the server down nothing is paired and no call is under way.
DownInv ==
    ~running => /\ \A w \in Threads : IsIdle(w)
                /\ devices = NoRecords
                /\ \A t \in Tickets : tickets[t] = NoDevice

\* DurableUnlessOverlapped makes its promise.
Watched == running /\ ~overlapped

\* The file is behind only while the last write has failed.
FileInv == ~failed => saved = stored

DurableInv ==
    Watched =>
        /\ Quiet => stored = devices
        /\ \A v, w \in Threads : Mid(v) /\ Mid(w) => v = w
        /\ \A w \in Threads : pc[w] = "exported" => snapshot[w] = devices

USE DEF storage

-----------------------------------------------------------------------------
\* Empty records are records.
LEMMA NoRecordsFact == NoRecords \in Records
BY DEF NoRecords, Records

\* NoToken is no token.
LEMMA NoTokenFact == NoToken \notin Tokens
BY LanPairingAssumption DEF NoToken, Tokens

\* What a restore builds is an index.
LEMMA RestoreIndex ==
    ASSUME NEW records
    PROVE  [t \in Tokens |->
              IF \E d \in Devices : records[d] = t
              THEN CHOOSE d \in Devices : records[d] = t
              ELSE NoDevice] \in [Tokens -> Devices \cup {NoDevice}]
<1>1. ASSUME NEW t \in Tokens, \E d \in Devices : records[d] = t
      PROVE  (CHOOSE d \in Devices : records[d] = t) \in Devices
  BY <1>1
<1> QED
  BY <1>1

\* The initial state satisfies every part of the invariants.
LEMMA InitAll ==
    LanInit => IndexInv /\ TicketsOfCurrentTokens /\ CodeInv /\ DownInv /\ FileInv
            /\ DurableInv
<1> SUFFICES ASSUME LanInit
             PROVE IndexInv /\ TicketsOfCurrentTokens /\ CodeInv /\ DownInv
                            /\ FileInv /\ DurableInv
  OBVIOUS
<1> USE LanPairingAssumption DEF LanInit
<1>1. LanTypeOK
  <2>1. CodeTypeOK
    <3>1. codes \in 0..MaxCodes
      OBVIOUS
    <3>2. codeUsed \in BOOLEAN /\ codeExpired \in BOOLEAN
      BY Zenon
    <3> QED
      BY <3>1, <3>2 DEF CodeTypeOK
  <2>2. MemoryTypeOK
    <3>1. 0 \in 0..MaxTokens /\ 0 \in 0..MaxTickets
      OBVIOUS
    <3> QED
      BY <3>1, NoRecordsFact DEF MemoryTypeOK
  <2>3. ThreadTypeOK
    BY NoRecordsFact DEF ThreadTypeOK, Pcs
  <2>4. LanHostTypeOK
    BY NoRecordsFact DEF LanHostTypeOK
  <2>5. ObserverTypeOK
    BY DEF ObserverTypeOK
  <2> QED
    BY <2>1, <2>2, <2>3, <2>4, <2>5 DEF LanTypeOK
<1>2. RecordsSound
  BY DEF RecordsSound, Sound, NoRecords, NoToken
<1>3. IndexInvertsDevices
  BY NoTokenFact DEF IndexInvertsDevices, NoRecords
<1>4. TicketsOfCurrentTokens
  BY DEF TicketsOfCurrentTokens
<1>5. CodeInv
  BY DEF CodeInv, CodePairsOnce
<1>6. DownInv /\ FileInv /\ DurableInv
  BY DEF DownInv, FileInv, DurableInv, IsIdle, Quiet, Mid
<1> QED
  BY <1>1, <1>2, <1>3, <1>4, <1>5, <1>6 DEF IndexInv

\* The change of one thread's state keeps the types of all.
LEMMA ThreadSteps ==
    ASSUME LanTypeOK, NEW w \in Threads
    PROVE  /\ Leave(w) => ThreadTypeOK'
           /\ \A t \in Tokens \cup {NoToken} :
                 Changed(w, t) => ThreadTypeOK' /\ overlapped' \in BOOLEAN
<1>1. ASSUME Leave(w) PROVE ThreadTypeOK'
  BY <1>1, NoRecordsFact DEF Leave, LanTypeOK, ThreadTypeOK, Pcs
<1>2. ASSUME NEW t \in Tokens \cup {NoToken}, Changed(w, t)
      PROVE  ThreadTypeOK' /\ overlapped' \in BOOLEAN
  BY <1>2 DEF Changed, LanTypeOK, ThreadTypeOK, Pcs, Quiet
<1> QED
  BY <1>1, <1>2

\* Removing a device from the pairing keeps the types of memory.
LEMMA RemovalTypes ==
    ASSUME LanTypeOK, NEW d \in Devices
    PROVE  /\ WithoutTokenOf(d) \in [Tokens -> Devices \cup {NoDevice}]
           /\ WithoutTicketsOf(d) \in [Tickets -> Devices \cup {NoDevice}]
           /\ devices[d] \in Tokens \cup {NoToken}
           /\ [devices EXCEPT ![d] = NoToken] \in Records
BY DEF LanTypeOK, MemoryTypeOK, WithoutTokenOf, WithoutTicketsOf, Records

\* revoke_device keeps the types of everything but the thread's own state.
LEMMA RevokeTypes ==
    ASSUME LanTypeOK, NEW d \in Devices, revoke_device(d)
    PROVE  CodeTypeOK' /\ MemoryTypeOK' /\ running' \in BOOLEAN
           /\ stored' \in Records /\ saved' \in Records /\ failed' \in BOOLEAN
           /\ (ObserverTypeOK' \/ overlapped' \notin BOOLEAN)
<1>1. CodeTypeOK'
  BY DEF LanTypeOK, CodeTypeOK, revoke_device
<1>2. MemoryTypeOK'
  BY RemovalTypes DEF LanTypeOK, MemoryTypeOK, revoke_device
<1>3. running' \in BOOLEAN /\ stored' \in Records /\ saved' \in Records
      /\ failed' \in BOOLEAN
  BY DEF LanTypeOK, LanHostTypeOK, revoke_device
<1>4. ObserverTypeOK' \/ overlapped' \notin BOOLEAN
  BY DEF LanTypeOK, ObserverTypeOK, revoke_device
<1> QED
  BY <1>1, <1>2, <1>3, <1>4

\* A new code keeps the type of the code.
LEMMA NewCodeTypes == LanTypeOK /\ NewCode => CodeTypeOK'
<1> SUFFICES ASSUME LanTypeOK, NewCode PROVE CodeTypeOK'
  OBVIOUS
<1>1. codes' \in 0..MaxCodes
  BY LanPairingAssumption DEF LanTypeOK, CodeTypeOK, NewCode
<1>2. codeUsed' \in BOOLEAN /\ codeExpired' \in BOOLEAN
  BY Zenon DEF NewCode
<1> QED
  BY <1>1, <1>2 DEF CodeTypeOK

\* Every step keeps the types.
LEMMA NextTypeOK == LanTypeOK /\ [LanNext]_lanVars => LanTypeOK'
<1> SUFFICES ASSUME LanTypeOK, [LanNext]_lanVars PROVE LanTypeOK'
  OBVIOUS
<1> USE LanPairingAssumption DEF memory, observers, threads

<1>1. CASE UNCHANGED lanVars
  BY <1>1 DEF lanVars, LanTypeOK, CodeTypeOK, MemoryTypeOK, ThreadTypeOK, LanHostTypeOK,
              ObserverTypeOK, Quiet
<1>2. CASE Server
  <2>1. CASE lan_server_start
    <3>1. MemoryTypeOK'
      BY <2>1, RestoreIndex DEF lan_server_start, restore_devices, LanTypeOK,
                                MemoryTypeOK, LanHostTypeOK
    <3>2. CodeTypeOK'
      BY <2>1, NewCodeTypes DEF lan_server_start
    <3>3. ThreadTypeOK' /\ LanHostTypeOK' /\ ObserverTypeOK'
      BY <2>1 DEF lan_server_start, LanTypeOK, ThreadTypeOK, LanHostTypeOK, ObserverTypeOK
    <3> QED
      BY <3>1, <3>2, <3>3 DEF LanTypeOK
  <2>2. ASSUME DropState PROVE CodeTypeOK' /\ MemoryTypeOK' /\ ObserverTypeOK'
                               /\ running' \in BOOLEAN
    BY <2>2, NoRecordsFact DEF DropState, LanTypeOK, CodeTypeOK, MemoryTypeOK,
                               LanHostTypeOK, ObserverTypeOK
  <2>3. CASE lan_server_stop
    BY <2>2, <2>3 DEF lan_server_stop, LanTypeOK, ThreadTypeOK, LanHostTypeOK
  <2>4. CASE Crash
    <3>1. ThreadTypeOK'
      BY <2>4, NoRecordsFact DEF Crash, ThreadTypeOK, Pcs
    <3>2. LanHostTypeOK'
      BY <2>2, <2>4 DEF Crash, LanHostTypeOK, LanTypeOK
    <3> QED
      BY <2>2, <2>4, <3>1, <3>2 DEF Crash, LanTypeOK
  <2>5. CASE refresh_code
    BY <2>5, NewCodeTypes DEF refresh_code, LanTypeOK, MemoryTypeOK, ThreadTypeOK,
                              LanHostTypeOK, ObserverTypeOK
  <2>6. CASE CodeExpires
    BY <2>6 DEF CodeExpires, LanTypeOK, CodeTypeOK, MemoryTypeOK, ThreadTypeOK,
                LanHostTypeOK, ObserverTypeOK
  <2>7. CASE StartClearing
    BY <2>7 DEF StartClearing, LanTypeOK, CodeTypeOK, MemoryTypeOK, ThreadTypeOK,
                LanHostTypeOK, ObserverTypeOK
  <2>8. CASE FinishClearing
    BY <2>2, <2>8 DEF FinishClearing, LanTypeOK, ThreadTypeOK, LanHostTypeOK
  <2>9. CASE SetOther
    BY <2>9 DEF SetOther, LanTypeOK, CodeTypeOK, MemoryTypeOK, ThreadTypeOK,
                LanHostTypeOK, ObserverTypeOK
  <2> QED
    BY <1>2, <2>1, <2>3, <2>4, <2>5, <2>6, <2>7, <2>8, <2>9 DEF Server
<1>3. ASSUME NEW d \in Devices, NEW w \in Threads,
             revoke_device(d), Changed(w, devices[d]),
             turningOff' \subseteq Devices, UNCHANGED off
      PROVE  LanTypeOK'
  <2>1. devices[d] \in Tokens \cup {NoToken}
    BY RemovalTypes
  <2>2. ThreadTypeOK' /\ overlapped' \in BOOLEAN
    BY <1>3, <2>1, ThreadSteps
  <2>3. LanHostTypeOK'
    BY <1>3, RevokeTypes DEF LanTypeOK, LanHostTypeOK
  <2> QED
    BY <1>3, <2>2, <2>3, RevokeTypes DEF LanTypeOK
<1>4. ASSUME NEW d \in Devices, lan_revoke_device(d) \/ ClearDevice(d)
      PROVE LanTypeOK'
  <2>1. Host \in Threads
    BY DEF Threads
  <2>2. CASE lan_revoke_device(d)
    BY <1>3, <2>1, <2>2 DEF lan_revoke_device, LanTypeOK, LanHostTypeOK
  <2>3. CASE ClearDevice(d) /\ revoke_device(d) /\ Changed(Host, devices[d])
    BY <1>3, <2>1, <2>3 DEF ClearDevice, LanTypeOK, LanHostTypeOK
  <2>4. CASE ClearDevice(d) /\ UNCHANGED <<running, memory, storage, threads, observers>>
    BY <2>4 DEF ClearDevice, LanTypeOK, CodeTypeOK, MemoryTypeOK, ThreadTypeOK,
                LanHostTypeOK, ObserverTypeOK
  <2> QED
    BY <1>4, <2>2, <2>3, <2>4 DEF ClearDevice
<1>5. ASSUME NEW w \in Workers, Handler(w) PROVE LanTypeOK'
  <2>1. w \in Threads
    BY DEF Threads
  <2>2. ASSUME NEW d \in Devices, pair(w, d) PROVE LanTypeOK'
    <3>1. nextToken + 1 \in Tokens /\ nextToken' = nextToken + 1
      BY <2>2 DEF pair, LanTypeOK, MemoryTypeOK, Tokens
    <3>2. ThreadTypeOK' /\ overlapped' \in BOOLEAN
      BY <2>1, <2>2, ThreadSteps DEF pair
    <3>3. MemoryTypeOK'
      <4>1. devices' \in Records
        BY <2>2, <3>1 DEF pair, LanTypeOK, MemoryTypeOK, Records
      <4>2. token_index' \in [Tokens -> Devices \cup {NoDevice}]
        BY <2>2, <3>1, RemovalTypes DEF pair
      <4>3. tickets' \in [Tickets -> Devices \cup {NoDevice}]
        BY <2>2, RemovalTypes DEF pair, LanTypeOK, MemoryTypeOK
      <4> QED
        BY <2>2, <4>1, <4>2, <4>3 DEF pair, LanTypeOK, MemoryTypeOK
    <3>4. CodeTypeOK' /\ LanHostTypeOK'
      BY <2>2 DEF pair, UseCode, LanTypeOK, CodeTypeOK, LanHostTypeOK
    <3>5. ObserverTypeOK'
      <4>1. pairings' \in [1..MaxCodes -> Nat]
        <5>1. pairings' = [pairings EXCEPT ![codes] = @ + 1]
          BY <2>2 DEF pair
        <5>2. pairings \in [1..MaxCodes -> Nat]
          BY DEF LanTypeOK, ObserverTypeOK
        <5>3. \A c \in 1..MaxCodes :
                pairings'[c] = IF c = codes THEN pairings[c] + 1 ELSE pairings[c]
          BY <5>1, <5>2
        <5>4. \A c \in 1..MaxCodes : pairings'[c] \in Nat
          BY <5>2, <5>3
        <5>5. pairings' = [c \in 1..MaxCodes |-> pairings'[c]]
          BY <5>1, <5>2
        <5> QED
          BY <5>4, <5>5
      <4> QED
        BY <2>2, <3>2, <4>1 DEF pair, LanTypeOK, ObserverTypeOK
    <3> QED
      BY <3>2, <3>3, <3>4, <3>5 DEF LanTypeOK
  <2>3. ASSUME NEW d \in Devices, revoke_handler(w, d) PROVE LanTypeOK'
    <3>1. CASE revoke_device(d) /\ Changed(w, devices[d])
      BY <1>3, <2>1, <2>3, <3>1 DEF revoke_handler, LanTypeOK, LanHostTypeOK
    <3>2. CASE Leave(w) /\ UNCHANGED <<running, memory, storage, observers>>
      BY <2>1, <2>3, <3>2, ThreadSteps
         DEF revoke_handler, LanTypeOK, CodeTypeOK, MemoryTypeOK, LanHostTypeOK,
             ObserverTypeOK
    <3> QED
      BY <2>3, <3>1, <3>2 DEF revoke_handler
  <2>4. ASSUME NEW t \in Tokens, validate_token(w, t) PROVE LanTypeOK'
    BY <2>1, <2>4, NoTokenFact
       DEF validate_token, LanTypeOK, CodeTypeOK, MemoryTypeOK,
                      ThreadTypeOK, LanHostTypeOK, ObserverTypeOK, Pcs
  <2>5. CASE mint_stream_ticket(w)
    <3>1. ThreadTypeOK'
      BY <2>1, <2>5, ThreadSteps DEF mint_stream_ticket
    <3>2. CodeTypeOK' /\ LanHostTypeOK'
      BY <2>5 DEF mint_stream_ticket, LanTypeOK, CodeTypeOK, LanHostTypeOK
    <3>3. CASE UNCHANGED <<tickets, nextTicket, mintedFor>>
      BY <2>5, <3>1, <3>2, <3>3 DEF mint_stream_ticket, LanTypeOK, MemoryTypeOK,
                                    ObserverTypeOK
    <3>4. CASE /\ token_index[bearer[w]] # NoDevice
               /\ nextTicket < MaxTickets
               /\ nextTicket' = nextTicket + 1
               /\ tickets' = [tickets EXCEPT ![nextTicket'] = token_index[bearer[w]]]
               /\ mintedFor' = [mintedFor EXCEPT ![nextTicket'] = bearer[w]]
      <4>1. nextTicket' \in Tickets
        BY <3>4 DEF LanTypeOK, MemoryTypeOK, Tickets
      <4>2. bearer[w] \in Tokens \cup {NoToken}
        BY <2>1 DEF LanTypeOK, ThreadTypeOK
      <4>3. bearer[w] \in Tokens
        BY <2>1, <2>5, <4>2 DEF mint_stream_ticket, LanTypeOK, ThreadTypeOK
      <4>4. ObserverTypeOK'
        BY <2>5, <3>4, <4>1, <4>2 DEF mint_stream_ticket, LanTypeOK, ObserverTypeOK
      <4>5. MemoryTypeOK'
        <5>1. token_index[bearer[w]] \in Devices \cup {NoDevice}
          BY <4>3 DEF LanTypeOK, MemoryTypeOK
        <5>2. nextTicket' \in 0..MaxTickets
          BY <4>1 DEF Tickets
        <5> QED
          BY <2>5, <3>4, <4>1, <5>1, <5>2 DEF mint_stream_ticket, LanTypeOK, MemoryTypeOK
      <4> QED
        BY <3>1, <3>2, <4>4, <4>5 DEF LanTypeOK
    <3> QED
      BY <2>5, <3>3, <3>4 DEF mint_stream_ticket
  <2> QED
    BY <1>5, <2>2, <2>3, <2>4, <2>5 DEF Handler
<1>6. ASSUME NEW w \in Threads, Persist(w) PROVE LanTypeOK'
  <2>1. CASE export_devices(w)
    BY <2>1 DEF export_devices, LanTypeOK, CodeTypeOK, MemoryTypeOK, ThreadTypeOK,
                LanHostTypeOK, ObserverTypeOK, Pcs
  <2>2. CASE persist_paired_devices(w)
    <3>1. ThreadTypeOK'
      BY <2>2, ThreadSteps DEF persist_paired_devices
    <3>2. LanHostTypeOK' /\ ObserverTypeOK'
      BY <2>2 DEF persist_paired_devices, flush, LanTypeOK, LanHostTypeOK, ThreadTypeOK,
                  ObserverTypeOK
    <3> QED
      BY <2>2, <3>1, <3>2 DEF persist_paired_devices, LanTypeOK, CodeTypeOK, MemoryTypeOK
  <2> QED
    BY <1>6, <2>1, <2>2 DEF Persist
<1>7. ASSUME NEW t \in Tickets, TicketExpires(t) \/ validate_stream_ticket(t)
      PROVE LanTypeOK'
  BY <1>7 DEF TicketExpires, validate_stream_ticket, LanTypeOK, CodeTypeOK,
              MemoryTypeOK, ThreadTypeOK, LanHostTypeOK, ObserverTypeOK
<1> QED
  BY <1>1, <1>2, <1>4, <1>5, <1>6, <1>7 DEF LanNext

(* LanTypeOK holds of every reachable state of the pairing, whatever the number *)
(* of handlers.                                                              *)
THEOREM TypeCorrect == LanSpec => []LanTypeOK
<1>1. LanInit => LanTypeOK
  BY InitAll DEF IndexInv
<1> QED
  BY <1>1, NextTypeOK, PTL DEF LanSpec

-----------------------------------------------------------------------------
\* Empty records are sound.
LEMMA NoRecordsSound == \A n \in Nat : Sound(NoRecords, n)
BY DEF Sound, NoRecords, NoToken

\* The index that a restore builds from sound records is their inverse.
LEMMA RestoreInverts ==
    ASSUME NEW records, NEW n \in Nat, Sound(records, n), restore_devices(records)
    PROVE  IndexInvertsDevices'
<1> SUFFICES ASSUME NEW t \in Tokens, NEW d \in Devices
             PROVE  token_index'[t] = d <=> records[d] = t
  BY DEF IndexInvertsDevices, restore_devices
<1>1. t # NoToken /\ NoDevice \notin Devices
  BY NoTokenFact, LanPairingAssumption
<1>2. CASE \E e \in Devices : records[e] = t
  <2>1. PICK e \in Devices : e = CHOOSE x \in Devices : records[x] = t
    BY <1>2
  <2>2. records[e] = t
    BY <1>2, <2>1
  <2>3. token_index'[t] = e
    BY <1>2, <2>1 DEF restore_devices
  <2> QED
    BY <1>1, <2>2, <2>3 DEF Sound
<1>3. CASE ~\E e \in Devices : records[e] = t
  BY <1>1, <1>3 DEF restore_devices
<1> QED
  BY <1>2, <1>3

\* Every step keeps the records sound and the index exact.
LEMMA NextIndexInv == IndexInv /\ [LanNext]_lanVars => IndexInv'
<1> SUFFICES ASSUME IndexInv, [LanNext]_lanVars PROVE IndexInv'
  OBVIOUS
<1>1. LanTypeOK /\ LanTypeOK' /\ RecordsSound /\ IndexInvertsDevices
  BY NextTypeOK DEF IndexInv
<1>2. nextToken \in Nat
  BY <1>1, LanPairingAssumption DEF LanTypeOK, MemoryTypeOK
<1>3. Sound(NoRecords, nextToken)
  BY <1>2, NoRecordsSound
<1> DEFINE Exports == \A w \in Threads :
                        snapshot'[w] \in {snapshot[w], devices, NoRecords}
<1> DEFINE OfStore(records) == \/ records \in {stored, saved}
                               \/ \E w \in Threads : records = snapshot[w]
<1>4. ASSUME Exports, nextToken' = nextToken, OfStore(stored'), OfStore(saved'),
             Sound(devices', nextToken), IndexInvertsDevices'
      PROVE  IndexInv'
  <2>1. \A w \in Threads : Sound(snapshot'[w], nextToken)
    BY <1>1, <1>3, <1>4 DEF RecordsSound
  <2>2. Sound(stored', nextToken) /\ Sound(saved', nextToken)
    BY <1>1, <1>4 DEF RecordsSound
  <2> QED
    BY <1>1, <1>4, <2>1, <2>2 DEF RecordsSound, IndexInv
<1>5. ASSUME Exports, UNCHANGED <<devices, token_index, nextToken>>,
             OfStore(stored'), OfStore(saved')
      PROVE  IndexInv'
  BY <1>1, <1>4, <1>5 DEF RecordsSound, IndexInvertsDevices
<1>6. ASSUME NEW w \in Threads, Leave(w) PROVE Exports
  BY <1>1, <1>6 DEF Leave, LanTypeOK, ThreadTypeOK
<1>7. CASE UNCHANGED lanVars
  BY <1>5, <1>7 DEF lanVars, memory, threads
<1>8. CASE Server
  <2>1. CASE lan_server_start
    <3>1. restore_devices(stored) /\ Exports /\ nextToken' = nextToken
          /\ stored' = stored /\ saved' = saved
      BY <2>1 DEF lan_server_start, threads
    <3>2. Sound(stored, nextToken)
      BY <1>1 DEF RecordsSound
    <3>3. IndexInvertsDevices'
      BY <1>2, <3>1, <3>2, RestoreInverts
    <3>4. Sound(devices', nextToken)
      BY <3>1, <3>2 DEF restore_devices
    <3> QED
      BY <1>4, <3>1, <3>3, <3>4
  <2>2. ASSUME DropState, Exports, OfStore(stored'), OfStore(saved')
        PROVE  IndexInv'
    <3>1. IndexInvertsDevices'
      BY <2>2, NoTokenFact, LanPairingAssumption
         DEF DropState, IndexInvertsDevices, NoRecords
    <3> QED
      BY <1>3, <1>4, <2>2, <3>1 DEF DropState
  <2>3. CASE lan_server_stop
    BY <2>2, <2>3 DEF lan_server_stop, threads
  <2>4. CASE Crash
    BY <2>2, <2>4 DEF Crash
  <2>5. CASE refresh_code
    BY <1>5, <2>5 DEF refresh_code, threads
  <2>6. CASE CodeExpires
    BY <1>5, <2>6 DEF CodeExpires, threads
  <2>7. CASE StartClearing
    BY <1>5, <2>7 DEF StartClearing, threads, memory
  <2>8. CASE FinishClearing
    BY <2>2, <2>8 DEF FinishClearing, threads
  <2>9. CASE SetOther
    BY <1>5, <2>9 DEF SetOther, threads, memory
  <2> QED
    BY <1>8, <2>1, <2>3, <2>4, <2>5, <2>6, <2>7, <2>8, <2>9 DEF Server
<1>9. ASSUME NEW d \in Devices, NEW w \in Threads,
             revoke_device(d), Changed(w, devices[d])
      PROVE  IndexInv'
  <2>1. \A e \in Devices : devices'[e] = IF e = d THEN NoToken ELSE devices[e]
    BY <1>1, <1>9 DEF revoke_device, LanTypeOK, MemoryTypeOK, Records
  <2>2. Sound(devices', nextToken)
    BY <1>1, <1>2, <2>1 DEF RecordsSound, Sound, NoToken
  <2>3. IndexInvertsDevices'
    BY <1>1, <1>9, <2>1, NoTokenFact, LanPairingAssumption
       DEF IndexInvertsDevices, revoke_device, WithoutTokenOf
  <2> QED
    BY <1>4, <1>9, <2>2, <2>3 DEF revoke_device, Changed
<1>10. ASSUME NEW d \in Devices, lan_revoke_device(d) \/ ClearDevice(d)
       PROVE  IndexInv'
  <2>1. CASE revoke_device(d) /\ Changed(Host, devices[d])
    BY <1>9, <2>1 DEF Threads
  <2>2. CASE UNCHANGED <<running, memory, storage, threads, observers>>
    BY <1>5, <2>2 DEF memory, threads
  <2> QED
    BY <1>10, <2>1, <2>2 DEF lan_revoke_device, ClearDevice
<1>11. ASSUME NEW w \in Workers, Handler(w) PROVE IndexInv'
  <2>1. w \in Threads
    BY DEF Threads
  <2>2. ASSUME NEW d \in Devices, pair(w, d) PROVE IndexInv'
    <3>1. nextToken' = nextToken + 1 /\ nextToken' \in Tokens
      BY <1>1, <2>2, LanPairingAssumption DEF pair, LanTypeOK, MemoryTypeOK, Tokens
    <3>2. \A e \in Devices : devices'[e] = IF e = d THEN nextToken' ELSE devices[e]
      BY <1>1, <2>2 DEF pair, LanTypeOK, MemoryTypeOK, Records
    <3>3. \A t \in Tokens :
            token_index'[t] = IF t = nextToken' THEN d
                              ELSE IF t = devices[d] THEN NoDevice
                              ELSE token_index[t]
      BY <2>2 DEF pair, WithoutTokenOf
    <3>4. ASSUME NEW records \in Records, Sound(records, nextToken)
          PROVE  Sound(records, nextToken')
      BY <1>2, <3>1, <3>4, LanPairingAssumption DEF Sound, Records, Tokens, NoToken
    <3>5. \A e \in Devices : devices[e] <= nextToken /\ devices[e] # nextToken'
      BY <1>1, <1>2, <3>1, LanPairingAssumption
         DEF RecordsSound, Sound, LanTypeOK, MemoryTypeOK, Records, Tokens, NoToken
    <3>6. Sound(devices', nextToken')
      <4>1. ASSUME NEW e \in Devices, NEW f \in Devices,
                   devices'[e] = devices'[f], devices'[e] # NoToken
            PROVE  e = f
        BY <1>1, <3>2, <3>5, <4>1 DEF RecordsSound, Sound
      <4>2. Sound(devices, nextToken')
        BY <1>1, <3>4 DEF RecordsSound, LanTypeOK, MemoryTypeOK
      <4>3. \A e \in Devices : devices'[e] <= nextToken'
        BY <1>2, <3>1, <3>2, <4>2 DEF Sound
      <4> QED
        BY <4>1, <4>3 DEF Sound
    <3>7. IndexInvertsDevices'
      BY <1>1, <3>1, <3>2, <3>3, <3>5, NoTokenFact, LanPairingAssumption
         DEF IndexInvertsDevices
    <3>8. stored' = stored /\ saved' = saved /\ snapshot' = snapshot
      BY <2>2 DEF pair, Changed
    <3>9. Sound(stored, nextToken') /\ Sound(saved, nextToken')
          /\ \A v \in Threads : Sound(snapshot[v], nextToken')
      BY <1>1, <3>4 DEF RecordsSound, LanTypeOK, LanHostTypeOK, ThreadTypeOK
    <3> QED
      BY <1>1, <3>6, <3>7, <3>8, <3>9 DEF IndexInv, RecordsSound
  <2>3. ASSUME NEW d \in Devices, revoke_handler(w, d) PROVE IndexInv'
    <3>1. CASE revoke_device(d) /\ Changed(w, devices[d])
      BY <1>9, <2>1, <3>1
    <3>2. CASE Leave(w) /\ UNCHANGED <<running, memory, storage, observers>>
      BY <1>5, <1>6, <2>1, <3>2 DEF memory
    <3> QED
      BY <2>3, <3>1, <3>2 DEF revoke_handler
  <2>4. ASSUME NEW t \in Tokens, validate_token(w, t) PROVE IndexInv'
    BY <1>5, <2>4 DEF validate_token, memory
  <2>5. CASE mint_stream_ticket(w)
    BY <1>5, <1>6, <2>1, <2>5 DEF mint_stream_ticket
  <2> QED
    BY <1>11, <2>2, <2>3, <2>4, <2>5 DEF Handler
<1>12. ASSUME NEW w \in Threads, Persist(w) PROVE IndexInv'
  <2>1. CASE export_devices(w)
    <3>1. Exports
      BY <1>1, <2>1 DEF export_devices, LanTypeOK, ThreadTypeOK
    <3> QED
      BY <1>5, <2>1, <3>1 DEF export_devices, memory
  <2>2. CASE persist_paired_devices(w)
    <3>1. OfStore(stored')
      BY <2>2 DEF persist_paired_devices
    <3>2. saved' = stored' \/ saved' = saved
      BY <2>2 DEF persist_paired_devices, flush
    <3>3. OfStore(saved')
      BY <3>1, <3>2
    <3> QED
      BY <1>5, <1>6, <2>2, <3>1, <3>3 DEF persist_paired_devices, memory
  <2> QED
    BY <1>12, <2>1, <2>2 DEF Persist
<1>13. ASSUME NEW t \in Tickets, TicketExpires(t) \/ validate_stream_ticket(t)
       PROVE  IndexInv'
  BY <1>5, <1>13 DEF TicketExpires, validate_stream_ticket, threads
<1> QED
  BY <1>7, <1>8, <1>10, <1>11, <1>12, <1>13 DEF LanNext

(* The token index is always the inverse of the device map, through pairing, *)
(* re-pairing, revocation, crashes and restores of what overlapping writes   *)
(* left in storage.                                                          *)
THEOREM IndexExact == LanSpec => []IndexInvertsDevices
<1>1. LanInit => IndexInv
  BY InitAll
<1>2. IndexInv => IndexInvertsDevices
  BY DEF IndexInv
<1> QED
  BY <1>1, <1>2, NextIndexInv, PTL DEF LanSpec

-----------------------------------------------------------------------------
\* Every step keeps DownInv.
LEMMA NextDownInv == LanTypeOK /\ DownInv /\ [LanNext]_lanVars => DownInv'
<1> SUFFICES ASSUME LanTypeOK, DownInv, [LanNext]_lanVars PROVE DownInv'
  OBVIOUS
<1> USE DEF memory, threads
<1>1. CASE UNCHANGED lanVars
  BY <1>1 DEF lanVars, DownInv, IsIdle
<1>2. CASE Server
  <2>1. CASE lan_server_start
    BY <2>1 DEF lan_server_start, DownInv
  <2>2. CASE lan_server_stop \/ FinishClearing
    BY <2>2 DEF lan_server_stop, FinishClearing, DropState, DownInv, IsIdle
  <2>3. CASE Crash
    BY <2>3 DEF Crash, DropState, DownInv, IsIdle
  <2>4. CASE refresh_code \/ CodeExpires \/ StartClearing \/ SetOther
    BY <2>4 DEF refresh_code, CodeExpires, StartClearing, SetOther, DownInv, IsIdle
  <2> QED
    BY <1>2, <2>1, <2>2, <2>3, <2>4 DEF Server
<1>3. ASSUME NEW d \in Devices, revoke_device(d) PROVE running'
  BY <1>3 DEF revoke_device, DownInv, NoRecords, LanTypeOK, LanHostTypeOK
<1>4. ASSUME NEW d \in Devices, lan_revoke_device(d) \/ ClearDevice(d)
      PROVE  DownInv'
  BY <1>3, <1>4 DEF lan_revoke_device, ClearDevice, DownInv, IsIdle
<1>5. ASSUME NEW w \in Workers, Handler(w) PROVE DownInv'
  <2>1. w \in Threads
    BY DEF Threads
  <2>2. ASSUME running PROVE DownInv'
    BY <1>5, <1>3, <2>2 DEF Handler, pair, revoke_handler, validate_token,
                            mint_stream_ticket, revoke_device, DownInv
  <2>3. ASSUME ~running PROVE FALSE
    <3>1. pc[w] = "idle"
      BY <2>1, <2>3 DEF DownInv, IsIdle
    <3> QED
      BY <1>5, <2>3, <3>1 DEF Handler, pair, revoke_handler, validate_token,
                              mint_stream_ticket
  <2> QED
    BY <2>2, <2>3
<1>6. ASSUME NEW w \in Threads, Persist(w) PROVE DownInv'
  BY <1>6 DEF Persist, export_devices, persist_paired_devices, DownInv, IsIdle
<1>7. ASSUME NEW t \in Tickets, TicketExpires(t) \/ validate_stream_ticket(t)
      PROVE  DownInv'
  BY <1>7 DEF TicketExpires, validate_stream_ticket, DownInv, IsIdle, LanTypeOK,
              MemoryTypeOK
<1> QED
  BY <1>1, <1>2, <1>4, <1>5, <1>6, <1>7 DEF LanNext

\* Every step keeps the tickets bound to the current tokens.
LEMMA NextTickets ==
    IndexInv /\ DownInv /\ TicketsOfCurrentTokens /\ [LanNext]_lanVars
        => TicketsOfCurrentTokens'
<1> SUFFICES ASSUME IndexInv, DownInv, TicketsOfCurrentTokens, [LanNext]_lanVars
             PROVE  TicketsOfCurrentTokens'
  OBVIOUS
<1> USE DEF memory, observers
<1>1. LanTypeOK /\ IndexInvertsDevices
  BY DEF IndexInv
<1>2. ASSUME UNCHANGED <<devices, mintedFor>>,
             \A t \in Tickets : tickets'[t] \in {tickets[t], NoDevice}
      PROVE  TicketsOfCurrentTokens'
  BY <1>2 DEF TicketsOfCurrentTokens
<1>3. ASSUME \A t \in Tickets : tickets'[t] = NoDevice
      PROVE  TicketsOfCurrentTokens'
  BY <1>3 DEF TicketsOfCurrentTokens
<1>4. \A t \in Tickets : tickets[t] \in Devices \cup {NoDevice}
  BY <1>1 DEF LanTypeOK, MemoryTypeOK
<1>5. ASSUME NEW d \in Devices, revoke_device(d), UNCHANGED mintedFor
      PROVE  TicketsOfCurrentTokens'
  <2>1. \A e \in Devices : e # d => devices'[e] = devices[e]
    BY <1>1, <1>5 DEF revoke_device, LanTypeOK, MemoryTypeOK, Records
  <2>2. \A t \in Tickets :
          tickets'[t] = IF tickets[t] = d THEN NoDevice ELSE tickets[t]
    BY <1>5 DEF revoke_device, WithoutTicketsOf
  <2> QED
    BY <1>4, <1>5, <2>1, <2>2 DEF TicketsOfCurrentTokens
<1>6. CASE UNCHANGED lanVars
  BY <1>2, <1>6 DEF lanVars
<1>7. CASE Server
  <2>1. CASE lan_server_start
    BY <1>3, <2>1 DEF lan_server_start, DownInv
  <2>2. CASE lan_server_stop \/ FinishClearing \/ Crash
    BY <1>3, <2>2 DEF lan_server_stop, FinishClearing, Crash, DropState
  <2>3. CASE refresh_code \/ CodeExpires \/ StartClearing \/ SetOther
    BY <1>2, <2>3 DEF refresh_code, CodeExpires, StartClearing, SetOther
  <2> QED
    BY <1>7, <2>1, <2>2, <2>3 DEF Server
<1>8. ASSUME NEW d \in Devices, lan_revoke_device(d) \/ ClearDevice(d)
      PROVE  TicketsOfCurrentTokens'
  BY <1>2, <1>5, <1>8 DEF lan_revoke_device, ClearDevice, revoke_device
<1>9. ASSUME NEW w \in Workers, Handler(w) PROVE TicketsOfCurrentTokens'
  <2>1. w \in Threads
    BY DEF Threads
  <2>2. ASSUME NEW d \in Devices, pair(w, d) PROVE TicketsOfCurrentTokens'
    <3>1. \A e \in Devices : e # d => devices'[e] = devices[e]
      BY <1>1, <2>2 DEF pair, LanTypeOK, MemoryTypeOK, Records
    <3>2. \A t \in Tickets :
            tickets'[t] = IF tickets[t] = d THEN NoDevice ELSE tickets[t]
      <4>1. CASE devices[d] = NoToken
        BY <1>1, <2>2, <4>1, LanPairingAssumption
           DEF pair, TicketsOfCurrentTokens
      <4>2. CASE devices[d] # NoToken
        BY <2>2, <4>2 DEF pair, WithoutTicketsOf
      <4> QED
        BY <4>1, <4>2
    <3>3. UNCHANGED mintedFor
      BY <2>2 DEF pair
    <3> QED
      BY <1>4, <3>1, <3>2, <3>3 DEF TicketsOfCurrentTokens
  <2>3. ASSUME NEW d \in Devices, revoke_handler(w, d)
        PROVE  TicketsOfCurrentTokens'
    BY <1>2, <1>5, <2>3 DEF revoke_handler, revoke_device
  <2>4. ASSUME NEW t \in Tokens, validate_token(w, t)
        PROVE  TicketsOfCurrentTokens'
    BY <1>2, <2>4 DEF validate_token
  <2>5. CASE mint_stream_ticket(w)
    <3>1. CASE UNCHANGED <<tickets, nextTicket, mintedFor>>
      BY <1>2, <2>5, <3>1 DEF mint_stream_ticket
    <3>2. CASE /\ token_index[bearer[w]] # NoDevice
               /\ nextTicket' = nextTicket + 1
               /\ tickets' = [tickets EXCEPT ![nextTicket'] = token_index[bearer[w]]]
               /\ mintedFor' = [mintedFor EXCEPT ![nextTicket'] = bearer[w]]
      <4>1. bearer[w] \in Tokens /\ bearer[w] # NoToken
        BY <1>1, <2>1, <2>5 DEF mint_stream_ticket, LanTypeOK, ThreadTypeOK
      <4>2. devices[token_index[bearer[w]]] = bearer[w]
        BY <1>1, <3>2, <4>1 DEF IndexInvertsDevices, LanTypeOK, MemoryTypeOK
      <4>3. \A t \in Tickets :
              /\ tickets'[t] = IF t = nextTicket' THEN token_index[bearer[w]]
                               ELSE tickets[t]
              /\ mintedFor'[t] = IF t = nextTicket' THEN bearer[w]
                                 ELSE mintedFor[t]
        BY <1>1, <3>2 DEF LanTypeOK, MemoryTypeOK, ObserverTypeOK
      <4>4. devices' = devices
        BY <2>5 DEF mint_stream_ticket
      <4> QED
        BY <4>1, <4>2, <4>3, <4>4 DEF TicketsOfCurrentTokens
    <3> QED
      BY <2>5, <3>1, <3>2 DEF mint_stream_ticket
  <2> QED
    BY <1>9, <2>2, <2>3, <2>4, <2>5 DEF Handler
<1>10. ASSUME NEW w \in Threads, Persist(w) PROVE TicketsOfCurrentTokens'
  BY <1>2, <1>10 DEF Persist, export_devices, persist_paired_devices
<1>11. ASSUME NEW t \in Tickets, TicketExpires(t) \/ validate_stream_ticket(t)
       PROVE  TicketsOfCurrentTokens'
  BY <1>1, <1>2, <1>11 DEF TicketExpires, validate_stream_ticket, LanTypeOK,
                           MemoryTypeOK
<1> QED
  BY <1>6, <1>7, <1>8, <1>9, <1>10, <1>11 DEF LanNext

(* No stream ticket outlives the token it was minted for: neither a revoke   *)
(* nor a re-pair leaves one, and an /open admitted with the old bearer gets  *)
(* none.                                                                     *)
THEOREM TicketsFollowTokens == LanSpec => []TicketsOfCurrentTokens
<1> DEFINE Inv == IndexInv /\ DownInv /\ TicketsOfCurrentTokens
<1>1. LanInit => Inv
  BY InitAll
<1>2. Inv /\ [LanNext]_lanVars => Inv'
  BY NextIndexInv, NextDownInv, NextTickets DEF IndexInv
<1>3. Inv => TicketsOfCurrentTokens
  OBVIOUS
<1> QED
  BY <1>1, <1>2, <1>3, PTL DEF LanSpec

-----------------------------------------------------------------------------
\* Every step keeps CodeInv.
LEMMA NextCodeInv == LanTypeOK /\ CodeInv /\ [LanNext]_lanVars => CodeInv'
<1> SUFFICES ASSUME LanTypeOK, CodeInv, [LanNext]_lanVars PROVE CodeInv'
  OBVIOUS
<1> USE LanPairingAssumption DEF memory, observers
<1>1. codes \in 0..MaxCodes /\ pairings \in [1..MaxCodes -> Nat]
  BY DEF LanTypeOK, CodeTypeOK, ObserverTypeOK
<1>2. ASSUME UNCHANGED <<codes, pairings>>, codeUsed' = codeUsed \/ codeUsed'
      PROVE  CodeInv'
  BY <1>2 DEF CodeInv, CodePairsOnce
<1>3. ASSUME NewCode, UNCHANGED pairings PROVE CodeInv'
  <2>1. codes' = codes + 1 /\ codes' \in 1..MaxCodes
    BY <1>1, <1>3 DEF NewCode
  <2>2. \A c \in 1..MaxCodes : c > codes' => pairings'[c] = 0
    BY <1>1, <1>3, <2>1 DEF CodeInv
  <2>3. codes' # 0 /\ pairings'[codes'] = 0
    BY <1>1, <1>3, <2>1 DEF CodeInv
  <2> QED
    BY <1>3, <2>2, <2>3 DEF CodeInv, CodePairsOnce
<1>4. CASE UNCHANGED lanVars
  BY <1>2, <1>4 DEF lanVars
<1>5. CASE Server
  <2>1. CASE lan_server_start \/ refresh_code
    BY <1>3, <2>1 DEF lan_server_start, refresh_code
  <2>2. CASE lan_server_stop \/ FinishClearing \/ Crash
    BY <1>2, <2>2 DEF lan_server_stop, FinishClearing, Crash, DropState
  <2>3. CASE CodeExpires \/ StartClearing \/ SetOther
    BY <1>2, <2>3 DEF CodeExpires, StartClearing, SetOther
  <2> QED
    BY <1>5, <2>1, <2>2, <2>3 DEF Server
<1>6. ASSUME NEW d \in Devices, lan_revoke_device(d) \/ ClearDevice(d)
      PROVE  CodeInv'
  BY <1>2, <1>6 DEF lan_revoke_device, ClearDevice, revoke_device
<1>7. ASSUME NEW w \in Workers, Handler(w) PROVE CodeInv'
  <2>1. ASSUME NEW d \in Devices, pair(w, d) PROVE CodeInv'
    <3>1. codeUsed' /\ codes' = codes /\ pairings' = [pairings EXCEPT ![codes] = @ + 1]
      BY <2>1 DEF pair, UseCode
    <3>2. codes \in 1..MaxCodes /\ pairings[codes] = 0
      BY <1>1, <2>1 DEF pair, CodeAccepted, CodeInv
    <3>3. \A c \in 1..MaxCodes : pairings'[c] = IF c = codes THEN 1 ELSE pairings[c]
      BY <1>1, <3>1, <3>2
    <3>4. CodePairsOnce'
      BY <3>3 DEF CodeInv, CodePairsOnce
    <3>5. \A c \in 1..MaxCodes : c > codes' => pairings'[c] = 0
      BY <3>1, <3>2, <3>3 DEF CodeInv
    <3> QED
      BY <3>1, <3>4, <3>5 DEF CodeInv
  <2>2. ASSUME NEW d \in Devices, revoke_handler(w, d) PROVE CodeInv'
    BY <1>2, <2>2 DEF revoke_handler, revoke_device
  <2>3. ASSUME NEW t \in Tokens, validate_token(w, t) PROVE CodeInv'
    BY <1>2, <2>3 DEF validate_token
  <2>4. CASE mint_stream_ticket(w)
    BY <1>2, <2>4 DEF mint_stream_ticket
  <2> QED
    BY <1>7, <2>1, <2>2, <2>3, <2>4 DEF Handler
<1>8. ASSUME NEW w \in Threads, Persist(w) PROVE CodeInv'
  BY <1>2, <1>8 DEF Persist, export_devices, persist_paired_devices
<1>9. ASSUME NEW t \in Tickets, TicketExpires(t) \/ validate_stream_ticket(t)
      PROVE  CodeInv'
  BY <1>2, <1>9 DEF TicketExpires, validate_stream_ticket
<1> QED
  BY <1>4, <1>5, <1>6, <1>7, <1>8, <1>9 DEF LanNext

(* A pairing code issues at most one token, however many /pair requests race *)
(* for it.                                                                   *)
THEOREM CodesPairOnce == LanSpec => []CodePairsOnce
<1> DEFINE Inv == LanTypeOK /\ CodeInv
<1>1. LanInit => Inv
  BY InitAll DEF IndexInv
<1>2. Inv /\ [LanNext]_lanVars => Inv'
  BY NextTypeOK, NextCodeInv
<1>3. Inv => CodePairsOnce
  BY DEF CodeInv
<1> QED
  BY <1>1, <1>2, <1>3, PTL DEF LanSpec

-----------------------------------------------------------------------------
\* Every step keeps DurableInv.
LEMMA NextDurableInv ==
    LanTypeOK /\ DownInv /\ DurableInv /\ [LanNext]_lanVars => DurableInv'
<1> SUFFICES ASSUME LanTypeOK, DownInv, DurableInv, [LanNext]_lanVars PROVE DurableInv'
  OBVIOUS
<1> USE DEF memory, threads, observers
<1>1. pc \in [Threads -> Pcs] /\ snapshot \in [Threads -> Records]
  BY DEF LanTypeOK, ThreadTypeOK
<1>2. ASSUME UNCHANGED <<devices, stored, snapshot>>,
             Watched' => Watched,
             \A w \in Threads : \/ pc'[w] = pc[w]
                                \/ pc[w] = "idle" /\ pc'[w] = "authed"
      PROVE  DurableInv'
  <2>1. \A w \in Threads : Mid(w)' <=> Mid(w)
    BY <1>2 DEF Mid
  <2>2. Quiet' <=> Quiet
    BY <2>1 DEF Quiet, Mid
  <2>3. \A w \in Threads : pc'[w] = "exported" => pc[w] = "exported"
    BY <1>2 DEF Mid
  <2> QED
    BY <1>2, <2>1, <2>2, <2>3 DEF DurableInv
<1>3. ASSUME NEW w \in Threads, NEW t, Changed(w, t) PROVE DurableInv'
  <2>1. \A v \in Threads : pc'[v] = IF v = w THEN "changed" ELSE pc[v]
    BY <1>1, <1>3 DEF Changed
  <2>2. ASSUME ~overlapped' PROVE \A v \in Threads : v # w => ~Mid(v)'
    BY <1>3, <2>1, <2>2 DEF Changed, Quiet, Mid
  <2>3. ~Quiet'
    BY <2>1 DEF Quiet
  <2>4. ASSUME ~overlapped' PROVE \A v \in Threads : pc'[v] # "exported"
    BY <2>1, <2>2, <2>4 DEF Mid
  <2> QED
    BY <2>2, <2>3, <2>4 DEF DurableInv, Watched
<1>4. CASE UNCHANGED lanVars
  <2>1. UNCHANGED <<devices, stored, snapshot, pc>>
    BY <1>4 DEF lanVars
  <2>2. Watched' => Watched
    BY <1>4 DEF lanVars, Watched
  <2>3. \A w \in Threads : \/ pc'[w] = pc[w]
                           \/ pc[w] = "idle" /\ pc'[w] = "authed"
    BY <2>1
  <2> QED
    BY <1>2, <2>1, <2>2, <2>3
<1>5. CASE Server
  <2>1. CASE lan_server_start
    <3>1. \A w \in Threads : pc'[w] = "idle"
      BY <2>1 DEF lan_server_start, DownInv, IsIdle
    <3>2. stored' = devices'
      BY <2>1 DEF lan_server_start, restore_devices
    <3> QED
      BY <3>1, <3>2 DEF DurableInv, Mid
  <2>2. CASE lan_server_stop \/ FinishClearing \/ Crash
    BY <2>2 DEF lan_server_stop, FinishClearing, Crash, DropState, DurableInv,
                Watched
  <2>3. CASE refresh_code \/ CodeExpires \/ StartClearing \/ SetOther
    <3>1. Watched' => Watched
      BY <2>3 DEF refresh_code, CodeExpires, StartClearing, SetOther, Watched
    <3> QED
      BY <1>2, <2>3, <3>1 DEF refresh_code, CodeExpires, StartClearing, SetOther
  <2> QED
    BY <1>5, <2>1, <2>2, <2>3 DEF Server
<1>6. ASSUME NEW d \in Devices, lan_revoke_device(d) \/ ClearDevice(d)
      PROVE  DurableInv'
  <2>1. CASE Changed(Host, devices[d])
    BY <1>3, <2>1 DEF Threads
  <2>2. CASE UNCHANGED <<running, memory, storage, threads, observers>>
    <3>1. Watched' => Watched
      BY <2>2 DEF Watched
    <3> QED
      BY <1>2, <2>2, <3>1
  <2> QED
    BY <1>6, <2>1, <2>2 DEF lan_revoke_device, ClearDevice
<1>7. ASSUME NEW w \in Threads, pc[w] = "authed", Leave(w),
             UNCHANGED <<running, devices, stored, overlapped>>
      PROVE  DurableInv'
  <2>1. \A v \in Threads : pc'[v] = IF v = w THEN "idle" ELSE pc[v]
    BY <1>1, <1>7 DEF Leave
  <2>2. \A v \in Threads : v # w => snapshot'[v] = snapshot[v]
    BY <1>1, <1>7 DEF Leave
  <2>3. \A v \in Threads : Mid(v)' <=> Mid(v)
    BY <1>7, <2>1 DEF Mid
  <2>4. Quiet' <=> Quiet
    BY <2>3 DEF Quiet, Mid
  <2> QED
    BY <1>7, <2>1, <2>2, <2>3, <2>4 DEF DurableInv, Watched
<1>8. ASSUME NEW w \in Workers, Handler(w) PROVE DurableInv'
  <2>1. w \in Threads
    BY DEF Threads
  <2>2. ASSUME NEW d \in Devices, pair(w, d) PROVE DurableInv'
    BY <1>3, <2>1, <2>2 DEF pair
  <2>3. ASSUME NEW d \in Devices, revoke_handler(w, d) PROVE DurableInv'
    BY <1>3, <1>7, <2>1, <2>3 DEF revoke_handler
  <2>4. ASSUME NEW t \in Tokens, validate_token(w, t) PROVE DurableInv'
    <3>1. \A v \in Threads : pc'[v] = IF v = w THEN "authed" ELSE pc[v]
      BY <1>1, <2>4 DEF validate_token
    <3>2. pc[w] = "idle"
      BY <2>4 DEF validate_token, IsIdle
    <3>3. Watched' => Watched
      BY <2>4 DEF validate_token, Watched
    <3> QED
      BY <1>2, <2>4, <3>1, <3>2, <3>3 DEF validate_token
  <2>5. CASE mint_stream_ticket(w)
    BY <1>7, <2>1, <2>5 DEF mint_stream_ticket
  <2> QED
    BY <1>8, <2>2, <2>3, <2>4, <2>5 DEF Handler
<1>9. ASSUME NEW w \in Threads, Persist(w) PROVE DurableInv'
  <2>1. CASE export_devices(w)
    <3>1. \A v \in Threads :
            /\ pc'[v] = IF v = w THEN "exported" ELSE pc[v]
            /\ snapshot'[v] = IF v = w THEN devices ELSE snapshot[v]
      BY <1>1, <2>1 DEF export_devices
    <3>2. \A v \in Threads : Mid(v)' <=> Mid(v)
      BY <2>1, <3>1 DEF export_devices, Mid
    <3>3. Quiet' <=> Quiet
      BY <3>2 DEF Quiet, Mid
    <3> QED
      BY <2>1, <3>1, <3>2, <3>3 DEF export_devices, DurableInv, Watched
  <2>2. CASE persist_paired_devices(w)
    <3>1. \A v \in Threads : pc'[v] = IF v = w THEN "idle" ELSE pc[v]
      BY <1>1, <2>2 DEF persist_paired_devices, Leave
    <3>2. pc[w] = "exported" /\ stored' = snapshot[w]
          /\ UNCHANGED <<running, devices, overlapped>>
      BY <2>2 DEF persist_paired_devices
    <3>3. ASSUME running, ~overlapped
          PROVE  stored' = devices' /\ \A v \in Threads : ~Mid(v)'
      BY <3>1, <3>2, <3>3 DEF DurableInv, Watched, Mid
    <3> QED
      BY <3>2, <3>3 DEF DurableInv, Watched, Mid
  <2> QED
    BY <1>9, <2>1, <2>2 DEF Persist
<1>10. ASSUME NEW t \in Tickets, TicketExpires(t) \/ validate_stream_ticket(t)
       PROVE  DurableInv'
  <2>1. Watched' => Watched
    BY <1>10 DEF TicketExpires, validate_stream_ticket, Watched
  <2> QED
    BY <1>2, <1>10, <2>1 DEF TicketExpires, validate_stream_ticket
<1> QED
  BY <1>4, <1>5, <1>6, <1>8, <1>9, <1>10 DEF LanNext

\* Every step keeps FileInv.
LEMMA NextFileInv == FileInv /\ [LanNext]_lanVars => FileInv'
<1> SUFFICES ASSUME FileInv, [LanNext]_lanVars PROVE FileInv'
  OBVIOUS
<1>1. ASSUME UNCHANGED storage PROVE FileInv'
  BY <1>1 DEF FileInv
<1>2. CASE UNCHANGED lanVars
  BY <1>1, <1>2 DEF lanVars
<1>3. CASE Server
  <2>1. CASE Crash \/ SetOther
    BY <2>1 DEF Crash, SetOther, FileInv
  <2>2. CASE ~Crash /\ ~SetOther
    BY <1>1, <1>3, <2>2 DEF Server, lan_server_start, lan_server_stop, refresh_code,
                            CodeExpires, StartClearing, FinishClearing
  <2> QED
    BY <2>1, <2>2
<1>4. ASSUME NEW d \in Devices, lan_revoke_device(d) \/ ClearDevice(d)
      PROVE  FileInv'
  BY <1>1, <1>4 DEF lan_revoke_device, ClearDevice, revoke_device
<1>5. ASSUME NEW w \in Workers, Handler(w) PROVE FileInv'
  BY <1>1, <1>5 DEF Handler, pair, revoke_handler, revoke_device, validate_token,
                    mint_stream_ticket
<1>6. ASSUME NEW w \in Threads, Persist(w) PROVE FileInv'
  BY <1>1, <1>6 DEF Persist, export_devices, persist_paired_devices, flush, FileInv
<1>7. ASSUME NEW t \in Tickets, TicketExpires(t) \/ validate_stream_ticket(t)
      PROVE  FileInv'
  BY <1>1, <1>7 DEF TicketExpires, validate_stream_ticket
<1> QED
  BY <1>2, <1>3, <1>4, <1>5, <1>6, <1>7 DEF LanNext

(* With no call in flight the store holds the paired devices, and its file   *)
(* too unless the last write failed, whatever failed before; except when the *)
(* last change overlapped another: what unordered writes can promise.        *)
THEOREM DurableWithoutOverlap == LanSpec => []DurableUnlessOverlapped
<1> DEFINE Inv == LanTypeOK /\ DownInv /\ FileInv /\ DurableInv
<1>1. LanInit => Inv
  BY InitAll DEF IndexInv
<1>2. Inv /\ [LanNext]_lanVars => Inv'
  BY NextTypeOK, NextDownInv, NextFileInv, NextDurableInv
<1>3. Inv => DurableUnlessOverlapped
  BY DEF DurableInv, FileInv, Watched, DurableUnlessOverlapped
<1> QED
  BY <1>1, <1>2, <1>3, PTL DEF LanSpec
=============================================================================
