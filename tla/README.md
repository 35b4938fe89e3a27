# Verification of clovertun

clovertun lets two programs behind NATs talk to each other. A *host* registers
a keyword with a *rendezvous server* over TCP, a *guest* asks the server for
that keyword, the server brings both to send it one UDP datagram each, tells
each the public address of the other, and the two *punch* a UDP path between
them and run ENet over it; when the address exchange fails they fall back on a
relay through the server. This directory holds TLA+ modules of the server, the
clients, their interaction and the transports below them (the TCP connection,
the UDP socket, the stream buffer, the ENet client), the TLC runs that check
them on small instances, and TLAPS proofs of their main safety properties for
every value of the constants.

The repository has no design document and no tests; the modules are translated
from the C++ source. Paths below are relative to `src/src/clovertun/` unless
they say otherwise.

## 1. Inventory

### Components

| component | files | state it keeps | operations |
|---|---|---|---|
| `CP2PServer` | `P2PServer.cpp` | `m_TCPList` (tcpid to socket), `m_dwTCPid`, `m_P2PConnectList` (host's tcpid to session) | accept a socket, dispatch a TCP packet, dispatch a datagram, end of a socket |
| `CP2PConnection` | `P2PConnection.cpp` | one session: keyword, status, host and guest socket, their public UDP addresses, two "UDP OK" flags | `TCPConnected`, `UDPListening`, `UDPConnected`, `SetP2POK`, `TCPProxyRequest`, `TCPDataProxy`, `ConnTCPDisconnect`, `MainTCPDisconnect` |
| `CP2PClient`, `CP2PHost`, `CP2PGuest` | `P2PClient.cpp`, `P2PHost.cpp`, `P2PGuest.cpp` | `m_eStatus`, three manual-reset events, `m_eType`, peer id and address, error code | main loop (`Accept`/`Connect`) with its event handlers, TCP receive callback, UDP receive callback, `Close` |
| `CTCPBase`, `CTCPServer`, `CTCPClient`, `CTCPService` | `TCPBase.cpp`, `TCPServer.cpp`, `TCPClient.cpp` | send list, send and stop events, callbacks | send thread, receive thread, listen thread, `Init`/`Done` |
| `CUDPBase` | `UDPBase.cpp` | send list, events, callback | send thread, receive thread, `Start`/`Stop` |
| `CENetClient` | `ENetClient.cpp` | an ENet host and peer, a send list, a stop event, a callback | `Init` (host: listen; guest: up to ten attempts), service loop, send, `Done` |
| packet constructors | `P2PPacket.cpp`, `include/clovertun/P2PProtocol.h` | none | one constructor per packet type |
| stream framing | `corelib/DataStreamBuf.cpp`, `include/corelib/packetunit.h` | a list of blocks with a read index each, a total | add bytes, take all, clear, cut the next packet |
| socket wrappers | `TCPCommon.cpp`, `UDPCommon.cpp` | none | blocking read and write that a stop event interrupts |
| reference counts | `include/BaseObject/BaseObject.h` | a counter per object | `AddRef`, `Release` |
| `main` | `main.cpp`, `XGetOpt.h` | none | option parsing; host loop; guest file transfer |
| vendored | `src/3rdparty/enet`, `src/3rdparty/winpr` | | ENet, Win32 API on POSIX |

### How they interact

The server runs a listen thread, one receive and one send thread per accepted
socket, and one UDP receive and one UDP send thread. A receive thread calls
`CP2PServer::RecvTCPPacketProcess`, which works on the two lists under
`m_csTCPList` and `m_csP2PConnection` and on one session under that session's
`m_csLock`; sessions push packets on the send lists of their two sockets. A
client runs its main thread, a TCP receive and send thread and a UDP receive
and send thread: the receive threads change `m_eStatus` and set events, the
main thread waits on the events and runs the handler of the status it reads.
Once a path is punched the client's UDP socket is closed and a `CENetClient`
takes over its port: one thread serves ENet and empties the send list, the
program pushes on the list, and `CP2PClient` guards the object with
`m_csENetLock`.

### What is hard

* A session pointer is found under one lock and used under another, so a
  session's host or guest can leave in between.
* Four parties' threads (host, guest, their two receive threads on the server)
  and the UDP thread step the same session through six states, in any order,
  with datagrams lost, delayed, duplicated and left over from other sessions.
* A socket can end at any point, the moment before it has a tcpid included.
* The client's status is written by one thread, read by two others and
  announced by a manual-reset event that a third step resets.
* The client's locks nest in different orders on different threads.
* Timeouts overwrite the status that a late answer has just set.
* Every send list has a consumer that sleeps on an event, and every callback a
  lock that `Done` or `Stop` needs too.
* TCP splits and joins packets at any byte; the receiver cuts them again out of
  a list of blocks, whose total is counted apart from the blocks.
* Attempts of ENet are given up while their request or its answer is under way,
  and anyone may connect to the host's only slot.


### What makes each component correct

* **CP2PServer**: a keyword names at most one session; a session is filed under
  a tcpid its host still owns, although ids wrap around; the end of a socket
  takes it out of every session; every request of a client that stays is
  answered; a keyword whose host is gone can be registered again.
* **CP2PConnection**: its pointers are non-NULL exactly in the states that
  follow them; the addresses it hands out belong to a host and a guest of its
  keyword; `P2P_CONNECTED` means that both ends confirmed; it never outlives a
  party.
* **CP2PClient/Host/Guest**: a punch ends in a connection or in the relay; the
  two clients of a session choose the same transport; ENet starts only on a
  path that was punched in both directions; a host that believes it has a guest
  has one; no thread waits for good on a lock or on an event already consumed.
* **CTCPBase/CUDPBase**: packets leave in the order they were pushed, none stays
  in the list for want of an event, none is invented, no callback runs behind
  `Done` or `Stop`, and their threads end.
* **Stream framing**: any split of the byte stream gives back the packets that
  were written, each as soon as it is complete.
* **CENetClient**: what the host's program is given is what the guest's program
  sent, in order; an open path delivers; `Done` returns.
* **Reference counts**: no object is used after its last `Release` (not modelled).

## 2. Plan

| step | module | what it is | status |
|---|---|---|---|
| 1 | `P2PProtocol` | packet types, statuses, constructors | done |
| 2 | `P2PServer` | server, sessions, accepted sockets, with the weakest clients | done |
| 3 | `P2PServer_proofs` | the inductive invariant and the server's safety theorems | done |
| 4 | `P2PClient` | the two client classes and their three threads | done |
| 5 | `Tunnel` | server and clients composed, an implementation of `P2PServer`'s `Spec` | done, refinement proved |
| 6 | `Rendezvous`, `P2PServerRendezvous` | abstract table of rooms, and the server as an implementation of it | done, refinement proved |
| 7 | `P2PServerHistory_proofs` | `ConnectedMeansConfirmed`, `DeadEntryInert`, `StreamOrder` | done |
| 8 | `Fifo`, `TCPLink` | abstract queue per direction; send list, event, threads, buffer and `Done` of a TCP connection | done, refinement proved |
| 9 | `ByteQueue`, `DataStreamBuf` | abstract queue of bytes; the list of blocks and `GetPacketFromBuffer` | done, refinement proved |
| 10 | `UDPBase` | the UDP socket's list, threads, checksum, callback, `Start` and `Stop` | done, four theorems |
| 11 | `ENetClient` | attempts, service loop, list, callback, `Done`, and `CP2PClient`'s lock around them | done, refinement proved |
| 12 | `Tunnel_proofs` | server and clients together: refinement, types, `HostNotStranded`, `ENetMeansPunched` | done |
| 13 | `Tunnel_proofs` | `TransportsAgree` | done |
| 14 | object lifetime, `CTCPService`'s end | | not built, section 7 |

The order is by weight: the server is the part every user shares, its session
object is stepped by the most threads, and everything else only needs of it
what steps 2 and 3 state. Each composition stands on an abstraction of the part
below: `Tunnel` sees a socket as the FIFO that `TCPLink` is shown to implement,
`TCPLink` sees the stream buffer as the byte queue that `DataStreamBuf` is
shown to implement, `Rendezvous` is what is left of the server when its threads
are hidden.

Every constant has a named assumption where a proof needs one, and an action is
one operation. The code's loops (`CalcCheckSum`, `GetDataCore`) are recursive
functions of the number of the turn, which can be reasoned about.

## 3. Modules and the code

**`P2PProtocol`** holds the enumerations of `P2PProtocol.h` in the header's
order (the code compares statuses with `>=`) and a constructor per packet the
server sends, with the fields some receiver branches on or stores.

**`P2PServer`**. One action is what one thread does under one lock.

| state | code |
|---|---|
| `m_TCPList`, `m_dwTCPid`, `m_P2PConnectList` | the members of `CP2PServer` of that name; ids are taken modulo `IdCount` for the DWORD's 2^32 |
| `conn[h]` | the `CP2PConnection` that `h`'s `TPT_WAITING` created: `m_eStatus`, `m_pMainTCPServer`, `m_pConnTCPServer`, the two addresses, `m_bMainUDPOK`, `m_bConnUDPOK` |
| `thr[t]` | the receive thread of socket `t`: between two packets, holding a session pointer it found (`apply`), about to push a reply (`reply`), after `TCPEndProcess` (`removing`), gone |
| `accepting` | the listen thread between `Init` and `CreateTCPID` |
| `udpThr` | the UDP receive thread, with the datagram and the session pointer it holds |
| `c2s[t]`, `sent[t]`, `udp` | what the client sent and is not dispatched; all that was pushed to it; every datagram ever sent. A datagram is never removed, so it may be lost, late, repeated and overtaken |
| `fault` | the NULL or wild pointer that ended the process |
| `past` | history: who confirmed in the present session |

A session pointer is found in one step and used in a later one, because
`FindP2PConnection` releases `m_csP2PConnection` in between. The clients of this
module are the weakest the code allows: each sends a packet once the packet that
makes its code send it has been pushed. What is shown of the server holds
for any client of that kind.

**`P2PClient`**. `client[t]` has the members of `CP2PClient`, the three events
among them; `mainThr`, `tcpThr` and `udpRecv` say where the three threads stand.
Reading `m_eStatus` and resetting the event, checking a status and setting it,
setting it and setting the event, are steps of their own, since the code holds
no lock across them. Two locks are modelled by the stations that hold them:
`m_csUDPLock` while the main thread stops the UDP socket, `m_csRecvFunc` while
the UDP thread runs its callback. `PunchReturns` is the test of
`P2PClient.cpp:288` as it is written.

**`Tunnel`** composes them: a packet the server pushes joins the FIFO `s2c` of
its socket; a client's step leaves the server alone. `Record` keeps the two
history fields that `P2PServer`'s weak clients are described with, so that
`Spec` of `P2PServer` can be checked as the abstract specification of `Tunnel`
with the identity as refinement mapping.

**`Rendezvous`** is what the server promises: sockets that ask for a keyword,
and a set of rooms with a keyword, a host, perhaps a guest, and a stage.
**`P2PServerRendezvous`** reads it off the server's state: `Rooms` are the
sessions listed in `m_P2PConnectList`, `StageOf` translates `m_eStatus`, `Asks`
is the keyword a client came with.

**`TCPLink`** is one connection between a `CTCPClient` and the `CTCPServer` at
its other end.

| state | code |
|---|---|
| `m_SendList`, `m_hSendEvent`, `m_hStopEvent`, `m_pfnRecvFunc`, `m_pfnEndFunc` | the members of that name, per end; a callback is there or taken away |
| `sendThr` | `TCPSendThread`: waiting on the events, woken before it enters `m_csSendLock`, writing, gone |
| `recvThr` | `TCPRecvThread`: in the read, cutting packets, about to take `m_csFunc`, in a callback under it, ending; `lost` is a thread that took the middle of a packet for a header |
| `doneCall`, `isOpen` | how far `Done` has come on another thread, and `m_hSock` |
| `stream`, `taken`, `wrote`, `read`, `cut` | the bytes of a direction, numbered and not copied: where each packet starts, and how many bytes the sender took, wrote, the receiver read and cut |

Reads and writes move any number of bytes the wire or the buffer allows. The
buffer is used through what `DataStreamBuf` is shown to promise: a packet is cut
when the length in the header at the front has arrived.

**`Fifo`** is what a connection promises, one queue per direction from
`SendPacket` to the callback at the other end. `TCPLink` and `ENetClient` both
implement it, with their history variables `pushed` and `given`.

**`DataStreamBuf`** has `m_pDataList` (a block is its bytes and `m_dwIdx`) and
`m_dwTotalSize`; `GetPacketFromBuffer` takes the header out, looks at it and puts
it back as a block of its own, as the code does. **`ByteQueue`** is the queue it
implements; the refinement mapping concatenates what is unread in the blocks.

**`UDPBase`** has the members and the two threads of a `CUDPBase`, one datagram
in the hand of the receive thread, and a network that may bring anything
(`Datagram`): a `UDPBASE_PACKET` of any type, length, data and checksum, whoever
sent it, or a datagram that is short, empty or too long. The checksum is the sum
of the data's bytes in a BYTE, modulo `ByteCount`; type and length are not in it,
and the sender's address is handed on without being looked at.

**`ENetClient`** has a `CENetClient` at each end. Of ENet
(`src/3rdparty/enet/enet-1.3.15`) it has what `ENetProcess` meets: one slot per
end (`Free`, `enet_peer_reset`), a connection numbered by the attempt it belongs
to, a request that finds the slot free, perhaps late (`Answer`,
`enet_protocol_handle_connect`), its confirmation (`Confirms`,
`enet_protocol_handle_acknowledge`) or the want of one (`Forget`,
`enet_protocol_check_timeouts`), and reliable packets in order until the path is
lost. A stray may take the slot of either end when it is free: the host's before
the guest's request, the guest's once its attempts have failed or its host has
gone (`AnswerStray`). `slot[e].data` is whether `peer->data`, the tag by which
`ENetProcess` knows its peer, is set: it holds the peer's tcpid, and the server
counts those from 1 (P2PServer.cpp:13), so it is NULL for a peer only if 2^32
clients have come. `thr` is
the station of the one thread of an end, and of `Init` before it; `ENetLocked` and
`FuncLocked` are `m_csENetLock` and `CENetClient::m_csLock` by the stations that
hold them.

The modules `MC...` declare the model values, the symmetry and the state
constraints of the runs. The definitions in the modules that open with the
comment "mutant" are the wrong versions of operators that the runs are tested
against: every property of a passing run fails for one of them.

## 4. Runs

Symmetry is used in `rendezvous` and `reuse` only, where no liveness is checked.

| run | instance | what it shows |
|---|---|---|
| `rendezvous` | 3 sockets, 1 keyword, 3 ids; 0.8M states | `ImplementsRendezvous`; `TypeOK`, `UniqueKeyword`, `SessionMembersLive`, `OneSessionPerSocket`, `FaultOnlyOnOrphan`, `ConnectedMeansConfirmed`, `StreamOrder`, and the inductive invariant `IInv` |
| `reuse` | 3 sockets, 2 keywords, 2 ids; 0.24M states | ids wrap around and are reused: `ListedUnderLiveId`, `DeadEntryInert`, `PunchAddresses` |
| `liveness` | 2 sockets with datagrams, or a host and 2 guests without, relay requests, fair threads; 77k states | `KeywordFreed`, `GuestEvicted`, `Answered`, `ProxyAnswered` |
| `open` | host, guest and server, datagrams may get through, the guest may turn to the relay; 0.86M states | `TunnelTypeOK`, `TransportsAgree`, `ENetMeansPunched`; `Spec`: the clients are clients as `P2PServer` assumes them |
| `blocked` | no datagram gets through, both may turn to the relay, the guest sends over it and its socket may be cut, fair threads; 0.25M states | `HostNotStranded`, `RelayAnswered` |
| `link` | a 3-byte packet and a bare 2-byte header to the client over a wire and a buffer of 4 bytes, `Done` at both ends, a cut, fair threads; 0.16M states | `ImplementsFifo`, `NoLostWakeup`, `InFrame`, `SilentAfterDone`; `Delivered`, `ThreadsEnd` |
| `framing` | reads of 1 to 3 bytes, packets of 2 and 3, at most 5 bytes in the buffer; 43k states, with deadlock checking | `ImplementsByteQueue`, `TotalExact` |
| `datagrams` | any datagram of 2 types, 2 bytes of data and a checksum (a byte has 3 values), 2 pushed, 2 arriving, `Stop` at any moment, fair threads; 0.23M states | `DamageShows`, `SurvivesStrays`, `SilentAfterStop`, `LeavesInOrder`; `Drained`, `StopEnds` |
| `enet` | 2 attempts, 2 packets of the guest, the host answers from its callback, a stray at each end, a lost path, `Done`, fair threads; 0.17M states | `ImplementsFifo`, `SilentAfterDone`; `Delivered`, `DoneEnds` |

Why the bounds are enough. Three sockets are what a session and a competitor
take: two hosts and a guest, or two guests and a host. Two ids for three sockets
make every id wrap; a second keyword lets datagrams miss. One packet in flight
per client (`MaxC2S`) still interleaves with every step of the server because
dispatch, use and reply are separate steps; a client sends a second packet
without waiting for an answer only for `TPT_P2P_RESULT` and the relay request.
`MaxRetry` is 10 in the code (P2PClient.cpp:281 and 341) and 1 here: datagrams
are kept in sets, so a second round sends what is already there and only moves
the counter. `MaxAsk` is what the code does, a client asks for the relay once
per connection: `open` checks it for the guest, as part of `Spec`.

A 3-byte packet followed by a bare header on a wire of 4 bytes is written in
pieces, read in pieces, joined in the buffer and cut in two, and a header may
arrive without its body; a buffer of 4096 bytes is a `BufferLen` of 4 that is
shorter than the two packets together. The other direction carries no packets in
`link`: the two directions share no more than the stop events and the line. The
blocks of `framing` hold less than a header, a header, a packet, and parts of two.
Sums of `datagrams` overflow (`ByteCount` 3), and the datagrams that arrive are all
there are: each damage of each datagram, and each that fits by accident. In
`liveness` the third socket is the guest that finds the session taken, which is
answered with `P2P_STATE_MISMATCH`. Two attempts are one that is given up and the one after it.

State constraints restrict the environment or the question, and none stops a
step that fairness owes except as said here. `InOrder` and
`ThirdIsGuest`, in `liveness`, fix the order in which sockets are accepted, the role of
a third one, and that there are no datagrams when there is one: nobody owes a
connection or a datagram. `HostFirst` drops the runs in which
the guest connects before the host knows it is registered: accepting a socket is
owed to nobody, and the run `rendezvous` has all orders. `FullFirst` and `InTurn`
fix which packet is pushed first: nobody owes a push. In `open`, `GuestAsks`
drops the host's time-outs; `blocked` has them at both ends, but by `QuietCut` not
together with a cut, so what `RelayAnswered` says of a host that asks is not
checked after its guest's socket was cut. `NoRelay`, in `deadlock`, only makes the
counterexample shorter.

Deadlock is checked in `framing` only: a server whose clients have left, a client
that returned from its main function and a connection whose threads have ended
rightly stop.

Some properties have a reading worth spelling out.

* `FaultOnlyOnOrphan` does not say the server never crashes. A thread that
  found a session just before its host left still follows a NULL
  `m_pMainTCPServer` in `DumpP2PConnection`. The property and its theorem say
  this is the only way, and that the guest's pointer is never the cause.
* `ConnectedMeansConfirmed` excepts sessions that began with flags of an earlier
  guest, which `ConnTCPDisconnect` does not reset; `past[h].leftover` names them.
* `Answered` and `ProxyAnswered` allow the process to have died or the socket to
  have ended: the code promises nothing then. `RelayAnswered` and
  `HostNotStranded` allow the client to have been told to stop.
* `TransportsAgree` and `ENetMeansPunched` speak of a host's first guest
  (`FirstGuest`), and `TransportsAgree` of a host that is the first of its keyword to
  have one (`OnlyHost`). The later ones meet what their predecessors left: flags that
  are not reset, and requests for the relay that carry only the keyword.
* `DamageShows` is about the data of a datagram, and about one changed byte. The
  sum leaves out type and length (UDPBase.cpp:12), so a damaged type is given as it
  is; two changed bytes may cancel out; and a stranger's datagram whose length and
  sum fit is given like any other (UDPBase.cpp:247). Nothing in the repository says
  otherwise.
* `SurvivesStrays` allows an empty or oversized datagram to end the receive
  thread, because it does (UDPBase.cpp:229); the point is that no shorter,
  longer or damaged one that fits the buffer does.
* `Delivered` of `ENetClient` asks for an attempt that succeeded and a path that
  lasts: after the last failed attempt (ENetClient.cpp:103) and after a
  disconnect the packets stay in the list.
* `DoneEnds` allows for one state, `Embraced`, the deadlock described below.

### Where code and comments disagree

Each of these runs looks for a counterexample, and TLC finds it; each passes
with the correction in the last column.

| run | property | what happens | passes with |
|---|---|---|---|
| `timeout` | `PunchTimeoutRelays` | `P2PClient.cpp:288` joins `Ret != WAIT_OBJECT_0` and `Ret != WAIT_TIMEOUT` with an "or", which is always true: a punch without an answer never turns to the relay | an "and", as in line 348 |
| `wakeup` | `RelayOpens` | `P2PHost.cpp:64` and `P2PGuest.cpp:44` read the status and then reset the event, and so lose the news that the relay is open | resetting first |
| `deadlock` | `ENetStarts` | `P2PConnectEventProcess` waits for `m_csRecvFunc` with `m_csUDPLock` held, the UDP thread the other way round | answering outside the lock |

The first correction alone is not enough: with it TLC refutes
`TransportsAgree`, since one client may then time out and take the relay while
the other is already on its way to ENet.

Other flaws are part of the models, without a run of their own because no line
of the repository says otherwise; the properties above hold in their presence.

* The first packet that a client sends over an open relay ends the server:
  `P2PServer.cpp:411` takes the peer id for a pointer to the keyword
  (`DataProxy`, fault `keyword_pointer`; exercised in `blocked`).
* A thread that found a session just before its host left follows a NULL
  `m_pMainTCPServer` (`FaultOnlyOnOrphan`).
* A guest is deaf on ENet. Its `Init` consumes the event that connects it, and
  only the thread's own connect event sets `peer->data`; so the guest drops
  every packet it receives and ignores the disconnect (ENetClient.cpp:200).
* A host that closes while it answers a packet hangs: `Done` holds
  `m_csENetLock` and waits for the callback, the callback waits in `SendPacket`
  for `m_csENetLock` (P2PClient.cpp:136 and 208).
* An empty or an oversized datagram ends the UDP receive thread
  (UDPBase.cpp:229).

## 5. Fairness

In `P2PServer` each receive thread, the listen thread between `Init` and
`CreateTCPID` and the UDP thread while it holds a session are weakly fair: each
is an operating system thread whose next step no other thread disables for good
(a critical section is held for a few statements and is one step here). Nothing
is assumed of clients, of new sockets or of datagrams.

In `Tunnel` the three threads of a client are weakly fair too, and its stopping
of the UDP socket strongly: `Stop` takes `m_csRecvFunc`, which the UDP thread
releases after each callback and takes again for each datagram, so `Stop` is
enabled again and again rather than continuously. Critical sections get a waiter
in the end. Cuts, datagrams between clients and what the user sends owe nothing.
The three runs that look for a counterexample use exactly this fairness.

In `TCPLink` and `UDPBase` the two threads of an end are weakly fair, callbacks
return, and a call of `Done` or `Stop` that has taken the callback away goes on:
each is straight-line code of one thread. That a blocked write or read goes on
when the wire has room or bytes is part of the thread's fairness; the network
owes no datagram, nobody owes a push, a `Done`, a cut.

In `ENetClient` the thread is weakly fair, and the events ENet reports to a
thread that keeps calling `enet_host_service` are strongly fair: a call may time
out with nothing (`NoEvent`) but not for ever while an event is due. `Done` is
strongly fair for the lock the thread takes and releases in each round. That an
attempt succeeds is owed by nobody.

## 6. Proofs

The theorems hold for every set of sockets, keywords and packets, finite or not,
every number of ids, attempts and pushes, every length of packets, wire and
buffer.

| module | theorem | states |
|---|---|---|
| `P2PServer_proofs` | `Invariance` | `Spec => []IInv` |
| | `TypeCorrectness` | `[]TypeOK` |
| | `KeywordUniqueness` | `[]UniqueKeyword` |
| | `LiveIds` | `[]ListedUnderLiveId` |
| | `MembersLive` | `[]SessionMembersLive` |
| | `SingleSession` | `[]OneSessionPerSocket` |
| | `PunchAddressesRight` | `[]PunchAddresses` |
| | `FaultsAreOrphans` | `[]FaultOnlyOnOrphan` |
| | `RendezvousImplemented` | `Spec => ImplementsRendezvous` |
| `P2PServerHistory_proofs` | `ConfirmedByBoth` | `[]ConnectedMeansConfirmed` |
| | `DeadEntriesAreInert` | `[]DeadEntryInert` |
| | `StreamsAreOrdered` | `[]StreamOrder` |
| `Tunnel_proofs` | `TunnelInvariance` | `TunnelSpec => []TInv` |
| | `TunnelImplementsServer` | `TunnelSpec => Spec` |
| | `TunnelTypeCorrectness` | `TunnelSpec => []TunnelTypeOK` |
| | `HostsKeepTheirGuests` | `TunnelSpec => []HostNotStranded` |
| | `ENetPathsArePunched` | `TunnelSpec => []ENetMeansPunched` |
| | `TransportsNeverDiffer` | `TunnelSpec => []TransportsAgree` |
| `TCPLink_proofs` | `WakeupsNotLost` | `[]NoLostWakeup` |
| | `FramingKept` | `[]InFrame` |
| | `SilentOnceDone` | `[]SilentAfterDone` |
| | `LinkIsFifo` | `Spec => ImplementsFifo` |
| `DataStreamBuf_proofs` | `TotalIsExact` | `[]TotalExact` |
| | `BufferIsByteQueue` | `Spec => ImplementsByteQueue` |
| `UDPBase_proofs` | `DatagramsLeaveInOrder` | `[]LeavesInOrder` |
| | `SilentOnceStopped` | `[]SilentAfterStop` |
| | `StraysSurvived` | `[]SurvivesStrays` |
| | `DamageNeverGiven` | `[]DamageShows` |
| `ENetClient_proofs` | `SilentOnceDone` | `[]SilentAfterDone` |
| | `ENetIsFifo` | `Spec => ImplementsFifo` |

`QueueTheorems` holds what the last three components use of sequences and
loops. Pushing at the end and popping at the front of a list leave "what left,
then the list" unchanged as a whole; a sequence is its two pieces. `NatBySteps`
is induction for a set of numbers. The library's induction principles take an
operator, which the installed provers cannot instantiate, so it is proved from
the pigeonhole theorem: were a number missing, the successor function would be
one-to-one, hence onto, on the finite set below it, and 0 is no successor.
`LoopRuns` gives the states a loop goes through. With the two, what
`CalcCheckSum` and `GetDataCore` compute is proved for every length.

Assumptions: in the server, `IdCountAssumption` (there is an id) and
`NoneAssumption` (`None` is no socket and no keyword). In `Tunnel`,
`MaxRetryAssumption` and `MaxAskAssumption` (clients try at least once, and the
server's clients may ask for the relay, as the code's do), `SocketAssumption` and
`FlagAssumption` (hosts and cut sockets are sockets, flags are Booleans). In
`TCPLink`, `EndsDiffer`, `LengthOK`, `HeaderFits` (a packet is at least a header
long) and `BoundsOK`; in `ENetClient`, that the two ends differ and that its bounds
are numbers; in `DataStreamBuf`, `PacketLengths` (a header is not empty and bytes
are numbers; a length shorter than a header is covered too); in `UDPBase`,
`DataOK` (bytes wrap at `ByteCount`) and that its bounds are numbers.

**The server.** None of the properties is inductive by itself. `SessionMembersLive`
survives `TCPEndProcess` only if a guest is in no other session, because the loop
stops at the first; a guest is in one session because both its sessions would
carry its keyword (`SessionInv`) and a keyword names one session
(`UniqueKeyword`); a session carries its guest's keyword because the thread that
found it searched for that keyword and keeps holding a session of it
(`ThreadInv`); and it is not its own guest's session because a host's socket
carries no `TPT_CONNECT` (`ThreadInv`, roles). `ListedUnderLiveId` needs that an
id in `m_TCPList` is not given again, which is `CreateTCPID`'s search, and that
`RemoveTCPID` comes after the session is erased. `AddressInv` rests on `UDPInv`:
every datagram still around names its sender's role and keyword. `FaultInv` says
that a thread that met a NULL host holds a session whose host left. `IInv` is
the conjunction; it is an invariant of the run `rendezvous` as well. The proof
has one lemma per action for types and one for the rest; frame lemmas
(`SessionsKept`, `SessionChanged`, `UDPKept`, `ThreadsKept`, `ThreadsUntouched`)
say which parts of `IInv` an action keeps when it touches only one session, one
thread or the channels.

**History.** `ConfirmInv` adds to `IInv` that a flag of a session without
leftovers was set by a present party, and that a connected session has both
flags. `DeadEntryInert` needs `SilentInv`: a socket that has no tcpid yet was sent
nothing, has nothing under way to the server and is in no session; so one that is
entered in `m_TCPList` after its thread has ended was sent `TPT_INIT` only, and
never is anybody's host or guest.

`StreamOrder` counts copies in bags that only grow, so it needs to know what is
still owed. `OrderInv`: a party of a session whose addresses are about to be given
out was sent more `TPT_START_UDP`s than `TPT_CLIENT_INFO`s (`Owed`), and a guest of
any session exactly one `TPT_CONNECT_RESULT`, none as long as its request is under
way, being applied or refused. That a second request cannot follow is `GreetInv`: a
client that has not greeted has nothing under way, was sent `TPT_INIT` at most and
has no session; a greeting is in one place at a time.

**The whole system.** `TunnelImplementsServer` is the assumption the server's
theorems rest on, discharged: whatever the code's clients send, `P2PServer` lets
its own clients send. It cannot be proved from the clients alone. A greeting is
sent once because a client only reaches `TPT_INIT`'s state once, and
`TPT_PROXY_REQUEST` once because no second exchange begins unless the client was
told to stop; and that is so because the server sends no second
`TPT_START_UDP` to a guest, and to a host only behind a `TPT_RESET`, which stops
it. So the refinement and the invariant are one induction. `TInv` is the server's
`IInv`, `SilentInv`, `GreetInv` and `OrderInv` together with `ClientInv`, one conjunct
per question:

* `Informed`: all that is under way to a client was sent to it, and what its status,
  its saved status and its threads presuppose was sent (`Told`).
* `GreetsOnce`: the client that has not greeted is before its first packet.
* `AsksOnce`: the client that has asked for the relay is in no exchange, or was told
  to stop.
* `HostStream`, `GuestStream`: the order of what is under way. Between two
  `TPT_START_UDP`s to a host lies a `TPT_RESET`; if the host has no guest, one
  follows the last of them, and an engaged host that was not told to stop has one
  under way. The last clause gives `HostNotStranded`: with nothing under way there
  is a guest.

Each conjunct is kept by a client's step (`ClientInvStep`, one lemma per conjunct
and per thread) and by a server's step (`ServerInvStep`), and by `TunnelStep` both
are steps of `P2PServer`. All theorems about the server therefore hold of `TunnelSpec`,
for any number of hosts and guests.

Who punches to whom takes two invariants more.

* `PointInv` says which addresses the server gives out. Only a client that was told
  to start has sent its own (`Started`); the first guest of a host was sent the
  host's and the host its, and neither another (`PointsTo`, `PointsOnce`).
* `PunchInv` says what a confirmation is worth. A datagram goes to an address
  that was given out (`Aimed`), and that of the peer (`Remote`). A `TPT_P2P_RESULT`,
  from the datagram that sets it off to the thread that handles it, means that
  a keepalive went to its sender (`Confirming`, `Reached`), so the two flags of a
  session mean that both were reached (`Flags`), and the server's announcement that
  the two pointed at each other did reach each other (`BothReached`).

The last two give `ENetMeansPunched`. It speaks of keywords no guest has left
(`FirstGuest`); TLC refutes it without. A host that was sent `TPT_RESET` is about to
close, yet the server lists it until its socket ends and may give it a new guest,
and `ConnTCPDisconnect` leaves `m_bMainUDPOK` and `m_bConnUDPOK` set; so that guest
can be announced as connected to a host that never punched to it. What holds for every
session is `ConnectedMeansConfirmed`, which names the exception.

That the two clients of a session agree on its transport is the longest argument,
because each decides alone: `TCPProxyEventProcess` and `P2PConnectEventProcess` act
on two packets the server sends at different times, of which the first is obeyed in any
status and the second only while punching. Its invariant is `AgreeInv`. Four parts
are about one client:

* `AnswersOnly`: a keepalive answers a handshake. In a first session only the other
  of the two can have sent either, so a client that received a keepalive has itself
  sent a handshake before (`PeersShake`).
* `ExchangesOnce`: who has begun to punch does not come back into an exchange. A
  punch never gives up (`PunchReturns`), and no second `TPT_START_UDP` is
  under way to a guest, nor to a host that no guest has left.
* `Joined`, `Hosted`: only clients that were told to start ask for the relay, and the
  two of a session were sent what made them its two. So the one who asks for the
  relay of a first session is one of its two (`OneAsker`); this is where `OnlyHost`
  is needed, since the request carries only a keyword.

`RelaySession` is about the two clients of a first session (`FirstSession`), from the
step that makes it (`RelaySessionBegins`):

* `Twins`: the addresses, the announcement and the relay are each sent to both or to none.
* `AsksFirst`: a confirmation of a client is behind its request, in the stream and in
  the thread that applies it.
* `AsksNoMore`: a flag of the session, and the announcement, stand for clients that
  have sent a handshake and have no request under way (`Settles`).
* `Relayed`: once the relay is allowed, the host does not connect and will pass over
  the announcement (`Quits`); the guest does so too, or the host never punches
  (`NeverPunches`). To pass a packet over (`Passes`) is to be in relay mode, or to have
  `TPT_PROXY_RESULT` under way in front of every such packet, with no `TPT_START_UDP`
  behind that would lead out of relay mode again. The second case is the race of the
  code: the host's request opens the relay before the guest was told to start, and the
  guest's late `TPT_START_UDP` does lead it out, to a punch that the host never joins.

When the relay is allowed, the one who asked has not settled, so the announcement has
been sent to neither, and `TPT_PROXY_RESULT` is in front of it in both streams. A host
on ENet with a guest on the relay contradicts `Quits`; a guest on ENet with a host on
the relay was sent an announcement, for which the host had sent a handshake, and
contradicts both `Quits` and `NeverPunches`.

**Refinement of `Rendezvous`.** With `IInv`, a step either leaves the listed
sessions alone, or adds, changes or removes one. The three cases are lemmas about
the set `Rooms`; that a room is named by its keyword (`UniqueKeyword`) and its
host makes "the room of this session" well defined, and `OneSessionPerSocket` is
what `Register` and `Join` ask for with `Outside`.

**`TCPLink`.** `LinkInv` ties the counters to the packets. `Gapless`: the packets of
a stream start where their predecessors end, in increasing order (`Contiguous`).
`HasCut`: there is a number k of packets such that the receiver's `cut` is the start
of packet k + 1, and all k but the one in its hand were given to the callback as
long as there is one. From the two, a header is looked for only where a packet
starts, which is `InFrame`, and the next packet given is the next one pushed,
which is the refinement. `Ordered`: the stream and the send list together are what
was pushed.

**`ENetClient`.** `ENetInv`: what was pushed is what ENet was given followed by the
list, unless the connection is gone from the slot, or a stray has taken it (`Broken`),
when it stays a beginning of it; `SlotInv`: the tag `peer->data` is on the host's slot exactly while the
guest's connection is open there, so a stray's packet never reaches the callback;
`RecvInv`: what the host was given is the beginning of the stream, up to the packet
in its hand. `DoneInv` is `SilentAfterDone` made inductive.

**`DataStreamBuf`.** `BufferInv` says that a block in the list has something to
read, and that the total is the length of the concatenation of what is unread.
A turn of `GetDataCore` (`ReadBlockKeeps`) leaves "what was given, then the bytes of
the list" as it was, and ends the reading or takes a block out of the list; so after
as many turns as there are blocks all that was wanted was given
(`GetDataCoreGives`). Putting the header back in front makes the list's bytes what
they were, and the branch of `GetPacketFromBuffer` for a packet that comes short is
never taken.

**`UDPBase`.** `LeavesInOrder` is inductive with the types of the lists;
`SilentAfterStop` and `SurvivesStrays` with what the stations of the threads say
about the flags. Whatever reaches the socket, what is given fits its checksum
(`GivenInv`), so `DamageShows` is a fact about the sum (`DamagedIsInvalid`): the
partial sums of two pieces of data that differ in one byte are equal up to that
byte, differ there (adding modulo the range of a byte is one-to-one), and stay
different, so the checksum does not match; nor does a changed checksum. The theorem
is about one changed byte: two changes may cancel out.

Only model-checked, and why:

* all liveness (`KeywordFreed`, `GuestEvicted`, `Answered`, `ProxyAnswered`,
  `RelayAnswered`, `Delivered`, `Drained`, `ThreadsEnd`, `StopEnds`, `DoneEnds`): the
  prover has no rules for fairness and ENABLED.

## 7. Not modelled

* **Reference counts** (`AddRef`, `Release`; P2PConnection.cpp:376 releases a
  socket it does not own). The modules name sessions and sockets and so cannot
  see a freed object. A faithful model has every holder of every object, the
  threads' local pointers included, in one state; that multiplies the state
  space of `P2PServer`, which is at TLC's limit for three sockets. The line
  quoted is not reached: the dispatch that calls it dies before (section 4).
* **`CTCPService`'s end.** The listening thread and its `Done` are never stopped
  by the program: nothing calls `CTCPService::Done`, and the server runs until
  its process ends. `Accept` is modelled.
* **Socket wrappers**: `TCPCommon.cpp` and `UDPCommon.cpp` as their Windows branches
  behave (partial writes, interrupted calls, failures, an empty or oversized
  datagram). Their POSIX branches do not compile as they stand (`m_socket` in
  `InitBase`, `pdwWritten`). Binding and address conversion hold no state.
* **ENet, WinPR**: vendored. Events, critical sections and threads are modelled
  from how the code uses them. Of ENet the slot of a connection is modelled, from
  its source, and its packets, channels and timers are not.
* **Damaged and foreign datagrams above the socket**: `UDPBase` gives its callback
  any datagram whose length and sum fit; `P2PServer` and `Tunnel` have those of the
  clients only, lost, late and repeated, but neither damaged in the fields the sum
  leaves out nor sent by anyone else.
* **Logging, option parsing, library set-up, the guest's file and the host's
  output**: pure input and output.
* **The client's `m_csTCPLock`**, and the relay's data on its way to the
  receiving program: the server never forwards any.
