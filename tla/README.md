# TLA+ models of the OCVSMD IPC routing core

This directory holds TLA+ models of the inter-process communication layer of
the OpenCyphal Vehicle System Management Daemon (`src/src/common/ipc`). Each
module comes with the TLC configurations that check it.

## 1. Inventory of the system

### Components

| Component | Source | State | Operations |
|---|---|---|---|
| Client router | `common/ipc/client_router.cpp` | `last_unique_tag_`, `is_connected_`, `endpoint_to_gateway_` (tag → weak_ptr). Per gateway: `endpoint_` (tag), `sequence_`, `event_handler_` | `makeGateway`, `GatewayImpl::subscribe` (with or without a handler), `send`, `~GatewayImpl`, `start`. Pipe events: `Connected`, `Message` (RouteConnect / RouteChannelMsg / RouteChannelEnd), `Disconnected` |
| Server router | `common/ipc/server_router.cpp/.hpp` | `service_id_to_channel_factory_`, `endpoint_to_gateway_` ((ClientId, tag) → weak_ptr). Per gateway: its endpoint and handler | `registerChannelFactory`, `start`, gateway `send`, `~GatewayImpl`. Pipe events: `Connected` (TODO), `Message` (RouteConnect / RouteChannelMsg), `Disconnected` (TODO) |
| Server pipe | `common/ipc/pipe/unix_socket_server.cpp` | listening fd, `unique_client_id_counter_`, client contexts | `start`, `handle_accept`, `handle_client_request` |
| Framing | `common/ipc/unix_socket_base.hpp` | none (a stream of frames) | `sendMessage` (header write, then payload write), `receiveMessage` (validates the header, size ≤ 1 MiB) |
| Client pipe | `common/ipc/client_pipe.hpp`, `pipe/client_pipe.hpp` | interface only | `start`, `send`; events Connected / Message / Disconnected |
| Socket address | `common/io/socket_address.cpp` | none | `parse`, `connect`, `accept` (loops past per-connection errors) |
| PopRootClient | `sdk/svc/file_server/pop_root_client.cpp` | `receiver_`, `channel_`; the user's `Ptr` | `make`, `submitImpl`, release of the last `Ptr`, the handlers of Connected, Input and Completed |
| Others | `unix_socket_client.cpp`, engine helpers, UDP transport bag, relay declarations, test helpers | none relevant | not modelled (see section 5) |

### How they interact

A client process owns one client router over one client pipe, which is a Unix
socket to the daemon. The daemon owns one server router over the server pipe,
which accepts many clients. Each client is given a `ClientId` from an
increasing counter.

1. When the socket connects, the client router sends `RouteConnect`.
2. The server answers with `RouteConnect`, and the client router sets
   `is_connected_` and broadcasts `Connected` to its gateways.
3. A client gateway, identified by a tag from `++last_unique_tag_`, sends
   `RouteChannelMsg{tag, sequence_++, service_id}`.
4. The server looks up `(ClientId, tag)`:
   - For a new endpoint, it calls the factory registered for `service_id`.
     The service (`ServerRouter::registerChannel`) gets a new channel and may
     keep it or drop it.
   - For a known endpoint, it delivers the payload to that gateway's handler.
5. The server channel replies through its gateway with the same tag.
6. Dropping a client gateway erases its tag and sends `RouteChannelEnd`.
7. A socket break raises `Disconnected`. The client router then broadcasts
   `Completed` to its gateways.

All handlers of one process run on that process's single-threaded executor.

### Hard behaviours, the places where the code can go wrong

- **Two paths deliver `Connected`.** `registerGateway` delivers it when the
  router is already connected. Otherwise the `RouteConnect` broadcast does.
- **Tags are never reused, but the server ignores `RouteChannelEnd`.** The
  server keeps a stale channel open and may go on sending on the old tag.
- **The client's `Disconnected` handler acts only if the handshake completed.**
  Gateways that subscribed before the handshake get no event at all.
- **Server channels are held by `weak_ptr`.** If a service drops a channel
  while its entry stays in the map, later messages on that tag are swallowed.
- **The server's `Disconnected` handler is a TODO.** The endpoints of a dead
  client leak.
- **The server's `send` never sets `sequence`.** Nothing reads a sequence
  number, and the socket keeps order, so neither this nor the number a failed
  client send uses up can be observed.
- **The broadcast snapshot keeps every gateway alive until it has been handed
  the event.** This matters when a handler drops another gateway.
- **Framing is not atomic on a stream socket.** The header and the payload are
  two separate writes, and a short read of the header is fatal.
- **The daemon's start can fail unnoticed.** `ServerRouterImpl::start()`
  drops the error of `UnixSocketServer::start()` (socket, bind, listen), so
  the daemon runs on without a listener and every client is refused.
- **The daemon reads a payload with a blocking `read()`** on its only
  executor thread, right after the header. A client that stops between its
  two writes holds every other client up.
- **`accept()` loops past per-connection errors.** It returns once the
  backlog is empty (EAGAIN) or on a fatal error. The port parser accepts
  octal and hex ports (`strtoull` base 0).

## 2. Modules

| Module | Models | State (VARIABLES) ↔ code |
|---|---|---|
| `IpcCommon` | the wire: Route messages, Unix socket framing, the link | `link[c]` (none/refused/up/down), `toSrv[c]`, `toCli[c]`: FIFO sequences of whole frames. `Write` appends only while the socket is up, as a `send` on a dead socket fails |
| `ClientRouter` | `ClientRouterImpl` and its `GatewayImpl` | `cpipe[c]`, `isConnected[c]` = `is_connected_`, `lastTag[c]` = `last_unique_tag_`, `epMap[c]` = `endpoint_to_gateway_`, `cgw[c][g]` = a gateway object (state, tag, service, subscribed, `sequence_`), `hist[c][g]` = the events its handler received |
| `ServerRouter` | `ServerRouterImpl`, the accept and read paths of `UnixSocketServer` | `srvState` = the pipe idle, listening, or failed to start, `srvId[c]`, `srvOpen` = client contexts, `lastCid` = `unique_client_id_counter_`, `factories`, `srvMap` = `endpoint_to_gateway_`, `sgw[ep]` = server gateways, `srvEnded` = endpoints the client has ended |
| `IpcSystem` | both routers and the environment | `SocketConnect`, `LinkFail`, and the properties |
| `MCIpcSystem` | model values for TLC | `MCServices` |
| `Framing` | `UnixSocketBase::sendMessage` and `receiveMessage` over one direction of a Unix stream socket | `sent` = the `sendMessage` calls and their outcome, `wpc`/`wleft`/`wsys` = the writer inside the header or payload `write()`, `stream` = the bytes queued in the socket, `rpc`/`rsize` = the reader in step 1 or 2 of `receiveMessage`, `delivered` = the payloads its action got |
| `FrameQueue` | what framing promises: a FIFO of whole frames | `inFlight`, `received` |
| `GatewayEvents` | what a client gateway promises its handler (spec section 5, properties 5 and 6) | `events[c][g]` = the kinds of event given, `sent[c][g]` = inputs the daemon's end sent, `closed[c][g]` = the user dropped it |
| `SocketAddress` | `SocketAddress::parse` (unix, unix-abstract, tcp), `extractFamilyHostAndPort`, `strtoull` base 0, glibc `inet_pton`, and the Unix branch of `toString` | `conn`, `hint` = the arguments of `parse`, `addr` = its result, `text` = `toString()`, `again` = `parse(text, hint)`; `backlog` = the listening socket's pending connections (good or failing with a network error), `acall` = idle or inside `accept`'s loop, `arrived` = connections so far |
| `MCSocketAddress` | the connection strings for TLC | TCP hosts × port suffixes, paths over `{a, NUL}` |
| `PopRootClient` | `PopRootClientImpl` as the user of every gateway of each client, composed with `IpcSystem` | `owned[c][g]` = the user holds the `Ptr`, `submitted[c][g]` = `receiver_` is set, `seen[c][g]` = the events of the gateway its handler has run for, `rcv[c][g]` = the results `receiver_` was called with |
| `MCPopRootClient` | model values for TLC | `MCServices`, `MCPopService` |

Each action is one whole handler. For example:

- `Drop` is `~GatewayImpl`. It erases the tag and sends `ChannelEnd` if
  connected.
- `PipeDisconnected` clears `is_connected_` and broadcasts `Completed` to the
  snapshot of live gateways.
- `SrvRecvChannelMsg` covers the whole lookup: a known endpoint with a live
  gateway, an expired weak_ptr, and the factory path. In the factory path the
  service nondeterministically keeps or drops the new channel.

The payload of a client request is `<<c, g>>`, the identity of the sender. A
service echoes it back, so a Message that reaches the wrong gateway is
visible.

Frames are atomic and in order, which matches a `SOCK_STREAM` socket as long
as writes are not split (see section 5). A broken link accepts no new frames,
but the peer still reads what is already buffered. The client pipe's
`Disconnected` comes only after the executor has drained the queue.

### Framing at the byte level

`Framing` abstracts a byte to its place in a frame (frame, header or
payload, offset). A header read from anything but one frame's header
bytes fails the signature check. The kernel is modelled at the level of its
guarantees:

- A `write()` is queued in chunks of at most `Chunk` bytes. Each chunk is
  queued atomically while fewer than `SockBuf` bytes are in flight.
- A blocking writer waits for room. A non-blocking one returns the count
  queued so far, or `-1/EAGAIN` if that is zero.
- A `read()` returns `min(queued, requested)` bytes, or 0 at end of stream.
- After the reader has closed its fd, a write fails with `EPIPE`.

The reader's fd is blocking, since `UnixSocketServer` never sets
`O_NONBLOCK` on an accepted socket. `posixSyscallError` is not in the
repository; it is taken to return `errno` exactly when the call returned -1,
so a short count is success.

`FrameQueue` is the abstract channel. `Framing` is shown to implement it
through `FQ == INSTANCE FrameQueue WITH ...`:

- `received` is the frames the action was called with.
- `inFlight` is the frames sent, and not lost to an early error, that the
  reader has not yet delivered.

`FrameQueueSpec` is checked as a temporal PROPERTY. It includes weak
fairness of `Take`, which `Framing` earns from weak fairness of the reader
and of the kernel's chunk queueing.

### What a gateway promises, and the refinement

`GatewayEvents` states, from the spec alone, what the handler of a client
gateway may be given: at most one `Connected`, and it comes first; then
inputs, never more than the daemon's end of the channel has sent; then at
most one `Completed`, which is last; nothing once the user has dropped the
gateway. One step may give the same event to several gateways of a client,
as a broadcast does.

`IpcSystem` implements it through `ChannelView == INSTANCE GatewayEvents
WITH ...`:

- `events` is the kind of each event in `hist`.
- `sent` is the `sent` count of the server gateway on the endpoint
  `<<srvId[c], tag>>` (`ServerSent`).
- `closed` is "the `GatewayImpl` is destroyed".

`GatewayEventsRefined` is checked in the `pop_root` run. It ties the client
router's two paths to `Connected`, its tag lookup and its `Disconnected`
broadcast to what the daemon really sent. The routing run does not check it:
there a user may subscribe again, and a second `subscribe` while connected
gives a second `Connected` (section 3).

### Socket addresses

A string is a sequence of one-character strings, and `NUL` stands for
`'\0'`. `CStr` cuts a string at its first `NUL`, as `c_str()` does for
`strtoull`, `inet_pton` and `strncpy`.

- `strtoull` is modelled with its blanks, sign, base prefix and `end_ptr`.
- `Pton4` is glibc's `inet_pton4`, including the leading-zero rule.
- `Pton6` is glibc's `inet_pton6`, without the dotted-quad tail.

The address record holds the family, the wildcard flag, the port, the IP
bytes, `sun_path`, `addr_len_`, and `wr`, the bytes written into
`sun_path`. `TcpParseMatchesGrammar` compares `parse` with `RefTcp`, a
reference written from the grammar of spec 4.A and not from the code.

The operators pass intermediate results as arguments rather than binding
them with `LET`. TLC's coverage profiler expands a `LET` definition at every
use, and nested ones would make its cost tree exponential.

### PopRootClient

`PopRootClient` extends `IpcSystem`. `Make` is `PopRootClient::make`, whose
constructor makes the channel; `SubmitImpl` sets `receiver_` and subscribes;
`Release` drops the last pointer. A gateway's handler runs inside the router
call that delivers the event (`GatewayImpl::event`), so the router's step
appends the event to `hist` and `HandleEvent` then runs the handler. While an
event is `Pending`, no other step of that client process can run; the daemon
and the kernel can. `HandleConnected` sends the request. `GatewayImpl::send`
can only fail there through the pipe, because `is_connected_` is always
set when Connected is delivered. A failed send calls `receiver_(Failure)`.
`HandleCompleted` calls `receiver_` with the Completed outcome. The
`Channel` wrapper is not in the repository. Following spec 4.D it reports
the router's `Disconnected` as `Completed` with an error, so that outcome
is `Failure`.

The receiver is user code. `Calls` lets it release the last `Ptr` of any
`PopRootClient` of its process, its own included. A release outside a
delivery (`Release`) destroys the gateway at once (`Drop`). A release from a
receiver during a broadcast only clears `owned`: `forEachGateway` holds a
strong pointer to every gateway of its snapshot, so the gateway stays alive
(`Doomed`) and is destroyed by `Collect` when the delivering call returns.
`Busy` keeps the client's other steps out until then. A doomed gateway that
is still in the snapshot is handed the event, and its handler runs on a
`PopRootClientImpl` that has been destroyed; `pop_root_reentrant` shows it.

### Accept

`Arrive` puts a connection on the listening socket's backlog, good or one
that Linux's `accept()` reports with a per-connection network error
(ECONNABORTED, EPROTO, ENETDOWN, ...). Such an error consumes its
connection, and `accept` (`socket_address.cpp:215-287`) loops again. An
empty backlog is EAGAIN and ends the call; EMFILE and the other fatal errors
end it with the connection left queued. EINTR is not modelled: the socket is
non-blocking, so `accept()` never sleeps. `AcceptReturns` says every call
returns.

### Fairness

`WF` applies to each process's executor actions (`ClientExecutor(c)`,
`ServerExecutor(c)`), to `ServerStart` and to `SocketConnect`. The reasons:

- The executors run every ready callback. `VirtualTimeScheduler::spinFor`
  in the tests shows the loop; in production it is the epoll executor.
- `ServerStart` and `SocketConnect` are called by the daemon's `main` and by
  the kernel, and they complete.

In `PopRootClient` the handler step and `Collect` are fair as well, because a
handler runs to its end inside the delivering call, and the call then
returns. In `SocketAddress`, `AcceptIter` is fair: the loop runs without
waiting on anything.
User actions (make, subscribe, send, drop) and link failures are not fair.
No code obliges them to happen.

## 3. Runs

The routing runs use `Clients = {c1}` and `Services = {svcA, svcB}`.
`CHECK_DEADLOCK FALSE` is set because a system whose bounds are used up is an
idle executor that waits for events, which is a legal end. The same holds for
a framing stream after its last frame, and for the parse call sequence,
which ends after its second parse.

| Run | cfg | Bounds (gateways / sends / subscribes) | Result |
|---|---|---|---|
| routing_safety | `MCIpcSystem.cfg` | 2 / 1 / 2 | pass, about 2.6 M distinct states. Checks TypeOK, NoCrossTalk, ConnectedDelivered, TerminalCompleted. The two endpoint maps are not checked: each destructor erases its own entry unconditionally (`client_router.cpp:143`, `server_router.cpp:147`), so no stale entry can arise |
| pop_root | `MCPopRootClient.cfg` | 2 / 2 / 1 | pass, 100,040 distinct states (the daemon may answer a request twice, so a handler sees two inputs; PopRootClient itself sends once). Checks PopTypeOK, GatewayEventsRefined (each handler's events refine `GatewayEvents`, however subscribe and RouteConnect race) and AnsweredOnLoss (a connection lost after Connected reaches the receiver, while receivers release other clients) |
| pop_root_twice | `MCPopRootTwice.cfg` | 1 / 1 / 1 | violation of ReceiverAtMostOnce |
| pop_root_unanswered | `MCPopRootUnanswered.cfg` | 1 / 1 / 1 | violation of AnsweredWhileUp |
| pop_root_reentrant | `MCPopRootReentrant.cfg` | 2 / 1 / 1 | violation of NoHandlerAfterRelease |
| subscriber_answered | `MCSubscriberAnswered.cfg` | 1 / 0 / 1 | violation of SubscriberAnswered |

All framing runs use `HdrLen = 2`, `Chunk = 2` and `SockBuf = 3`.

| Run | cfg | Bounds | Result |
|---|---|---|---|
| framing_blocking | `MCFraming.cfg` | blocking writer; sizes {1, 2}, `MsgMaxSize = 2`, 4 frames | pass. Checks TypeOK, FramesIntact, ValidFramesAccepted and the refinement FrameQueueSpec |
| framing_nonblocking | `MCFramingNonBlocking.cfg` | non-blocking writer; sizes {1, 2, 3}, `MsgMaxSize = 2`, 3 frames | pass. Checks TornOrIntact and ValidFramesAccepted, with EAGAIN, EPIPE and an oversized frame |
| framing_torn | `MCFramingTorn.cfg` | non-blocking writer; sizes {1, 3}, `MsgMaxSize = 3` | violation of FramesIntact |
| framing_large | `MCFramingLarge.cfg` | blocking writer; size 3 > `SockBuf` | violation of ValidFramesAccepted |
| address_parse | `MCSocketAddress.cfg` | `sun_path` of 4 bytes; TCP strings with decimal ports; paths of 0 to 4 bytes over {a, NUL}; hints {0, 9}; up to 3 connections, backlog of 2 | pass, 12,528 distinct states. Checks TypeOK, TcpParseMatchesGrammar, SunPathInBounds, AbstractRoundTrip and AcceptReturns |
| address_port_base | `MCSocketAddressPortBase.cfg` | ports `010`, `0x10`, ` 8`, `+8`, `08`, `-0` | violation of TcpParseMatchesGrammar |
### Why these bounds are enough

- **Two gateways** are enough for cross-talk and for tag reuse. A mutant that
  reuses a tag is found.
- **Two subscribes** cover re-subscription after an unsubscribe.
- **One send per gateway** creates a server endpoint through the factory, in
  both its "kept" and "dropped" variants, and gives a reply.
- **One send is a PopRootClient's request**, and one subscribe is its
  `submit`. **Two PopRootClients** in one process are the least for a
  receiver that releases another client during a broadcast; both are in the
  snapshot of the `Connected` and the `Disconnected` broadcasts.
- **Accept.** Three connections through a backlog of two give a network error
  between good connections, a full backlog, and EMFILE with connections
  left queued.
- The link can fail at every point, including before the handshake.
- **A second client** would only add isolation between `ClientId`s, which are
  never reused. That run is planned (section 4).
- **Framing.** A 3-byte buffer with 2-byte chunks puts a frame of 2 or more
  payload bytes across two chunks. The reader can then run between the two
  chunks, and a non-blocking writer can find the buffer full in the middle
  of a frame. Sizes 1 and 2 reach the limit check on both sides of
  `MsgMaxSize`, and size 3 goes past it. Three or four frames are enough to
  put a torn frame between two good ones.
- **Addresses.** With a 4-byte `sun_path`, paths of 0 to 4 bytes cover
  "fits", "fits exactly" and "one byte too long" for both Unix forms. NUL
  bytes are placed first, in the middle and last. The TCP hosts cover IPv4,
  bracketed and bare IPv6, the wildcard in both forms, an unclosed bracket,
  and hosts that `inet_pton` rejects. The port suffixes include 65535,
  65536, an empty port, and trailing junk.

### What the violations show (PROJECT.json "findings")

- **A released client's handler runs.** Two PopRootClients are told
  `Connected` by one broadcast, and the link then fails. The first one's send
  fails, and its receiver releases the second. The second is still in the
  snapshot (`client_router.cpp:254`), so its handler runs, through a lambda
  that captured a `PopRootClientImpl` that no longer exists. The spec says a
  dropped channel is Closed for good.
- **Receiver called twice.** A client may subscribe after the socket broke
  and before the pipe's `Disconnected` is handled. It is then told Connected
  at once, its request's send fails, and `receiver_(Failure)` is called
  (`pop_root_client.cpp:69`). The `Disconnected` broadcast that follows
  completes the channel and calls `receiver_` again (line 82).
- **A served request is never completed.** The daemon answers the request
  and its service drops the channel. AnsweredWhileUp asks for an answer only
  after that release, so neither a daemon that never registered the service
  (spec: such a request is dropped) nor a service that keeps its channel
  violates it. No `ChannelEnd` is sent, and the
  client's `handleRouteChannelEnd` is empty anyway (`client_router.cpp:360`).
  So while the connection stays up, `PopRootClient`'s receiver is never
  called, and `Success` is never delivered. Spec sections 3 and 4.E say
  `ChannelEnd` completes the endpoint.
- **Torn frames.** `sendMessage` treats a short `write()` as success
  (`unix_socket_base.hpp:49`). On a non-blocking socket the reader then takes
  the next frame's header bytes as payload. Spec 4.A says partial writes must
  be looped.
- **Large frames.** `receiveMessage` reads the payload with a single `read()`
  and fails with EINVAL when it gets fewer bytes (`unix_socket_base.hpp:100`).
  A valid frame larger than what the socket hands over at once therefore
  closes the connection, against the 1 B to 1 MiB round trip of spec 8.4.
- **Non-decimal ports.** `strtoull(..., 0)` reads `010` as 8 and `0x10` as
  16, and it accepts blanks, `+` and `-0` (`socket_address.cpp:502`). Spec
  4.A says ports are decimal.

The server's `Disconnected` handler is an empty TODO
(`server_router.cpp:234-238`), so the endpoints of a dead client always leak.
This is listed as a hazard; no run is spent on a leak the code states itself.
Two divergences are plain in the code, so no run checks them either. The
daemon never sets the `sequence` of the messages it sends, so they all carry
0 (`server_router.cpp:150-162`). The daemon ignores a client's
`RouteChannelEnd` (`server_router.cpp:216-227`), so its endpoint stays in the
map; spec line 286 notes this itself. Subscribing a second time while
connected tells the gateway `Connected` again (`client_router.cpp:182-211`);
`PopRootClient` subscribes once, and `GatewayEventsRefined` checks that one
subscription gives one `Connected` whichever way it races `RouteConnect`.
When the daemon fails to start, its clients are refused, and a gateway
subscribed before the handshake hears nothing: that is the case
`subscriber_answered` shows, reached by another path
(`server_router.cpp:58`).
The daemon's blocking payload `read()` (`unix_socket_base.hpp:91`) is listed
as a hazard without a property: `Framing` has one stream, and the other
clients it would starve are not in that module.
`toString` of a filesystem Unix address keeps the terminator that
`addr_len_` counts (`socket_address.cpp:81`), so its text ends in a NUL byte.
Nothing states that this text must parse back, and `toString` has no caller,
so it is listed as a hazard only.
- **No event before the handshake.** A gateway that subscribed before the
  handshake gets no event if the socket breaks first
  (`client_router.cpp:311`). A `PopRootClient` receiver then waits forever.

Each property of a passing run has a mutant in PROJECT.json: a plausible bug
in the mapped action, which TLC finds.

## 4. Plan: what comes next, in build order

1. *(done)* `IpcCommon`, `ClientRouter`, `ServerRouter` and `IpcSystem`.
2. *(done)* **Broadcast reentrancy.** `PopRootClient` delivers each event of
   a broadcast separately, and a receiver may release any client in between
   (`Doomed`, `Collect`).
3. *(done)* **`PopRootClient`** as the user of a client gateway.
4. *(done)* **`Framing`** and its refinement of **`FrameQueue`**.
5. *(done)* **`SocketAddress` parsing** and the `accept` loop. Still to do:
   `connect`'s EINPROGRESS handling.
6. *(done)* **`GatewayEvents`**, the abstract gateway, and its refinement
   by `IpcSystem`.
7. **A two-client run** for cross-client isolation under symmetry of
   `Clients`. The project is at its limit of twelve runs, so this run
   would have to replace one. Server endpoints are keyed by
   `<<ClientId, tag>>` and `ClientId`s are never reused, so the isolation
   is structural. One client with two gateways already checks the tag
   lookup.

## 5. Not modelled, and why

- **`UnixSocketClient`.** A blocking legacy client that the routers do not use.
- **The client pipe implementation.** It is not in the repository, so its
  events are modelled from the spec.
- **Error-code helpers and platform errors.** Stateless mappings.
- **The Cyphal UDP transport and the relay services.** Outside the routing
  core.
- **Object lifetime inside a running callback.** `handle_client_request`
  destroys its own callback. TLA+ does not represent this.
- **Logging and the exact byte layout of the DSDL serialisation.** A Route
  message is a record.
