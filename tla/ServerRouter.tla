---------------------------- MODULE ServerRouter ----------------------------
(***************************************************************************)
(* ServerRouterImpl (src/common/ipc/server_router.cpp) of the daemon,      *)
(* driven by the events of its server pipe (UnixSocketServer,              *)
(* src/common/ipc/pipe/unix_socket_server.cpp).                            *)
(*                                                                         *)
(* Server endpoints are pairs <<ClientId, tag>>.  sgw[ep] is the latest    *)
(* GatewayImpl created for ep; "dropped" once the service released it.    *)
(* srvMap is the key set of endpoint_to_gateway_.  A service is the user   *)
(* handler a factory hands a new Channel to; it answers with payloads that *)
(* carry the request it was opened with.                                   *)
(***************************************************************************)
EXTENDS IpcCommon

VARIABLES
  srvState,    \* the server pipe: "idle", "listening", or "failed" to start
  srvId,       \* srvId[c]: ClientId the daemon gave to c's connection, 0 before accept
  srvOpen,     \* ClientIds with an open connection (client_id_to_fd_)
  lastCid,     \* unique_client_id_counter_
  factories,   \* service ids with a factory (service_id_to_channel_factory_)
  sgw,         \* sgw[ep]: the server GatewayImpl of endpoint ep
  srvMap,      \* endpoints in endpoint_to_gateway_
  srvEnded     \* history: endpoints whose ChannelEnd the daemon has read

serverVars == <<srvState, srvId, srvOpen, lastCid, factories, sgw, srvMap, srvEnded>>

Endpoints == ClientIds \X Tags

NoSrvGateway == [state |-> "none", svc |-> CHOOSE s \in Services : TRUE, payload |-> <<CHOOSE c \in Clients : TRUE, 1>>, sent |-> 0]

SrvGateway == [state : {"none", "alive", "dropped"}, svc : Services, payload : Payloads, sent : 0..MaxSends]

ServerTypeOK ==
  /\ srvState \in {"idle", "listening", "failed"}
  /\ srvId \in [Clients -> 0..Cardinality(Clients)]
  /\ srvOpen \subseteq ClientIds
  /\ lastCid \in 0..Cardinality(Clients)
  /\ factories \subseteq Services
  /\ sgw \in [Endpoints -> SrvGateway]
  /\ srvMap \subseteq Endpoints
  /\ srvEnded \subseteq Endpoints

ServerInit ==
  /\ srvState = "idle"
  /\ srvId = [c \in Clients |-> 0]
  /\ srvOpen = {}
  /\ lastCid = 0
  /\ factories = {}
  /\ sgw = [ep \in Endpoints |-> NoSrvGateway]
  /\ srvMap = {}
  /\ srvEnded = {}

\* The client process whose connection has ClientId cid.
ClientOf(cid) == CHOOSE c \in Clients : srvId[c] = cid

-----------------------------------------------------------------------------
(* Daemon set-up *)

\* registerChannel(name, handler) -> registerChannelFactory(service_id, f).
RegisterChannel(s) ==
  /\ s \notin factories
  /\ factories' = factories \cup {s}
  /\ UNCHANGED <<srvState, srvId, srvOpen, lastCid, sgw, srvMap, srvEnded, wireVars>>

\* ServerRouterImpl::start() -> UnixSocketServer::start(): socket, bind,
\* listen, and a readable callback on the listening socket.  socket, bind
\* (EADDRINUSE: another daemon holds the abstract name) or listen may fail;
\* start() then returns the error before registering the callback, and the
\* router's start() drops it, so the daemon runs on without listening.
ServerStart ==
  /\ srvState = "idle"
  /\ srvState' \in {"listening", "failed"}
  /\ UNCHANGED <<srvId, srvOpen, lastCid, factories, sgw, srvMap, srvEnded, wireVars>>

-----------------------------------------------------------------------------
(* Server pipe events *)

\* handle_accept(): a pending connection gets ClientId ++counter and its
\* own readable callback; the router's Connected handler does nothing.
Accept(c) ==
  /\ srvState = "listening"
  /\ srvId[c] = 0
  /\ link[c] \in {"up", "down"}
  /\ lastCid' = lastCid + 1
  /\ srvId' = [srvId EXCEPT ![c] = lastCid + 1]
  /\ srvOpen' = srvOpen \cup {lastCid + 1}
  /\ UNCHANGED <<srvState, factories, sgw, srvMap, srvEnded, wireVars>>

\* handle_client_request(): one whole frame is read from c's socket and
\* handed to the router as Message{client_id, payload}.
SrvReceive(c, kind) ==
  /\ srvId[c] \in srvOpen
  /\ toSrv[c] # <<>>
  /\ Head(toSrv[c]).kind = kind
  /\ toSrv' = [toSrv EXCEPT ![c] = Tail(@)]

\* RouteConnect: answered with RouteConnect{VERSION} on the same client.
SrvRecvConnect(c) ==
  /\ SrvReceive(c, "Connect")
  /\ toCli' = Write(toCli, c, Connect)
  /\ UNCHANGED <<serverVars, link>>

\* RouteChannelMsg on endpoint <<client_id, tag>>: an endpoint already in
\* the map gets the message (Message event; nothing here changes); else, if
\* the service has a factory, a new gateway is put in the map and the
\* factory called.  The factory decodes the input and hands the channel to
\* the service, which either keeps it (setEventHandler registers it again)
\* or not (decode failure, or the service lets it go): then ~GatewayImpl()
\* erases the endpoint before the factory returns.  Otherwise dropped.
SrvRecvChannelMsg(c) ==
  /\ SrvReceive(c, "Msg")
  /\ LET m  == Head(toSrv[c])
         ep == <<srvId[c], m.tag>>
     IN IF ep \notin srvMap /\ m.svc \in factories
          THEN \E keep \in BOOLEAN :
                 /\ sgw' = [sgw EXCEPT ![ep] = [state |-> IF keep THEN "alive" ELSE "dropped",
                                                svc |-> m.svc, payload |-> m.payload, sent |-> 0]]
                 /\ srvMap' = IF keep THEN srvMap \cup {ep} ELSE srvMap
          ELSE UNCHANGED <<sgw, srvMap>>
  /\ UNCHANGED <<srvState, srvId, srvOpen, lastCid, factories, srvEnded, link, toCli>>

\* RouteChannelEnd: the router's visitor has no case for it; ignored.
SrvRecvChannelEnd(c) ==
  /\ SrvReceive(c, "End")
  /\ srvEnded' = srvEnded \cup {<<srvId[c], Head(toSrv[c]).tag>>}
  /\ UNCHANGED <<srvState, srvId, srvOpen, lastCid, factories, sgw, srvMap, link, toCli>>

\* receiveMessage() reports end of stream: the client context is erased
\* (closing the fd) and the router gets Disconnected{client_id}, whose
\* handler is a TODO that does nothing.
SrvDisconnected(c) ==
  /\ srvId[c] \in srvOpen
  /\ link[c] = "down"
  /\ toSrv[c] = <<>>
  /\ srvOpen' = srvOpen \ {srvId[c]}
  /\ UNCHANGED <<srvState, srvId, lastCid, factories, sgw, srvMap, srvEnded, wireVars>>

-----------------------------------------------------------------------------
(* Operations of a service on the channel it kept. *)

\* GatewayImpl::send(): a RouteChannelMsg with the tag and service id (the
\* sequence field is never set, so it stays 0) and the payload, sent to
\* the endpoint's ClientId; a send to a closed client fails.
SrvGwSend(ep) ==
  /\ sgw[ep].state = "alive"
  /\ sgw[ep].sent < MaxSends
  /\ sgw' = [sgw EXCEPT ![ep].sent = @ + 1]
  /\ toCli' = IF ep[1] \in srvOpen
                THEN Write(toCli, ClientOf(ep[1]), ChannelMsg(sgw[ep].svc, ep[2], 0, sgw[ep].payload))
                ELSE toCli
  /\ UNCHANGED <<srvState, srvId, srvOpen, lastCid, factories, srvMap, srvEnded, link, toSrv>>

\* The service releases the channel: ~GatewayImpl() -> unregisterGateway()
\* erases the endpoint; no ChannelEnd is sent.
SrvGwDrop(ep) ==
  /\ sgw[ep].state = "alive"
  /\ sgw' = [sgw EXCEPT ![ep].state = "dropped"]
  /\ srvMap' = srvMap \ {ep}
  /\ UNCHANGED <<srvState, srvId, srvOpen, lastCid, factories, srvEnded, wireVars>>

ServerSetup == ServerStart \/ \E s \in Services : RegisterChannel(s)

ServerExecutor(c) ==
  \/ Accept(c) \/ SrvRecvConnect(c) \/ SrvRecvChannelMsg(c)
  \/ SrvRecvChannelEnd(c) \/ SrvDisconnected(c)

ServerService == \E ep \in Endpoints : SrvGwSend(ep) \/ SrvGwDrop(ep)

=============================================================================
