----------------------------- MODULE IpcSystem -----------------------------
(***************************************************************************)
(* The IPC routing core: the client routers of the client processes and   *)
(* the daemon's server router, joined by one Unix socket per client.      *)
(* The environment connects sockets (or refuses them while the daemon is   *)
(* not listening) and breaks them (a peer exits, the daemon is killed, an  *)
(* I/O error).  All handlers of one process run on its single-threaded    *)
(* executor, so each handler is one atomic step.                          *)
(***************************************************************************)
EXTENDS ClientRouter, ServerRouter

vars == <<wireVars, clientVars, serverVars>>

TypeOK == WireTypeOK /\ ClientTypeOK /\ ServerTypeOK

Init ==
  /\ link = [c \in Clients |-> "none"]
  /\ toSrv = [c \in Clients |-> <<>>]
  /\ toCli = [c \in Clients |-> <<>>]
  /\ ClientInit
  /\ ServerInit

\* The connect() of a client pipe completes: accepted into the listen
\* backlog if the daemon listens, refused (ECONNREFUSED) otherwise.
SocketConnect(c) ==
  /\ cpipe[c] = "connecting"
  /\ link[c] = "none"
  /\ link' = [link EXCEPT ![c] = IF srvState = "listening" THEN "up" ELSE "refused"]
  /\ UNCHANGED <<toSrv, toCli, clientVars, serverVars>>

\* The connection breaks: no further frame can be written on it.
LinkFail(c) ==
  /\ link[c] = "up"
  /\ link' = [link EXCEPT ![c] = "down"]
  /\ UNCHANGED <<toSrv, toCli, clientVars, serverVars>>

\* A step of one process leaves the other process's state alone.
ClientStep(A) == A /\ UNCHANGED serverVars
ServerStep(A) == A /\ UNCHANGED clientVars

Next ==
  \/ ServerStep(ServerSetup \/ ServerService)
  \/ \E c \in Clients :
       \/ ClientStep(ClientUser(c) \/ ClientExecutor(c))
       \/ ServerStep(ServerExecutor(c))
       \/ SocketConnect(c) \/ LinkFail(c)

\* Executors run every ready callback: each I/O handler, once enabled,
\* stays enabled until it runs.  User code and failures are not fair.
Fairness ==
  /\ WF_vars(ServerStep(ServerStart))
  /\ \A c \in Clients : WF_vars(ClientStep(ClientExecutor(c))) /\ WF_vars(ServerStep(ServerExecutor(c)))
  /\ \A c \in Clients : WF_vars(SocketConnect(c))

Spec == Init /\ [][Next]_vars /\ Fairness

-----------------------------------------------------------------------------
(* Properties *)

\* g is the gateway whose weak_ptr the router holds under g's tag, with a
\* handler set: the router will hand it events.
Registered(c, g) ==
  /\ Alive(c, g)
  /\ cgw[c][g].sub
  /\ cgw[c][g].tag \in DOMAIN epMap[c]
  /\ epMap[c][cgw[c][g].tag] = g

HasEvent(c, g, e) == \E i \in DOMAIN hist[c][g] : hist[c][g][i].ev = e

\* No cross-talk between channels: every Message the handler of client
\* gateway g receives answers a request g itself sent, although tags,
\* endpoints and ChannelEnds cross two routers and several gateways.
NoCrossTalk ==
  \A c \in Clients, g \in Gids : \A i \in DOMAIN hist[c][g] :
    hist[c][g][i].ev = "Message" => hist[c][g][i].payload = <<c, g>>

\* Whichever comes first, the subscription of a gateway (registerGateway)
\* or the server's RouteConnect (handleRouteConnect), once the router is
\* connected every registered gateway has been told Connected.
ConnectedDelivered ==
  \A c \in Clients, g \in Gids :
    isConnected[c] /\ Registered(c, g) => HasEvent(c, g, "Connected")

\* Completed is terminal (spec 8.6): after the Disconnected broadcast no
\* further event reaches the gateway's handler, even if it subscribes again.
TerminalCompleted ==
  \A c \in Clients, g \in Gids : \A i \in DOMAIN hist[c][g] :
    hist[c][g][i].ev = "Completed" => i = Len(hist[c][g])

-----------------------------------------------------------------------------
(* Refinement of GatewayEvents *)

\* The inputs the daemon has sent on the server endpoint <<ClientId, tag>>
\* of client gateway g, before its connection is accepted none.
ServerSent(c, g) ==
  IF srvId[c] # 0 /\ cgw[c][g].tag # 0 THEN sgw[<<srvId[c], cgw[c][g].tag>>].sent ELSE 0

ChannelView == INSTANCE GatewayEvents WITH
  events <- [c \in Clients |-> [g \in Gids |-> [i \in DOMAIN hist[c][g] |-> hist[c][g][i].ev]]],
  sent   <- [c \in Clients |-> [g \in Gids |-> ServerSent(c, g)]],
  closed <- [c \in Clients |-> [g \in Gids |-> cgw[c][g].state = "dropped"]]

\* The two routers, the socket and the daemon's services together keep the
\* promise of a gateway to its handler: Connected first and once, through
\* registerGateway or the RouteConnect broadcast; then only inputs its own
\* server endpoint sent, each at most once, through the tag lookup of
\* handleRouteChannelMsg; Completed, from the Disconnected broadcast, last;
\* and nothing after ~GatewayImpl.
GatewayEventsRefined == ChannelView!Spec

-----------------------------------------------------------------------------
(* What the spec says and the code does not do (checked for violation). *)

\* Every registered client gateway is eventually told Connected or
\* Completed (PopRootClient waits for one of them to call its receiver).
SubscriberAnswered ==
  \A c \in Clients, g \in Gids :
    Registered(c, g)
      ~> (HasEvent(c, g, "Connected") \/ HasEvent(c, g, "Completed") \/ ~Registered(c, g))

=============================================================================
