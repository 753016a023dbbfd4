---------------------------- MODULE ClientRouter ----------------------------
(***************************************************************************)
(* ClientRouterImpl (src/common/ipc/client_router.cpp) of every client     *)
(* process, together with the events of its ClientPipe.                    *)
(*                                                                         *)
(* A client gateway is identified by its creation order g \in Gids; the    *)
(* router only knows it by the tag it was given.  endpoint_to_gateway_ is  *)
(* epMap[c], a function from tags to gateway identities (the weak_ptr);    *)
(* a gateway that is no longer "alive" stands for an expired weak_ptr.     *)
(* hist[c][g] is the sequence of events handed to the gateway's handler.   *)
(***************************************************************************)
EXTENDS IpcCommon

VARIABLES
  cpipe,        \* cpipe[c]: "idle", "connecting", "connected", "disconnected"
  isConnected,  \* is_connected_
  lastTag,      \* last_unique_tag_
  cgw,          \* cgw[c][g]: the GatewayImpl object g of client c
  epMap,        \* endpoint_to_gateway_
  hist          \* hist[c][g]: events delivered to the handler of g

clientVars == <<cpipe, isConnected, lastTag, cgw, epMap, hist>>

NoGateway == [state |-> "none", tag |-> 0, svc |-> CHOOSE s \in Services : TRUE,
              sub |-> FALSE, seq |-> 0, nsub |-> 0]

Gateway == [state : {"none", "alive", "dropped"}, tag : 0..MaxGateways, svc : Services,
            sub : BOOLEAN, seq : 0..MaxSends, nsub : 0..MaxSubscribes]

Events == {[ev |-> "Connected"], [ev |-> "Completed"]}
          \cup [ev : {"Message"}, seq : 0..MaxSends, payload : Payloads]

ClientTypeOK ==
  /\ cpipe \in [Clients -> {"idle", "connecting", "connected", "disconnected"}]
  /\ isConnected \in [Clients -> BOOLEAN]
  /\ lastTag \in [Clients -> 0..MaxGateways]
  /\ cgw \in [Clients -> [Gids -> Gateway]]
  /\ \A c \in Clients : DOMAIN epMap[c] \subseteq Tags /\ \A t \in DOMAIN epMap[c] : epMap[c][t] \in Gids
  /\ hist \in [Clients -> [Gids -> Seq(Events)]]

ClientInit ==
  /\ cpipe = [c \in Clients |-> "idle"]
  /\ isConnected = [c \in Clients |-> FALSE]
  /\ lastTag = [c \in Clients |-> 0]
  /\ cgw = [c \in Clients |-> [g \in Gids |-> NoGateway]]
  /\ epMap = [c \in Clients |-> <<>>]
  /\ hist = [c \in Clients |-> [g \in Gids |-> <<>>]]

-----------------------------------------------------------------------------
(* Helpers *)

\* The weak_ptr under tag t of client c locks to a live gateway.
Lockable(c, t) == t \in DOMAIN epMap[c] /\ cgw[c][epMap[c][t]].state = "alive"

\* endpoint_to_gateway_.erase(t)
Erase(m, t) == [x \in DOMAIN m \ {t} |-> m[x]]

\* forEachGateway(action): the snapshot of the gateways whose weak_ptr locks.
\* GatewayImpl::event() passes the event on only if a handler is set.
Snapshot(c) == {epMap[c][t] : t \in {u \in DOMAIN epMap[c] : Lockable(c, u)}}
Broadcast(c, e) ==
  hist' = [hist EXCEPT ![c] = [g \in Gids |->
             IF g \in Snapshot(c) /\ cgw[c][g].sub THEN Append(@[g], e) ELSE @[g]]]

Alive(c, g) == cgw[c][g].state = "alive"

\* The next GatewayImpl object to be created by client c.
NextGid(c) == CHOOSE g \in Gids : cgw[c][g].state = "none" /\ \A h \in 1..(g - 1) : cgw[c][h].state # "none"

-----------------------------------------------------------------------------
(* Operations of the user of the client library (Gateway / Channel). *)

\* Mutants of makeGateway(): the tag skips a value; the counter is not
\* advanced, so the next gateway gets the same tag.
MakeGatewayTagSkips(c) ==
  /\ \E g \in Gids : cgw[c][g].state = "none"
  /\ lastTag' = [lastTag EXCEPT ![c] = @ + 2]
  /\ \E s \in Services :
       cgw' = [cgw EXCEPT ![c][NextGid(c)] =
                 [NoGateway EXCEPT !.state = "alive", !.tag = lastTag[c] + 2, !.svc = s]]
  /\ UNCHANGED <<cpipe, isConnected, epMap, hist, wireVars>>

MakeGatewayTagNotAdvanced(c) ==
  /\ \E g \in Gids : cgw[c][g].state = "none"
  /\ UNCHANGED lastTag
  /\ \E s \in Services :
       cgw' = [cgw EXCEPT ![c][NextGid(c)] =
                 [NoGateway EXCEPT !.state = "alive", !.tag = lastTag[c] + 1, !.svc = s]]
  /\ UNCHANGED <<cpipe, isConnected, epMap, hist, wireVars>>

\* makeGateway(): tag = ++last_unique_tag_; GatewayImpl(router, endpoint).
\* The Channel built on it fixes the service id it sends to.
MakeGateway(c) ==
  /\ \E g \in Gids : cgw[c][g].state = "none"
  /\ lastTag' = [lastTag EXCEPT ![c] = @ + 1]
  /\ \E s \in Services :
       cgw' = [cgw EXCEPT ![c][NextGid(c)] =
                 [NoGateway EXCEPT !.state = "alive", !.tag = lastTag[c] + 1, !.svc = s]]
  /\ UNCHANGED <<cpipe, isConnected, epMap, hist, wireVars>>

\* Mutant: registerGateway() without the immediate Connected.
SubscribeNoConnected(c, g) ==
  /\ Alive(c, g)
  /\ cgw[c][g].nsub < MaxSubscribes
  /\ cgw' = [cgw EXCEPT ![c][g].sub = TRUE, ![c][g].nsub = @ + 1]
  /\ epMap' = [epMap EXCEPT ![c] = (cgw[c][g].tag :> g) @@ @]
  /\ UNCHANGED <<cpipe, isConnected, lastTag, hist, wireVars>>

\* subscribe(handler) with a handler: registerGateway(endpoint, *this),
\* which tells the gateway Connected at once if the router is connected.
Subscribe(c, g) ==
  /\ Alive(c, g)
  /\ cgw[c][g].nsub < MaxSubscribes
  /\ cgw' = [cgw EXCEPT ![c][g].sub = TRUE, ![c][g].nsub = @ + 1]
  /\ epMap' = [epMap EXCEPT ![c] = (cgw[c][g].tag :> g) @@ @]
  /\ hist' = IF isConnected[c]
               THEN [hist EXCEPT ![c][g] = Append(@, [ev |-> "Connected"])]
               ELSE hist
  /\ UNCHANGED <<cpipe, isConnected, lastTag, wireVars>>

\* subscribe(nullptr): the handler is cleared and the endpoint unregistered,
\* without a ChannelEnd to the peer.
Unsubscribe(c, g) ==
  /\ Alive(c, g)
  /\ cgw[c][g].sub
  /\ cgw' = [cgw EXCEPT ![c][g].sub = FALSE]
  /\ epMap' = [epMap EXCEPT ![c] = Erase(@, cgw[c][g].tag)]
  /\ UNCHANGED <<cpipe, isConnected, lastTag, hist, wireVars>>

\* send(service_id, payload): ENOTCONN unless the router is connected (that
\* branch changes nothing); otherwise sequence_++ and the frame
\* {ChannelMsg, payload} goes to the pipe, whose send may fail.
Send(c, g) ==
  /\ Alive(c, g)
  /\ isConnected[c]
  /\ cgw[c][g].seq < MaxSends
  /\ cgw' = [cgw EXCEPT ![c][g].seq = @ + 1]
  /\ toSrv' = Write(toSrv, c, ChannelMsg(cgw[c][g].svc, cgw[c][g].tag, cgw[c][g].seq, <<c, g>>))
  /\ UNCHANGED <<cpipe, isConnected, lastTag, epMap, hist, link, toCli>>

\* The last Gateway::Ptr is released: ~GatewayImpl() calls
\* unregisterGateway(endpoint, true), which erases the endpoint and, if the
\* router is connected, sends ChannelEnd{tag, 0}.
Drop(c, g) ==
  /\ Alive(c, g)
  /\ cgw' = [cgw EXCEPT ![c][g].state = "dropped", ![c][g].sub = FALSE]
  /\ epMap' = [epMap EXCEPT ![c] = Erase(@, cgw[c][g].tag)]
  /\ toSrv' = IF isConnected[c] THEN Write(toSrv, c, ChannelEnd(cgw[c][g].tag, 0)) ELSE toSrv
  /\ UNCHANGED <<cpipe, isConnected, lastTag, hist, link, toCli>>

-----------------------------------------------------------------------------
(* Pipe events, handled by the router on the executor. *)

\* start(): the client pipe starts connecting.
Start(c) ==
  /\ cpipe[c] = "idle"
  /\ cpipe' = [cpipe EXCEPT ![c] = "connecting"]
  /\ UNCHANGED <<isConnected, lastTag, cgw, epMap, hist, wireVars>>

\* Pipe Connected: the router sends RouteConnect{VERSION}.
PipeConnected(c) ==
  /\ cpipe[c] = "connecting"
  /\ link[c] = "up"
  /\ cpipe' = [cpipe EXCEPT ![c] = "connected"]
  /\ toSrv' = Write(toSrv, c, Connect)
  /\ UNCHANGED <<isConnected, lastTag, cgw, epMap, hist, link, toCli>>

\* Pipe Message: the frame at the head of the stream is decoded.
Receive(c, kind) ==
  /\ cpipe[c] = "connected"
  /\ toCli[c] # <<>>
  /\ Head(toCli[c]).kind = kind
  /\ toCli' = [toCli EXCEPT ![c] = Tail(@)]

\* RouteConnect: the first one makes the router connected and tells every
\* registered gateway; later ones are ignored.
RecvConnect(c) ==
  /\ Receive(c, "Connect")
  /\ IF ~isConnected[c]
       THEN /\ isConnected' = [isConnected EXCEPT ![c] = TRUE]
            /\ Broadcast(c, [ev |-> "Connected"])
       ELSE UNCHANGED <<isConnected, hist>>
  /\ UNCHANGED <<cpipe, lastTag, cgw, epMap, link, toSrv>>

\* RouteChannelMsg: delivered to the gateway registered under its tag if the
\* weak_ptr locks; otherwise an unsolicited message, dropped.
RecvChannelMsg(c) ==
  /\ Receive(c, "Msg")
  /\ LET m == Head(toCli[c])
     IN hist' = IF Lockable(c, m.tag) /\ cgw[c][epMap[c][m.tag]].sub
                  THEN [hist EXCEPT ![c][epMap[c][m.tag]] =
                          Append(@, [ev |-> "Message", seq |-> m.seq, payload |-> m.payload])]
                  ELSE hist
  /\ UNCHANGED <<cpipe, isConnected, lastTag, cgw, epMap, link, toSrv>>

\* RouteChannelEnd: handleRouteChannelEnd() has an empty body.
RecvChannelEnd(c) ==
  /\ Receive(c, "End")
  /\ UNCHANGED <<cpipe, isConnected, lastTag, cgw, epMap, hist, link, toSrv>>

\* Mutants of the Disconnected handler: is_connected_ is not reset; the
\* gateways are told even if the handshake never completed; they are not
\* told.
PipeDisconnectedKeepsConnected(c) ==
  /\ cpipe[c] \in {"connecting", "connected"}
  /\ link[c] \in {"down", "refused"}
  /\ toCli[c] = <<>>
  /\ cpipe' = [cpipe EXCEPT ![c] = "disconnected"]
  /\ IF isConnected[c] THEN Broadcast(c, [ev |-> "Completed"]) ELSE UNCHANGED hist
  /\ UNCHANGED <<isConnected, lastTag, cgw, epMap, wireVars>>

PipeDisconnectedAlwaysBroadcast(c) ==
  /\ cpipe[c] \in {"connecting", "connected"}
  /\ link[c] \in {"down", "refused"}
  /\ toCli[c] = <<>>
  /\ cpipe' = [cpipe EXCEPT ![c] = "disconnected"]
  /\ isConnected' = [isConnected EXCEPT ![c] = FALSE]
  /\ Broadcast(c, [ev |-> "Completed"])
  /\ UNCHANGED <<lastTag, cgw, epMap, wireVars>>

PipeDisconnectedNoBroadcast(c) ==
  /\ cpipe[c] \in {"connecting", "connected"}
  /\ link[c] \in {"down", "refused"}
  /\ toCli[c] = <<>>
  /\ cpipe' = [cpipe EXCEPT ![c] = "disconnected"]
  /\ isConnected' = [isConnected EXCEPT ![c] = FALSE]
  /\ UNCHANGED <<hist, lastTag, cgw, epMap, wireVars>>

\* Pipe Disconnected (end of stream or error, after the queued frames): if
\* the router was connected it is no longer, and every registered gateway
\* is told Disconnected, which completes it.
PipeDisconnected(c) ==
  /\ cpipe[c] \in {"connecting", "connected"}
  /\ link[c] \in {"down", "refused"}
  /\ toCli[c] = <<>>
  /\ cpipe' = [cpipe EXCEPT ![c] = "disconnected"]
  /\ IF isConnected[c]
       THEN /\ isConnected' = [isConnected EXCEPT ![c] = FALSE]
            /\ Broadcast(c, [ev |-> "Completed"])
       ELSE UNCHANGED <<isConnected, hist>>
  /\ UNCHANGED <<lastTag, cgw, epMap, wireVars>>

ClientUser(c) ==
  \/ MakeGateway(c)
  \/ \E g \in Gids : Subscribe(c, g) \/ Unsubscribe(c, g) \/ Send(c, g) \/ Drop(c, g)

ClientExecutor(c) ==
  \/ Start(c) \/ PipeConnected(c) \/ PipeDisconnected(c)
  \/ RecvConnect(c) \/ RecvChannelMsg(c) \/ RecvChannelEnd(c)

=============================================================================
