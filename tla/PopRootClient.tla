---------------------------- MODULE PopRootClient ----------------------------
(***************************************************************************)
(* PopRootClientImpl (src/sdk/svc/file_server/pop_root_client.cpp) as the  *)
(* user of the client routers of IpcSystem: gateway g of client process c  *)
(* is the channel of the g-th PopRootClient that process makes.  A client  *)
(* makes its channel, submits a receiver (subscribe), sends its request    *)
(* from the Connected handler and hands the receiver a result: Failure if  *)
(* that send fails, and the Completed outcome.  The receiver is user code  *)
(* and may release any PopRootClient of its process, its own included.     *)
(*                                                                         *)
(* A handler runs inside the router call that delivers its event           *)
(* (registerGateway, forEachGateway).  The router appends the event to     *)
(* hist; HandleEvent then runs the handler, and no other step of the same  *)
(* client process may come between the two (Pending).  Steps of the daemon *)
(* and of the kernel may, as they run concurrently with the client.        *)
(*                                                                         *)
(* forEachGateway holds strong pointers to every gateway of its snapshot   *)
(* until the broadcast ends, so a PopRootClient released by a receiver     *)
(* during a delivery keeps its GatewayImpl (Doomed) until then (Collect).  *)
(***************************************************************************)
EXTENDS IpcSystem

CONSTANT PopService      \* service id of Spec::svc_full_name()

ASSUME PopService \in Services

VARIABLES
  owned,      \* owned[c][g]: the user holds the PopRootClient::Ptr
  submitted,  \* submitImpl has been called (receiver_ is set)
  seen,       \* seen[c][g]: events of gateway g the handler has run for
  rcv         \* rcv[c][g]: the results receiver_ has been called with

popVars == <<owned, submitted, seen, rcv>>
allVars == <<vars, popVars>>

Results == {"Success", "Failure"}

PopTypeOK ==
  /\ TypeOK
  /\ owned \in [Clients -> [Gids -> BOOLEAN]]
  /\ submitted \in [Clients -> [Gids -> BOOLEAN]]
  /\ seen \in [Clients -> [Gids -> Nat]]
  /\ \A c \in Clients, g \in Gids : seen[c][g] <= Len(hist[c][g])
  /\ rcv \in [Clients -> [Gids -> Seq(Results)]]

PopInit ==
  /\ Init
  /\ owned = [c \in Clients |-> [g \in Gids |-> FALSE]]
  /\ submitted = [c \in Clients |-> [g \in Gids |-> FALSE]]
  /\ seen = [c \in Clients |-> [g \in Gids |-> 0]]
  /\ rcv = [c \in Clients |-> [g \in Gids |-> <<>>]]

\* An event was delivered to g and its handler has not run yet.
Pending(c, g) == seen[c][g] < Len(hist[c][g])
NextEvent(c, g) == hist[c][g][seen[c][g] + 1].ev
Delivering(c) == \E g \in Gids : Pending(c, g)

\* Released by a receiver while a delivery holds its strong pointer.
Doomed(c, g) == Alive(c, g) /\ ~owned[c][g]

\* The client process is inside a router call that delivers events.
Busy(c) == Delivering(c) \/ \E g \in Gids : Doomed(c, g)

-----------------------------------------------------------------------------
(* The user of PopRootClient *)

\* PopRootClient::make: the constructor's makeChannel<Channel>(name).
Make(c) ==
  /\ MakeGateway(c)
  /\ cgw'[c][NextGid(c)].svc = PopService
  /\ owned' = [owned EXCEPT ![c][NextGid(c)] = TRUE]
  /\ UNCHANGED <<submitted, seen, rcv>>

\* submitImpl(receiver): receiver_ = receiver; channel_.subscribe(handler).
SubmitImpl(c, g) ==
  /\ owned[c][g]
  /\ ~submitted[c][g]
  /\ Subscribe(c, g)
  /\ submitted' = [submitted EXCEPT ![c][g] = TRUE]
  /\ UNCHANGED <<owned, seen, rcv>>

\* The last PopRootClient::Ptr is released outside a delivery:
\* ~PopRootClientImpl -> ~Channel -> ~GatewayImpl.
Release(c, g) ==
  /\ owned[c][g]
  /\ owned' = [owned EXCEPT ![c][g] = FALSE]
  /\ Drop(c, g)
  /\ UNCHANGED <<submitted, seen, rcv>>

PopUser(c) == Make(c) \/ \E g \in Gids : SubmitImpl(c, g) \/ Release(c, g)

-----------------------------------------------------------------------------
(* handleEvent(...) of PopRootClientImpl *)

Handled(c, g) == seen' = [seen EXCEPT ![c][g] = @ + 1]

\* receiver_(result): the user's receiver runs, and may release the last
\* pointer of one PopRootClient of the process.
Calls(c, g, r) ==
  /\ rcv' = [rcv EXCEPT ![c][g] = Append(@, r)]
  /\ \/ UNCHANGED owned
     \/ \E h \in Gids : owned[c][h] /\ owned' = [owned EXCEPT ![c][h] = FALSE]

\* Connected: channel_.send(request_).  GatewayImpl::send returns ENOTCONN
\* unless the router is connected; otherwise it takes a sequence number and
\* the pipe's send fails if the socket is no longer up.  A failure goes to
\* the receiver.
HandleConnected(c, g) ==
  /\ Pending(c, g) /\ NextEvent(c, g) = "Connected"
  /\ Handled(c, g)
  /\ IF isConnected[c]
       THEN /\ Send(c, g)
            /\ IF link[c] = "up" THEN UNCHANGED <<rcv, owned>> ELSE Calls(c, g, "Failure")
       ELSE /\ Calls(c, g, "Failure")
            /\ UNCHANGED <<wireVars, clientVars>>
  /\ UNCHANGED submitted

\* Input: only logged.
HandleInput(c, g) ==
  /\ Pending(c, g) /\ NextEvent(c, g) = "Message"
  /\ Handled(c, g)
  /\ UNCHANGED <<owned, submitted, rcv, wireVars, clientVars>>

\* Completed: the receiver gets Failure if the event carries an error, else
\* Success.  The router's only Completed comes from the pipe's Disconnected,
\* which the Channel reports with an error.
HandleCompleted(c, g) ==
  /\ Pending(c, g) /\ NextEvent(c, g) = "Completed"
  /\ Handled(c, g)
  /\ Calls(c, g, "Failure")
  /\ UNCHANGED <<submitted, wireVars, clientVars>>

HandleEvent(c, g) == HandleConnected(c, g) \/ HandleInput(c, g) \/ HandleCompleted(c, g)

\* The delivering call returns: the snapshot's strong pointers go, and the
\* GatewayImpl of a released PopRootClient is destroyed (~GatewayImpl).
Collect(c, g) ==
  /\ ~Delivering(c)
  /\ Doomed(c, g)
  /\ Drop(c, g)
  /\ UNCHANGED popVars

-----------------------------------------------------------------------------

PopNext ==
  \/ ServerStep(ServerSetup \/ ServerService) /\ UNCHANGED popVars
  \/ \E c \in Clients :
       \/ ~Busy(c) /\ ClientStep(PopUser(c))
       \/ ~Busy(c) /\ ClientStep(ClientExecutor(c)) /\ UNCHANGED popVars
       \/ \E g \in Gids : ClientStep(HandleEvent(c, g) \/ Collect(c, g))
       \/ ServerStep(ServerExecutor(c)) /\ UNCHANGED popVars
       \/ (SocketConnect(c) \/ LinkFail(c)) /\ UNCHANGED popVars

\* The executors run every ready callback; a delivering call runs every
\* handler of its snapshot and then returns.
PopFairness ==
  /\ WF_allVars(ServerStep(ServerStart) /\ UNCHANGED popVars)
  /\ \A c \in Clients :
       /\ WF_allVars(~Busy(c) /\ ClientStep(ClientExecutor(c)) /\ UNCHANGED popVars)
       /\ WF_allVars(ServerStep(ServerExecutor(c)) /\ UNCHANGED popVars)
       /\ WF_allVars(SocketConnect(c) /\ UNCHANGED popVars)
       /\ \A g \in Gids : WF_allVars(ClientStep(HandleEvent(c, g) \/ Collect(c, g)))

PopSpec == PopInit /\ [][PopNext]_allVars /\ PopFairness

-----------------------------------------------------------------------------
(* Properties *)

\* Once the handshake has told a client Connected, a lost connection
\* reaches its receiver: the router's Disconnected broadcast gives every
\* still-subscribed channel Completed, and its handler calls receiver_;
\* this holds although receivers release other clients during the
\* broadcast.  A client its user released needs no answer.
AnsweredOnLoss ==
  \A c \in Clients, g \in Gids :
    (submitted[c][g] /\ HasEvent(c, g, "Connected") /\ link[c] = "down")
      ~> (rcv[c][g] # <<>> \/ ~owned[c][g])

\* submit delivers one result: receiver_ is called at most once.
ReceiverAtMostOnce ==
  \A c \in Clients, g \in Gids : Len(rcv[c][g]) <= 1

\* The daemon has served g's request and is done with the channel: the
\* factory made the server gateway of g's endpoint, and the service has
\* released it (or did not keep it).
ServedAndReleased(c, g) ==
  /\ srvId[c] # 0
  /\ cgw[c][g].tag # 0
  /\ sgw[<<srvId[c], cgw[c][g].tag>>].state = "dropped"

\* Spec 3 (ChannelEnd -> Completed) and 4.E: once the service has released
\* the channel of a submitted request, the request is answered while the
\* connection stays up: ~GatewayImpl on the daemon ends the channel and
\* the client's ChannelEnd handler completes it.
AnsweredWhileUp ==
  \A c \in Clients, g \in Gids :
    (submitted[c][g] /\ ServedAndReleased(c, g))
      ~> (rcv[c][g] # <<>> \/ link[c] = "down" \/ ~owned[c][g])

\* Spec, endpoint state machine and 5: a channel the user has dropped is
\* Closed for good; broadcasts snapshot their gateways so that a handler may
\* drop other gateways.  No handler of a released PopRootClient runs (its
\* handler lambda captures the PopRootClientImpl's this).
NoHandlerAfterRelease ==
  [][\A c \in Clients, g \in Gids : seen'[c][g] # seen[c][g] => owned[c][g]]_allVars

=============================================================================
