----------------------------- MODULE IpcCommon -----------------------------
(***************************************************************************)
(* Definitions shared by the client router (client_router.cpp) and the     *)
(* server router (server_router.cpp): the constants bounding the model,    *)
(* the routing envelope Route_1_0 carried in every frame, and the pipe     *)
(* that joins one client process to the daemon.                            *)
(*                                                                         *)
(* The pipe of one client is a pair of FIFO queues of envelopes, one per   *)
(* direction (the Unix stream socket is reliable and in order), plus the   *)
(* state of the connection: "none" before the client connects, "refused"  *)
(* if the connect failed, "up", and "down" once either side has closed it  *)
(* or the socket failed.  Frames                                           *)
(* already queued when the connection goes down are still read; then the   *)
(* reader sees end of stream.                                              *)
(***************************************************************************)
EXTENDS Integers, Sequences, FiniteSets, TLC

CONSTANTS
  Clients,        \* client processes, each with one ClientRouter and pipe
  Services,       \* service ids a client channel may address
  MaxGateways,    \* makeGateway() calls per client process
  MaxSends,       \* send() calls per gateway, on either side
  MaxSubscribes   \* subscribe(handler) calls per client gateway

ASSUME Clients # {} /\ Services # {}
ASSUME MaxGateways \in Nat \ {0} /\ MaxSends \in Nat /\ MaxSubscribes \in Nat \ {0}

VARIABLES
  link,    \* link[c] \in {"none", "refused", "up", "down"}: c's socket
  toSrv,   \* toSrv[c]: frames written by client c, not yet read by the daemon
  toCli    \* toCli[c]: frames written by the daemon to c, not yet read

wireVars == <<link, toSrv, toCli>>

\* Client-side gateway identities: the i-th gateway made by a client.
Gids == 1..MaxGateways

\* Tags the client router can allocate (++last_unique_tag_ from 0).
Tags == 1..MaxGateways

\* ClientId values the server pipe hands out (++unique_client_id_counter_).
ClientIds == 1..Cardinality(Clients)

\* A payload is abstracted to the identity <<client, gateway>> of the client
\* gateway whose request it carries or answers: all the properties tell apart.
Payloads == Clients \X Gids

\* Route_1_0: the union {Connect, ChannelMsg, ChannelEnd}.
Connect == [kind |-> "Connect"]
ChannelMsg(svc, tag, seq, payload) ==
  [kind |-> "Msg", svc |-> svc, tag |-> tag, seq |-> seq, payload |-> payload]
ChannelEnd(tag, code) == [kind |-> "End", tag |-> tag, code |-> code]

Envelopes ==
  {Connect}
  \cup {ChannelMsg(s, t, q, p) : s \in Services, t \in Tags, q \in 0..MaxSends, p \in Payloads}
  \cup {ChannelEnd(t, 0) : t \in Tags}

WireTypeOK ==
  /\ link \in [Clients -> {"none", "refused", "up", "down"}]
  /\ toSrv \in [Clients -> Seq(Envelopes)]
  /\ toCli \in [Clients -> Seq(Envelopes)]

\* A frame written to a connection that is not up is not delivered: the
\* write fails (EPIPE / ENOTCONN) and the caller only gets an error code.
Write(q, c, env) == IF link[c] = "up" THEN [q EXCEPT ![c] = Append(@, env)] ELSE q

=============================================================================
