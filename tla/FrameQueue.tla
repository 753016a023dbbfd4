----------------------------- MODULE FrameQueue -----------------------------
(***************************************************************************)
(* What framing over a Unix stream socket promises its two users: frames   *)
(* handed to sendMessage reach the action of receiveMessage whole, once    *)
(* and in order.  This is the channel IpcCommon assumes between a client   *)
(* router and the server router.                                           *)
(***************************************************************************)
EXTENDS Sequences

CONSTANT Frames          \* what a frame can be

VARIABLES
  inFlight,   \* frames sent and not yet received, oldest first
  received    \* frames the receiver's action has been called with

Init == inFlight = <<>> /\ received = <<>>

Put(m) == inFlight' = Append(inFlight, m) /\ UNCHANGED received

Take ==
  /\ inFlight # <<>>
  /\ received' = Append(received, Head(inFlight))
  /\ inFlight' = Tail(inFlight)

Next == (\E m \in Frames : Put(m)) \/ Take

\* A frame in flight is eventually received.
Spec == Init /\ [][Next]_<<inFlight, received>> /\ WF_<<inFlight, received>>(Take)

=============================================================================
