---------------------------- MODULE GatewayEvents ----------------------------
(***************************************************************************)
(* What a client gateway promises the handler subscribed on it, as the     *)
(* spec states it (endpoint lifecycle "Connected -> Input -> ... ->        *)
(* Completed", properties 5 and 6): at most one Connected, and it comes    *)
(* first; inputs only after it, and no more of them than the daemon's end  *)
(* of the channel has sent; Completed ends the sequence; a gateway the     *)
(* user has dropped is given nothing.                                      *)
(*                                                                         *)
(* One step may give the same event to several gateways of one client, as *)
(* a broadcast does.  The abstract state says nothing about tags, envelopes *)
(* or sockets; IpcSystem maps its state onto this one.                     *)
(***************************************************************************)
EXTENDS Naturals, Sequences

CONSTANTS Clients, Gids

VARIABLES
  events,  \* events[c][g]: the kinds of the events g's handler was given
  sent,    \* sent[c][g]: inputs the daemon's end of g's channel has sent
  closed   \* closed[c][g]: the user has dropped gateway g

vars == <<events, sent, closed>>

Kinds == {"Connected", "Message", "Completed"}

TypeOK ==
  /\ events \in [Clients -> [Gids -> Seq(Kinds)]]
  /\ sent \in [Clients -> [Gids -> Nat]]
  /\ closed \in [Clients -> [Gids -> BOOLEAN]]

Init ==
  /\ events = [c \in Clients |-> [g \in Gids |-> <<>>]]
  /\ sent = [c \in Clients |-> [g \in Gids |-> 0]]
  /\ closed = [c \in Clients |-> [g \in Gids |-> FALSE]]

LastKind(c, g) == IF events[c][g] = <<>> THEN "none" ELSE events[c][g][Len(events[c][g])]

Inputs(c, g) == Len(SelectSeq(events[c][g], LAMBDA k : k = "Message"))

\* The event of kind k may be given to g next.
May(c, g, k) ==
  /\ ~closed[c][g]
  /\ CASE k = "Connected" -> events[c][g] = <<>>
       [] k = "Message"   -> LastKind(c, g) \in {"Connected", "Message"} /\ Inputs(c, g) < sent[c][g]
       [] k = "Completed" -> LastKind(c, g) \in {"Connected", "Message"}

\* The gateways in S of client c are each given an event of kind k.
Notify(c, S, k) ==
  /\ S # {}
  /\ \A g \in S : May(c, g, k)
  /\ events' = [events EXCEPT ![c] = [g \in Gids |-> IF g \in S THEN Append(@[g], k) ELSE @[g]]]
  /\ UNCHANGED <<sent, closed>>

\* The daemon sends an input on g's channel (it may be lost on the way).
Reply(c, g) ==
  /\ sent' = [sent EXCEPT ![c][g] = @ + 1]
  /\ UNCHANGED <<events, closed>>

\* The user drops g.
Close(c, g) ==
  /\ ~closed[c][g]
  /\ closed' = [closed EXCEPT ![c][g] = TRUE]
  /\ UNCHANGED <<events, sent>>

Next ==
  \E c \in Clients :
    \/ \E S \in SUBSET Gids, k \in Kinds : Notify(c, S, k)
    \/ \E g \in Gids : Reply(c, g) \/ Close(c, g)

Spec == Init /\ [][Next]_vars

=============================================================================
