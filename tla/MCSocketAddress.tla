--------------------------- MODULE MCSocketAddress ---------------------------
(***************************************************************************)
(* Connection strings for SocketAddress: TCP hosts crossed with port      *)
(* suffixes, Unix and abstract paths over {a, NUL} up to one byte longer   *)
(* than sun_path holds, and strings with no known prefix.                  *)
(***************************************************************************)
EXTENDS SocketAddress

MCSunPathLen == 4

Tcp(h, t) == TcpPrefix \o h \o t

MCHosts == {
  <<"1", ".", "0", ".", "0", ".", "1">>,
  <<":", ":", "1">>,
  <<"[", ":", ":", "1", "]">>,
  <<"[", ":", ":", "1">>,
  <<"*">>, <<"[", "*", "]">>, <<"1">>, <<>> }

\* Decimal port suffixes, an empty one, and malformed ones.
MCDecimalTails == {
  <<>>, <<":">>, <<":", "0">>, <<":", "8">>,
  <<":", "6", "5", "5", "3", "5">>, <<":", "6", "5", "5", "3", "6">>,
  <<":", "8", "x">>, <<":", "]">> }

\* Port texts strtoull reads in another base, or after blanks and signs.
MCOtherTails == {
  <<":", "0", "1", "0">>, <<":", "0", "x", "1", "0">>, <<":", " ", "8">>,
  <<":", "+", "8">>, <<":", "0", "8">>, <<":", "-", "0">> }

MCPaths == BoundedSeq({"a", NUL}, MCSunPathLen)

MCOther == { <<>>, <<"u", "n", "i", "x">>, <<"t", "c", "p", ":", "/">> }

MCInputs ==
  {Tcp(h, t) : h \in MCHosts, t \in MCDecimalTails}
  \cup {UnixPrefix \o p : p \in MCPaths}
  \cup {AbstractPrefix \o p : p \in MCPaths}
  \cup MCOther

MCInputsOtherBase ==
  {Tcp(<<"1", ".", "0", ".", "0", ".", "1">>, t) : t \in MCOtherTails}

MCHints == {0, 9}

MCMaxConns == 3
MCBacklogLen == 2

=============================================================================
