---------------------------- MODULE SocketAddress ----------------------------
(***************************************************************************)
(* SocketAddress::parse and the Unix part of toString (socket_address.cpp) *)
(* as operators over strings.  A string is a sequence of one-character     *)
(* strings; NUL stands for the byte '\0', which a std::string may hold and *)
(* a c_str() based call (strtoull, inet_pton, strncpy) stops at.  The      *)
(* address is a record: family, wildcard flag, port, IP address bytes,     *)
(* sun_path and addr_len_.  inet_pton is glibc's: exact for IPv4, and for  *)
(* IPv6 without the embedded dotted-quad tail.                             *)
(*                                                                         *)
(* The module's state is one call sequence: parse a connection string with *)
(* a port hint, format a Unix address with toString, parse that text again.*)
(* Beside it runs accept on a listening socket whose backlog the clients   *)
(* fill: another SocketAddress object, the peer's, so the two share no     *)
(* state.                                                                  *)
(***************************************************************************)
EXTENDS Naturals, Sequences, FiniteSets, SequencesExt, FiniteSetsExt

CONSTANTS
  SunPathLen,   \* sizeof(sockaddr_un::sun_path)
  Inputs,       \* connection strings parse is called with
  Hints,        \* port hints parse is called with
  MaxConns,     \* connections the clients open in a behaviour
  BacklogLen    \* the listen() backlog

NUL == "NUL"
MaxPort == 65535                 \* std::numeric_limits<std::uint16_t>::max()
SunOffset == 2                   \* offsetof(sockaddr_un, sun_path)
SizeofIn == 16                   \* sizeof(sockaddr_in)
SizeofIn6 == 28                  \* sizeof(sockaddr_in6)

UnixPrefix == <<"u", "n", "i", "x", ":">>
AbstractPrefix == <<"u", "n", "i", "x", "-", "a", "b", "s", "t", "r", "a", "c", "t", ":">>
TcpPrefix == <<"t", "c", "p", ":", "/", "/">>

\* The results a parse may give besides an address.
NotMine == [err |-> "nullopt"]             \* a tryParseAs... that does not recognise the prefix
InvalidArgument == [err |-> "InvalidArgument"]
None == [err |-> "none"]           \* no call made yet

-----------------------------------------------------------------------------
(* std::string and C string primitives *)

StartsWith(s, p) == Len(s) >= Len(p) /\ SubSeq(s, 1, Len(p)) = p   \* compare(0, n, p) == 0
After(s, n) == SubSeq(s, n + 1, Len(s))                             \* substr(n)
CStr(s) == LET z == SelectInSeq(s, LAMBDA c : c = NUL)
           IN IF z = 0 THEN s ELSE SubSeq(s, 1, z - 1)               \* c_str() up to '\0'
FirstOf(s, c, from) == SelectInSubSeq(s, from, Len(s), LAMBDA x : x = c)   \* 0 is npos
LastOf(s, c) == SelectLastInSeq(s, LAMBDA x : x = c)

DecVal == [c \in {"0", "1", "2", "3", "4", "5", "6", "7", "8", "9"} |->
             CHOOSE n \in 0..9 : <<"0", "1", "2", "3", "4", "5", "6", "7", "8", "9">>[n + 1] = c]
HexVal == [c \in DOMAIN DecVal \cup {"a", "b", "c", "d", "e", "f", "A", "B", "C", "D", "E", "F"} |->
             IF c \in DOMAIN DecVal THEN DecVal[c]
             ELSE CHOOSE n \in 10..15 : <<"a", "b", "c", "d", "e", "f">>[n - 9] = c
                                     \/ <<"A", "B", "C", "D", "E", "F">>[n - 9] = c]

\* Every value above MaxPort is rejected alike, so accumulated values are
\* kept saturated at Big (strtoull saturates too, at ULLONG_MAX).
Big == MaxPort + 1

RECURSIVE Digits(_, _, _, _)
\* strtoull's digit loop from index i in `base`: the value and the index
\* *end_ptr is left at.
Digits(s, i, base, acc) ==
  IF i <= Len(s) /\ s[i] \in DOMAIN HexVal /\ HexVal[s[i]] < base
    THEN Digits(s, i + 1, base, Min({acc * base + HexVal[s[i]], Big}))
    ELSE [val |-> acc, end |-> i]

\* strtoull(s, &end_ptr, 0) on a C string: leading blanks, a sign, and a
\* base from the prefix ("0x" hex, "0" octal, else decimal).  end is the
\* index of *end_ptr (Len(s) + 1 is the terminating '\0'); with no digit,
\* end_ptr is the string itself.  A negated non-zero value (2^64 - v) is
\* above MaxPort for every v shorter than 19 digits.
StrToULL(s) ==
  LET nb   == SelectInSeq(s, LAMBDA c : c # " ")
      i    == IF nb = 0 THEN Len(s) + 1 ELSE nb
      neg  == i <= Len(s) /\ s[i] = "-"
      j    == IF i <= Len(s) /\ s[i] \in {"+", "-"} THEN i + 1 ELSE i
      hex  == j + 2 <= Len(s) /\ s[j] = "0" /\ s[j + 1] \in {"x", "X"} /\ s[j + 2] \in DOMAIN HexVal
      from == IF hex THEN j + 2 ELSE j
      base == IF hex THEN 16 ELSE IF j <= Len(s) /\ s[j] = "0" THEN 8 ELSE 10
      r    == Digits(s, from, base, 0)
  IN IF r.end = from THEN [val |-> 0, end |-> 1]
     ELSE [val |-> IF neg /\ r.val > 0 THEN Big ELSE r.val, end |-> r.end]

-----------------------------------------------------------------------------
(* inet_pton (glibc) *)

RECURSIVE Pton4(_, _, _, _, _)
\* inet_pton4 from index i: octets so far, the current octet, a digit seen.
Pton4(s, i, oct, cur, saw) ==
  IF i > Len(s) THEN IF saw /\ Len(oct) = 3 THEN Append(oct, cur) ELSE <<>>
  ELSE IF s[i] \in DOMAIN DecVal
    THEN IF (saw /\ cur = 0) \/ cur * 10 + DecVal[s[i]] > 255 THEN <<>>
         ELSE Pton4(s, i + 1, oct, cur * 10 + DecVal[s[i]], TRUE)
  ELSE IF s[i] = "." /\ saw /\ Len(oct) < 3
    THEN Pton4(s, i + 1, Append(oct, cur), 0, FALSE)
  ELSE <<>>

RECURSIVE Pton6(_, _, _, _, _, _, _)
\* inet_pton6 from index i: groups before and after "::", whether "::" was
\* seen, the current group and its digit count.
Pton6(s, i, pre, post, dbl, cur, nd) ==
  LET push(g) == IF dbl THEN <<pre, Append(post, g)>> ELSE <<Append(pre, g), post>>
      count   == Len(pre) + Len(post)
  IN
  IF i > Len(s) THEN
    LET p == IF nd > 0 THEN push(cur) ELSE <<pre, post>>
        n == Len(p[1]) + Len(p[2])
    IN IF (nd > 0 /\ count + 1 > 8) \/ (dbl /\ n = 8) \/ (~dbl /\ n # 8) THEN <<>>
       ELSE p[1] \o [k \in 1..(8 - n) |-> 0] \o p[2]
  ELSE IF s[i] \in DOMAIN HexVal
    THEN IF nd = 4 THEN <<>> ELSE Pton6(s, i + 1, pre, post, dbl, cur * 16 + HexVal[s[i]], nd + 1)
  ELSE IF s[i] = ":" /\ nd = 0
    THEN IF dbl THEN <<>> ELSE Pton6(s, i + 1, pre, post, TRUE, 0, 0)
  ELSE IF s[i] = ":"
    THEN IF i = Len(s) \/ count + 1 > 8 THEN <<>>
         ELSE LET p == push(cur) IN Pton6(s, i + 1, p[1], p[2], dbl, 0, 0)
  ELSE <<>>

\* inet_pton(family, s): the address bytes, or <<>> when it returns 0.
InetPton(fam, s) ==
  IF fam = "inet" THEN Pton4(s, 1, <<>>, 0, FALSE)
  ELSE IF s = <<>> THEN <<>>
  ELSE IF s[1] = ":" THEN IF Len(s) >= 2 /\ s[2] = ":" THEN Pton6(s, 2, <<>>, <<>>, FALSE, 0, 0) ELSE <<>>
  ELSE Pton6(s, 1, <<>>, <<>>, FALSE, 0, 0)

-----------------------------------------------------------------------------
(* SocketAddress *)

Address(fam, wild, port, ip, sun, wr, len) ==
  [fam |-> fam, wild |-> wild, port |-> port, ip |-> ip, sun |-> sun, wr |-> wr, len |-> len]

\* Mutant of SplitHostPort: a second colon is not taken as IPv6.
SplitHostPortNoV6(str) ==
  IF FirstOf(str, "[", 1) = 1 THEN
    LET e == LastOf(str, "]") IN
    IF e = 0 \/ (Len(str) > e /\ str[e + 1] # ":") THEN [fam |-> "unspec"]
    ELSE [fam |-> "inet6", host |-> SubSeq(str, 2, e - 1),
          port |-> IF Len(str) > e THEN After(str, e + 1) ELSE <<>>]
  ELSE LET c == FirstOf(str, ":", 1) IN
    IF c = 0 THEN [fam |-> "inet", host |-> str, port |-> <<>>]
    ELSE [fam |-> "inet", host |-> SubSeq(str, 1, c - 1), port |-> After(str, c)]

\* The family, host text and port text extractFamilyHostAndPort finds.
SplitHostPort(str) ==
  IF FirstOf(str, "[", 1) = 1 THEN
    LET e == LastOf(str, "]") IN
    IF e = 0 \/ (Len(str) > e /\ str[e + 1] # ":") THEN [fam |-> "unspec"]
    ELSE [fam |-> "inet6", host |-> SubSeq(str, 2, e - 1),
          port |-> IF Len(str) > e THEN After(str, e + 1) ELSE <<>>]
  ELSE LET c == FirstOf(str, ":", 1) IN
    IF c = 0 THEN [fam |-> "inet", host |-> str, port |-> <<>>]
    ELSE IF FirstOf(str, ":", c + 1) # 0 THEN [fam |-> "inet6", host |-> str, port |-> <<>>]
    ELSE [fam |-> "inet", host |-> SubSeq(str, 1, c - 1), port |-> After(str, c)]

\* Mutant of PortChecked: the range check is dropped.
PortCheckedNoLimit(sp, n) ==
  IF n.end <= Len(CStr(sp.port)) THEN [fam |-> "unspec"]
  ELSE [fam |-> sp.fam, host |-> sp.host, port |-> n.val]

\* The port text parsed by strtoull into n: it must be consumed up to its
\* '\0' and fit a uint16_t.
PortChecked(sp, n) ==
  IF n.end <= Len(CStr(sp.port)) \/ n.val > MaxPort THEN [fam |-> "unspec"]
  ELSE [fam |-> sp.fam, host |-> sp.host, port |-> n.val]

\* extractFamilyHostAndPort after the split: an empty port text keeps the
\* hint.
PortOf(sp, hint) ==
  IF sp.fam = "unspec" THEN sp
  ELSE IF sp.port = <<>> THEN [fam |-> sp.fam, host |-> sp.host, port |-> hint]
  ELSE PortChecked(sp, StrToULL(CStr(sp.port)))

ExtractFamilyHostAndPort(str, hint) == PortOf(SplitHostPort(str), hint)

TryParseAsWildcard(host, port) ==
  IF host # <<"*">> THEN NotMine
  ELSE Address("inet6", TRUE, port, [k \in 1..8 |-> 0], <<>>, 0, SizeofIn6)

\* The address for host bytes ip (<<>>: inet_pton returned 0).
InetAddress(ex, ip) ==
  IF ip = <<>> THEN InvalidArgument
  ELSE Address(ex.fam, FALSE, ex.port, ip, <<>>, 0, IF ex.fam = "inet6" THEN SizeofIn6 ELSE SizeofIn)

\* tryParseAsTcpAddress after extractFamilyHostAndPort gave ex.
TcpAddress(ex) ==
  IF ex.fam = "unspec" THEN InvalidArgument
  ELSE IF TryParseAsWildcard(ex.host, ex.port) # NotMine THEN TryParseAsWildcard(ex.host, ex.port)
  ELSE InetAddress(ex, InetPton(ex.fam, CStr(ex.host)))

TryParseAsTcpAddress(s, hint) ==
  IF ~StartsWith(s, TcpPrefix) THEN NotMine
  ELSE TcpAddress(ExtractFamilyHostAndPort(After(s, Len(TcpPrefix)), hint))

\* strncpy(sun_path, path.c_str(), sizeof(sun_path)): copies up to the first
\* '\0' and pads with '\0' to the end of sun_path.
TryParseAsUnixDomain(s) ==
  IF ~StartsWith(s, UnixPrefix) THEN NotMine
  ELSE LET path == After(s, Len(UnixPrefix)) IN
    IF Len(path) + 1 > SunPathLen THEN InvalidArgument
    ELSE LET c == CStr(path) IN
      Address("unix", FALSE, 0, <<>>,
              [k \in 1..SunPathLen |-> IF k <= Len(c) THEN c[k] ELSE NUL],
              SunPathLen, SunOffset + Len(path) + 1)

\* Mutant of TryParseAsAbstractUnixDomain: no byte reserved for sun_path[0].
TryParseAsAbstractUnixDomainNoReserve(s) ==
  IF ~StartsWith(s, AbstractPrefix) THEN NotMine
  ELSE LET path == After(s, Len(AbstractPrefix)) IN
    IF Len(path) + 1 > SunPathLen THEN InvalidArgument
    ELSE Address("unix", FALSE, 0, <<>>,
                 [k \in 1..SunPathLen |-> IF 2 <= k /\ k <= Len(path) + 1 THEN path[k - 1] ELSE NUL],
                 Len(path) + 2, SunOffset + Len(path) + 1)

\* sun_path[0] = '\0', then memcpy(&sun_path[1], path.c_str(), size + 1):
\* the bytes written end at index size + 2 of sun_path (1-based).
TryParseAsAbstractUnixDomain(s) ==
  IF ~StartsWith(s, AbstractPrefix) THEN NotMine
  ELSE LET path == After(s, Len(AbstractPrefix)) IN
    IF Len(path) + 1 > SunPathLen - 1 THEN InvalidArgument
    ELSE Address("unix", FALSE, 0, <<>>,
                 [k \in 1..SunPathLen |-> IF 2 <= k /\ k <= Len(path) + 1 THEN path[k - 1] ELSE NUL],
                 Len(path) + 2, SunOffset + Len(path) + 1)

\* SocketAddress::parse: Unix, then abstract Unix, then TCP.
Parse(s, hint) ==
  CASE TryParseAsUnixDomain(s) # NotMine -> TryParseAsUnixDomain(s)
    [] TryParseAsAbstractUnixDomain(s) # NotMine -> TryParseAsAbstractUnixDomain(s)
    [] TryParseAsTcpAddress(s, hint) # NotMine -> TryParseAsTcpAddress(s, hint)
    [] OTHER -> InvalidArgument

\* Mutant of GetUnixPrefixAndPath: the abstract name keeps the terminator.
GetUnixPrefixAndPathKeepsNul(a) ==
  LET n == a.len - SunOffset IN
  IF n = 0 THEN UnixPrefix
  ELSE IF a.sun[1] = NUL THEN AbstractPrefix \o SubSeq(a.sun, 2, Min({n + 1, SunPathLen}))
  ELSE UnixPrefix \o SubSeq(a.sun, 1, n)

\* getUnixPrefixAndPath joined by toString: path_len = addr_len_ - offset.
GetUnixPrefixAndPath(a) ==
  LET n == a.len - SunOffset IN
  IF n = 0 THEN UnixPrefix
  ELSE IF a.sun[1] = NUL THEN AbstractPrefix \o SubSeq(a.sun, 2, n)
  ELSE UnixPrefix \o SubSeq(a.sun, 1, n)

-----------------------------------------------------------------------------
(* One call sequence: parse, toString of a Unix address, parse of the text. *)

VARIABLES
  conn,    \* the connection string parse was called with
  hint,    \* the port hint it was called with
  addr,    \* its result: None before the call, an address or InvalidArgument
  text,    \* toString() of a Unix address, <<>> before it is called
  again,   \* parse(text, hint): None before the call
  backlog, \* the listening socket's queue of completed connections
  acall,   \* "idle", or "loop" inside the while (true) of accept
  arrived  \* connections the clients have opened

parseVars == <<conn, hint, addr, text, again>>
acceptVars == <<backlog, acall, arrived>>
vars == <<parseVars, acceptVars>>

\* A queued connection either is good or carries a pending network error
\* that accept reports in its place (ECONNABORTED, EPROTO, ENETDOWN, ...:
\* Linux hands such errors over per connection and drops the connection).
ConnKinds == {"good", "neterr"}

Result == {None, InvalidArgument} \cup
          [fam : {"inet", "inet6", "unix"}, wild : BOOLEAN, port : 0..MaxPort,
           ip : Seq(0..65535), sun : Seq(STRING), wr : Nat, len : Nat]

\* Every result parse gives is an error or an address whose port fits a
\* uint16_t.
TypeOK ==
  /\ conn \in Inputs \cup {<<>>}
  /\ hint \in Hints
  /\ addr \in Result
  /\ again \in Result
  /\ text \in Seq(STRING)
  /\ backlog \in Seq(ConnKinds) /\ Len(backlog) <= BacklogLen
  /\ acall \in {"idle", "loop"}
  /\ arrived \in 0..MaxConns

IsUnix(a) == a \notin {None, InvalidArgument} /\ a.fam = "unix"

Init ==
  /\ conn = <<>>
  /\ hint \in Hints
  /\ addr = None
  /\ text = <<>>
  /\ again = None
  /\ backlog = <<>>
  /\ acall = "idle"
  /\ arrived = 0

\* SocketAddress::parse(conn_str, port_hint).
DoParse ==
  /\ addr = None
  /\ \E s \in Inputs, h \in Hints :
       /\ conn' = s
       /\ hint' = h
       /\ addr' = Parse(s, h)
  /\ UNCHANGED <<text, again, acceptVars>>

\* SocketAddress::toString() of a Unix address.
UnixToString ==
  /\ IsUnix(addr)
  /\ text = <<>>
  /\ text' = GetUnixPrefixAndPath(addr)
  /\ UNCHANGED <<conn, hint, addr, again, acceptVars>>

\* SocketAddress::parse(toString(), port_hint).
Reparse ==
  /\ text # <<>>
  /\ again = None
  /\ again' = Parse(text, hint)
  /\ UNCHANGED <<conn, hint, addr, text, acceptVars>>

-----------------------------------------------------------------------------
(* accept(server_fd) *)

\* A client's connect completes into the listen backlog (refused if full).
Arrive ==
  /\ arrived < MaxConns
  /\ Len(backlog) < BacklogLen
  /\ \E k \in ConnKinds : backlog' = Append(backlog, k)
  /\ arrived' = arrived + 1
  /\ UNCHANGED <<parseVars, acall>>

\* The executor calls accept on the listening socket.
CallAccept ==
  /\ acall = "idle"
  /\ acall' = "loop"
  /\ UNCHANGED <<parseVars, backlog, arrived>>

\* Mutant: EAGAIN is taken for a transient error and retried.
AcceptIterRetriesEagain ==
  /\ acall = "loop"
  /\ \/ backlog = <<>> /\ UNCHANGED <<backlog, acall>>
     \/ backlog # <<>> /\ Head(backlog) = "good" /\ backlog' = Tail(backlog) /\ acall' = "idle"
     \/ backlog # <<>> /\ Head(backlog) = "neterr" /\ backlog' = Tail(backlog) /\ UNCHANGED acall
     \/ backlog # <<>> /\ acall' = "idle" /\ UNCHANGED backlog
  /\ UNCHANGED <<parseVars, arrived>>

\* One turn of the while (true):
\*  - an empty backlog: EAGAIN, return nullopt;
\*  - a good connection: it leaves the backlog; fcntl(O_NONBLOCK) then
\*    either succeeds (the fd is returned, TCP_NODELAY set for inet) or
\*    fails (the OwnedFd closes it, return nullopt): the call ends either way;
\*  - a connection with a pending network error: it leaves the backlog,
\*    the error is logged and accept is retried;
\*  - a per-process error (EMFILE, ENFILE, ENOBUFS, ...): return nullopt,
\*    the backlog is untouched.
AcceptIter ==
  /\ acall = "loop"
  /\ \/ backlog = <<>> /\ acall' = "idle" /\ UNCHANGED backlog
     \/ backlog # <<>> /\ Head(backlog) = "good" /\ backlog' = Tail(backlog) /\ acall' = "idle"
     \/ backlog # <<>> /\ Head(backlog) = "neterr" /\ backlog' = Tail(backlog) /\ UNCHANGED acall
     \/ backlog # <<>> /\ acall' = "idle" /\ UNCHANGED backlog
  /\ UNCHANGED <<parseVars, arrived>>

Next == DoParse \/ UnixToString \/ Reparse \/ Arrive \/ CallAccept \/ AcceptIter

\* A call runs on the executor thread to its return: each turn of the loop
\* that can be taken is taken.
Spec == Init /\ [][Next]_vars /\ WF_vars(AcceptIter)

-----------------------------------------------------------------------------
(* Properties *)

\* The sockaddr content: what connect and bind see (wr is the model's count
\* of bytes written into sun_path, not part of the address).
SameAddress(a, b) ==
  /\ a \notin {None, InvalidArgument}
  /\ b \notin {None, InvalidArgument}
  /\ [a EXCEPT !.wr = 0] = [b EXCEPT !.wr = 0]

\* The TCP grammar of the spec (4.A), written independently of the code: a
\* leading '[' opens a bracketed IPv6 host closed by the first ']', else a
\* single ':' splits host and port and two or more mean an IPv6 host with no
\* port; a port is decimal digits and at most 65535; no port keeps the hint.
DecimalPort(p) == p # <<>> /\ \A k \in DOMAIN p : p[k] \in DOMAIN DecVal
PortValue(p) == FoldLeft(LAMBDA acc, c : Min({acc * 10 + DecVal[c], Big}), 0, p)

RefBracketed(rest, e) ==
  IF e = 0 \/ (e < Len(rest) /\ rest[e + 1] # ":") THEN [ok |-> FALSE]
  ELSE [ok |-> TRUE, fam |-> "inet6", host |-> SubSeq(rest, 2, e - 1), port |-> After(rest, e + 1)]

RefUnbracketed(rest, colons) ==
  IF Cardinality(colons) = 1
    THEN [ok |-> TRUE, fam |-> "inet", host |-> SubSeq(rest, 1, Min(colons) - 1), port |-> After(rest, Min(colons))]
    ELSE [ok |-> TRUE, fam |-> IF colons = {} THEN "inet" ELSE "inet6", host |-> rest, port |-> <<>>]

RefSplit(rest) ==
  IF rest # <<>> /\ rest[1] = "[" THEN RefBracketed(rest, FirstOf(rest, "]", 1))
  ELSE RefUnbracketed(rest, {k \in DOMAIN rest : rest[k] = ":"})

RefHost(sp, port) ==
  IF sp.host = <<"*">> THEN Address("inet6", TRUE, port, [k \in 1..8 |-> 0], <<>>, 0, SizeofIn6)
  ELSE InetAddress([fam |-> sp.fam, port |-> port], InetPton(sp.fam, sp.host))

RefAddress(sp, hint0) ==
  IF ~sp.ok THEN InvalidArgument
  ELSE IF sp.port = <<>> THEN RefHost(sp, hint0)
  ELSE IF ~DecimalPort(sp.port) \/ PortValue(sp.port) > MaxPort THEN InvalidArgument
  ELSE RefHost(sp, PortValue(sp.port))

RefTcp(s, hint0) == RefAddress(RefSplit(After(s, Len(TcpPrefix))), hint0)

\* parse of a "tcp://" string (tryParseAsTcpAddress with
\* extractFamilyHostAndPort and strtoull) gives exactly what the grammar of
\* the spec gives: the same address, or InvalidArgument for both.
TcpParseMatchesGrammar ==
  (addr # None /\ StartsWith(conn, TcpPrefix)) => addr = RefTcp(conn, hint)

\* tryParseAsUnixDomain's strncpy and tryParseAsAbstractUnixDomain's memcpy
\* write inside sun_path, and addr_len_ never counts bytes past it.
SunPathInBounds ==
  IsUnix(addr) => /\ addr.wr <= SunPathLen
                  /\ addr.len <= SunOffset + SunPathLen

\* toString of an abstract Unix address (getUnixPrefixAndPath, which drops
\* the terminator counted in addr_len_) parses back to the same address,
\* NUL bytes in the name included.
AbstractRoundTrip ==
  (again # None /\ StartsWith(conn, AbstractPrefix)) => SameAddress(again, addr)

\* Every call of accept returns: the retry loop for transient errors ends,
\* because each retried error uses up the connection it was reported for
\* and an empty backlog ends the call with EAGAIN.
AcceptReturns == acall = "loop" ~> acall = "idle"

=============================================================================
