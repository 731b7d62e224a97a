------------------------------ MODULE SockOpt ------------------------------
(***************************************************************************)
(* The translation layer as a whole: the public entry points GetSockOpt    *)
(* and SetSockOpt of socket_conv.go, which dispatch on the level to the    *)
(* per-level getters and setters, driven by a caller that issues any       *)
(* sequence of calls on one endpoint while the stack posts asynchronous    *)
(* events to it.  Calls on one endpoint are serialised by the endpoint     *)
(* (spec.md section 5), so each call is one atomic step.                   *)
(***************************************************************************)
EXTENDS SocketLevel, TCPLevel, IPLevel, IPv6Level

CONSTANTS
  GetKeys,            \* <<level, name>> pairs the caller may read
  SetInputs,          \* <<level, name, optVal>> triples the caller may write
  ContractKeys,       \* option keys checked against OptionStore
  ContractGroupKeys   \* membership keys checked against OptionStore

ASSUME \A s \in SetInputs : \A i \in DOMAIN s[3] : s[3][i] \in Bytes

vars == <<ep, call, ret>>

\* The levels with a sub-dispatcher.  SOL_UDP, SOL_ICMPV6, SOL_RAW and
\* SOL_PACKET have an empty case and end where unknown levels do (only the
\* log line, which is not modelled, tells them apart).
ImplementedLevels == {SOL_SOCKET, SOL_TCP, SOL_IPV6, SOL_IP}

GetSockOpt(level, name) ==
  /\ call' = [op |-> "get", level |-> level, name |-> name, buf |-> <<>>]
  /\ \/ level = SOL_SOCKET /\ getSockOptSocket(name)
     \/ level = SOL_TCP /\ getSockOptTCP(name)
     \/ level = SOL_IPV6 /\ getSockOptIPv6(name)
     \/ level = SOL_IP /\ getSockOptIP(name)
     \/ level \notin ImplementedLevels /\ Fail(ErrUnknownProtocol)

\* Fault variant: the SOL_IP case calls the SOL_SOCKET setter (a copied
\* case left unchanged).
SetSockOptIPAsSocket(level, name, optVal) ==
  /\ call' = [op |-> "set", level |-> level, name |-> name, buf |-> optVal]
  /\ \/ level \in {SOL_SOCKET, SOL_IP} /\ setSockOptSocket(name, optVal)
     \/ level = SOL_TCP /\ setSockOptTCP(name, optVal)
     \/ level = SOL_IPV6 /\ setSockOptIPv6(name, optVal)
     \/ level \notin ImplementedLevels /\ Fail(ErrUnknownProtocolOption)

SetSockOpt(level, name, optVal) ==
  /\ call' = [op |-> "set", level |-> level, name |-> name, buf |-> optVal]
  /\ \/ level = SOL_SOCKET /\ setSockOptSocket(name, optVal)
     \/ level = SOL_TCP /\ setSockOptTCP(name, optVal)
     \/ level = SOL_IPV6 /\ setSockOptIPv6(name, optVal)
     \/ level = SOL_IP /\ setSockOptIP(name, optVal)
     \/ level \notin ImplementedLevels /\ Fail(ErrUnknownProtocolOption)

Next ==
  \/ \E k \in GetKeys : GetSockOpt(k[1], k[2])
  \/ \E s \in SetInputs : SetSockOpt(s[1], s[2], s[3])
  \/ Stack

Spec == Init /\ [][Next]_vars

-----------------------------------------------------------------------------
(***************************************************************************)
(* Type invariant.                                                         *)
(***************************************************************************)
TypeOK ==
  /\ EpTypeOK
  /\ call \in [op : {"none", "get", "set", "stack"}, level : Int, name : Int,
               buf : Seq(Bytes)]
  /\ ret.err \in {NoError, ErrUnknownProtocol, ErrUnknownProtocolOption,
                  ErrNotSupported, ErrInvalidOptionValue, ErrEndpoint}
  /\ ret.err # NoError => ret.val = Nil

-----------------------------------------------------------------------------
(***************************************************************************)
(* Refinement.  The reading of a key is what its getter computes from the  *)
(* endpoint; the contract's groups are the endpoint's memberships.         *)
(***************************************************************************)
ReadValue(k) ==
  CASE k[1] = SOL_SOCKET -> SocketGet(k[2]).val
    [] k[1] = SOL_TCP -> TCPGet(k[2]).val
    [] k[1] = SOL_IPV6 -> IPv6Get(k[2]).val
    [] k[1] = SOL_IP -> IPGet(k[2]).val

\* TCP_INFO is not an option a caller writes: the contract covers it as an
\* info key, reporting the stack's estimate.
InfoKey == <<SOL_TCP, TCP_INFO>>
ContractOptionKeys == ContractKeys \ {InfoKey}

Contract == INSTANCE OptionStore WITH
  Keys <- ContractOptionKeys,
  InfoKeys <- ContractKeys \cap {InfoKey},
  GroupKeys <- ContractGroupKeys,
  Errno <- tcpipErrorToCode,
  val <- [k \in ContractOptionKeys |-> ReadValue(k)],
  estimate <- [rtt |-> ep.rtt, rttVar |-> ep.rttVar],
  lastError <- ep.lastError,
  groups <- ep.memberships

\* Every behaviour of the layer is one the option-store contract allows: a
\* write through a key changes that key's reading alone, to the value the
\* option's policy gives (TTL -1 reads back 64, multicast TTL -1 reads 1,
\* no-delay and loop read 0/1, keepalive reads whole seconds, buffer sizes
\* never read negative); a rejected or failed write changes no reading;
\* SO_ERROR reports the pending error once and clears it; TCP_INFO reports
\* the stack's latest RTT estimate in whole microseconds, which no call moves.
ImplementsOptionStore == Contract!Spec

-----------------------------------------------------------------------------
\* The levels the dispatchers name: the four implemented ones and the four
\* recognised-but-unimplemented ones.
RecognisedLevels == ImplementedLevels \cup {SOL_UDP, SOL_ICMPV6, SOL_RAW, SOL_PACKET}

\* spec.md sections 4.1, 7 and 8: a get or a set at a level neither dispatcher
\* recognises fails with UnknownProtocol (the level itself is unknown),
\* whatever the option name; only UnknownProtocolOption is reserved for a
\* known level with an unhandled name.
UnknownLevelIsUnknownProtocol ==
  [][call'.op \in {"get", "set"} /\ call'.level \notin RecognisedLevels
       => ret'.err = ErrUnknownProtocol]_vars
=============================================================================
