----------------------------- MODULE IPv6Level -----------------------------
(***************************************************************************)
(* SOL_IPV6 options: getSockOptIPv6 and setSockOptIPv6 of socket_conv.go.  *)
(* IPV6_MULTICAST_HOPS, _LOOP and _IF use the endpoint's multicast TTL,    *)
(* loop and interface slots, the same ones as the SOL_IP options.          *)
(***************************************************************************)
EXTENDS Endpoint

IPv6Get(name) ==
  CASE name = IPV6_V6ONLY -> Ok(ep.v6Only)
    [] name = IPV6_TCLASS -> Ok(ep.tclass)
    [] name = IPV6_MULTICAST_IF -> Ok(ep.mcastIf.nic)
    [] name = IPV6_MULTICAST_HOPS -> Ok(ep.mcastTTL)
    [] name = IPV6_MULTICAST_LOOP -> Ok(IF ep.mcastLoop THEN 1 ELSE 0)
    \* IPV6_PATHMTU has an empty case and ends here too.
    [] OTHER -> Err(ErrUnknownProtocolOption)

IPv6GetNames ==
  {IPV6_V6ONLY, IPV6_TCLASS, IPV6_MULTICAST_IF, IPV6_MULTICAST_HOPS, IPV6_MULTICAST_LOOP}

getSockOptIPv6(name) ==
  \/ Reply(IPv6Get(name))
  \/ /\ name \in IPv6GetNames
     /\ EpFails

\* The names whose setter first requires a full 32-bit int.
IPv6IntNames == {IPV6_V6ONLY, IPV6_MULTICAST_HOPS, IPV6_MULTICAST_LOOP, IPV6_TCLASS}

IPv6SetNames ==
  IPv6IntNames \cup {IPV6_ADD_MEMBERSHIP, IPV6_DROP_MEMBERSHIP, IPV6_MULTICAST_IF}

\* Fault variant: -1 is not translated and so falls out of range.
MulticastHopsUntranslated(v) == v

\* IPV6_MULTICAST_HOPS: linux translates -1 to 1.
MulticastHops(v) == IF v = -1 THEN 1 ELSE v

\* IPV6_TCLASS: -1 means the default class 0.
TrafficClass(v) == IF v = -1 THEN 0 ELSE v

setSockOptIPv6(name, optVal) ==
  LET p == parseIntOrChar(optVal)
      m == ipv6_mreq_Unmarshal(optVal)
      o == [nic |-> m.ipv6mr_interface, maddr |-> m.ipv6mr_multiaddr, iaddr |-> <<>>]
      v == LittleEndianUint32(optVal)
  IN
  \/ /\ name \in IPv6IntNames
     /\ Len(optVal) < sizeOfInt32
     /\ Fail(ErrInvalidOptionValue)
  \/ /\ name = IPV6_V6ONLY
     /\ Len(optVal) >= sizeOfInt32
     /\ EpSet("v6Only", v)
  \/ /\ name \in {IPV6_ADD_MEMBERSHIP, IPV6_DROP_MEMBERSHIP}
     /\ ~UnmarshalOK(optVal, sizeof_struct_ipv6_mreq)
     /\ Fail(ErrInvalidOptionValue)
  \/ /\ name = IPV6_ADD_MEMBERSHIP
     /\ UnmarshalOK(optVal, sizeof_struct_ipv6_mreq)
     /\ EpAddMembership(o)
  \/ /\ name = IPV6_DROP_MEMBERSHIP
     /\ UnmarshalOK(optVal, sizeof_struct_ipv6_mreq)
     /\ EpRemoveMembership(o)
  \/ /\ name = IPV6_MULTICAST_IF
     /\ p.err # NoError
     /\ Fail(p.err)
  \/ /\ name = IPV6_MULTICAST_IF
     /\ p.err = NoError
     /\ EpSet("mcastIf", [nic |-> p.v, iaddr |-> <<>>])
  \/ /\ name = IPV6_MULTICAST_HOPS
     /\ Len(optVal) >= sizeOfInt32
     /\ LET h == MulticastHops(p.v)
        IN  \/ h \notin 0..255 /\ Fail(ErrInvalidOptionValue)
            \/ h \in 0..255 /\ EpSet("mcastTTL", ToUint8(h))
  \/ /\ name = IPV6_MULTICAST_LOOP
     /\ Len(optVal) >= sizeOfInt32
     /\ EpSet("mcastLoop", p.v # 0)
  \/ /\ name = IPV6_TCLASS
     /\ Len(optVal) >= sizeOfInt32
     /\ \/ v \notin -1..255 /\ Fail(ErrInvalidOptionValue)
        \/ v \in -1..255 /\ EpSet("tclass", TrafficClass(v))
  \/ /\ name \notin IPv6SetNames
     /\ Fail(ErrUnknownProtocolOption)
=============================================================================
