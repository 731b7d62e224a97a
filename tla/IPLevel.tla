------------------------------ MODULE IPLevel ------------------------------
(***************************************************************************)
(* SOL_IP options: getSockOptIP and setSockOptIP of socket_conv.go.  The   *)
(* multicast TTL, loop and interface slots of the endpoint are the same    *)
(* ones the SOL_IPV6 options use.                                          *)
(***************************************************************************)
EXTENDS Endpoint

\* DefaultTTL is linux's default TTL, read back for the stored sentinel 0.
DefaultTTL == 64

\* Fault variant: the stored sentinel 0 is returned as is.
TTLReadUnmapped(ttl) == ttl

\* IP_TTL read: the stored 0 means "default" and reads as DefaultTTL.
TTLRead(ttl) == IF ttl = 0 THEN DefaultTTL ELSE ttl

IPGet(name) ==
  CASE name = IP_TTL -> Ok(TTLRead(ep.ttl))
    [] name = IP_MULTICAST_TTL -> Ok(ep.mcastTTL)
    [] name = IP_MULTICAST_IF ->
         Ok(IF Len(ep.mcastIf.iaddr) = 0 THEN IPv4zero ELSE ep.mcastIf.iaddr)
    [] name = IP_MULTICAST_LOOP -> Ok(IF ep.mcastLoop THEN 1 ELSE 0)
    [] name = IP_TOS -> Ok(ep.tos)
    [] OTHER -> Err(ErrUnknownProtocolOption)

IPGetNames == {IP_TTL, IP_MULTICAST_TTL, IP_MULTICAST_IF, IP_MULTICAST_LOOP, IP_TOS}

getSockOptIP(name) ==
  \/ Reply(IPGet(name))
  \/ /\ name \in IPGetNames
     /\ EpFails

(***************************************************************************)
(* IP_ADD_MEMBERSHIP, IP_DROP_MEMBERSHIP and IP_MULTICAST_IF decode one of *)
(* three layouts, told apart by the buffer's length alone; the bare        *)
(* in_addr is accepted for IP_MULTICAST_IF only.                           *)
(***************************************************************************)
MreqNames == {IP_ADD_MEMBERSHIP, IP_DROP_MEMBERSHIP, IP_MULTICAST_IF}

MreqnLayout(name, optVal) ==
  \/ Len(optVal) \in {sizeof_struct_ip_mreq, sizeof_struct_ip_mreqn}
  \/ Len(optVal) = sizeof_struct_in_addr /\ name = IP_MULTICAST_IF

DecodeMreqn(optVal) ==
  CASE Len(optVal) = sizeof_struct_ip_mreq -> ip_mreq_Unmarshal(optVal)
    [] Len(optVal) = sizeof_struct_ip_mreqn -> ip_mreqn_Unmarshal(optVal)
    [] OTHER -> Mreqn(IPv4zero, optVal, 0)

setMreqn(name, m) ==
  LET o == [nic |-> m.imr_ifindex, maddr |-> m.imr_multiaddr, iaddr |-> m.imr_address]
  IN  \/ name = IP_ADD_MEMBERSHIP /\ EpAddMembership(o)
      \/ name = IP_DROP_MEMBERSHIP /\ EpRemoveMembership(o)
      \/ /\ name = IP_MULTICAST_IF
         /\ EpSet("mcastIf", [nic |-> m.imr_ifindex,
                              iaddr |-> IF isZeros(m.imr_address) THEN <<>>
                                        ELSE m.imr_address])

\* Names setSockOptIP has a handling case for.
IPSetNames == MreqNames \cup {IP_MULTICAST_TTL, IP_MULTICAST_LOOP, MCAST_JOIN_GROUP,
                              IP_TTL, IP_TOS}

\* The names that start with parseIntOrChar and fail with its error.
IPIntOrCharNames == {IP_MULTICAST_TTL, IP_MULTICAST_LOOP, IP_TTL}

\* tcpip.IPv4TOSOption(v): the conversion into the 8-bit option type.
IPv4TOSOption(v) == ToUint8(v)

setSockOptIP(name, optVal) ==
  LET p == parseIntOrChar(optVal) IN
  \/ /\ name \in IPIntOrCharNames
     /\ p.err # NoError
     /\ Fail(p.err)
  \/ /\ name = IP_MULTICAST_TTL
     /\ p.err = NoError
     \* Linux translates -1 to 1.
     /\ LET v == IF p.v = -1 THEN 1 ELSE p.v
        IN  \/ v \notin 0..255 /\ Fail(ErrInvalidOptionValue)
            \/ v \in 0..255 /\ EpSet("mcastTTL", ToUint8(v))
  \/ /\ name \in MreqNames
     /\ ~MreqnLayout(name, optVal)
     /\ Fail(ErrInvalidOptionValue)
  \/ /\ name \in MreqNames
     /\ MreqnLayout(name, optVal)
     /\ setMreqn(name, DecodeMreqn(optVal))
  \/ /\ name = IP_MULTICAST_LOOP
     /\ p.err = NoError
     /\ EpSet("mcastLoop", p.v # 0)
  \/ /\ name = MCAST_JOIN_GROUP
     /\ Fail(ErrNotSupported)
  \/ /\ name = IP_TTL
     /\ p.err = NoError
     \* -1 means default TTL.
     /\ \/ p.v = -1 /\ EpSet("ttl", 0)
        \/ p.v # -1 /\ p.v \notin 1..255 /\ Fail(ErrInvalidOptionValue)
        \/ p.v \in 1..255 /\ EpSet("ttl", ToUint8(p.v))
  \/ /\ name = IP_TOS
     /\ Len(optVal) = 0
     /\ Reply(NoRet)
  \/ /\ name = IP_TOS
     /\ Len(optVal) > 0
     /\ EpSet("tos", IPv4TOSOption(p.v))
  \/ /\ name \notin IPSetNames
     /\ Fail(ErrUnknownProtocolOption)
=============================================================================
