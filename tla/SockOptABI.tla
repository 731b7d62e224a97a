----------------------------- MODULE SockOptABI -----------------------------
(***************************************************************************)
(* The foreign ABI the translation layer speaks: the numeric POSIX levels  *)
(* and option names (musl <sys/socket.h>, <netinet/in.h>, <netinet/tcp.h>)*)
(* that socket_conv.go reaches through cgo as C.SOL_*, C.SO_*, C.TCP_*,    *)
(* C.IP_*, C.IPV6_*, the protocol numbers of the stack, the record sizes   *)
(* the IPv4 membership decoder switches on, and the tcpip errors it        *)
(* returns.  Names are kept numeric because dispatch is on (level, name)   *)
(* pairs whose numbers collide across levels (SO_REUSEADDR = IP_TTL = 2).  *)
(***************************************************************************)

\* Levels.
SOL_IP == 0
SOL_SOCKET == 1
SOL_TCP == 6
SOL_UDP == 17
SOL_IPV6 == 41
SOL_ICMPV6 == 58
SOL_RAW == 255
SOL_PACKET == 263

\* SOL_SOCKET option names.
SO_DEBUG == 1
SO_REUSEADDR == 2
SO_TYPE == 3
SO_ERROR == 4
SO_BROADCAST == 6
SO_SNDBUF == 7
SO_RCVBUF == 8
SO_KEEPALIVE == 9
SO_OOBINLINE == 10
SO_LINGER == 13
SO_REUSEPORT == 15
SO_PASSCRED == 16
SO_PEERCRED == 17
SO_RCVTIMEO == 20
SO_SNDTIMEO == 21
SO_BINDTODEVICE == 25
SO_DOMAIN == 39

\* SOL_TCP option names.
TCP_NODELAY == 1
TCP_MAXSEG == 2
TCP_CORK == 3
TCP_KEEPIDLE == 4
TCP_KEEPINTVL == 5
TCP_KEEPCNT == 6
TCP_INFO == 11
TCP_QUICKACK == 12
TCP_REPAIR_OPTIONS == 22
TCP_NOTSENT_LOWAT == 25
TCP_CC_INFO == 26

\* SOL_IP option names.
IP_TOS == 1
IP_TTL == 2
IP_HDRINCL == 3
IP_PKTINFO == 8
IP_MULTICAST_IF == 32
IP_MULTICAST_TTL == 33
IP_MULTICAST_LOOP == 34
IP_ADD_MEMBERSHIP == 35
IP_DROP_MEMBERSHIP == 36
MCAST_JOIN_GROUP == 42

\* SOL_IPV6 option names.
IPV6_MULTICAST_IF == 17
IPV6_MULTICAST_HOPS == 18
IPV6_MULTICAST_LOOP == 19
IPV6_ADD_MEMBERSHIP == 20
IPV6_DROP_MEMBERSHIP == 21
IPV6_V6ONLY == 26
IPV6_PATHMTU == 61
IPV6_TCLASS == 67

\* Values the getters return.
SOCK_STREAM == 1
SOCK_DGRAM == 2
AF_INET == 2
AF_INET6 == 10

\* Protocol numbers of the stack (tcp, udp, ipv4, ipv6, and one other).
TCPProtocolNumber == 6
UDPProtocolNumber == 17
ICMPv4ProtocolNumber == 1
IPv4ProtocolNumber == 2048
IPv6ProtocolNumber == 34525
ARPProtocolNumber == 2054

\* Record sizes the IPv4 membership decoder switches on.
sizeof_struct_in_addr == 4
sizeof_struct_ip_mreq == 8
sizeof_struct_ip_mreqn == 12
sizeof_struct_ipv6_mreq == 20

\* Errors.  NoError is Go's nil *tcpip.Error.
NoError == "nil"
ErrUnknownProtocol == "ErrUnknownProtocol"
ErrUnknownProtocolOption == "ErrUnknownProtocolOption"
ErrNotSupported == "ErrNotSupported"
ErrInvalidOptionValue == "ErrInvalidOptionValue"
\* Any failure the endpoint itself reports; the layer passes it on as is.
ErrEndpoint == "ErrEndpoint"

\* The "no value" half of a Go (interface{}, *tcpip.Error) result.
Nil == "none"
=============================================================================
