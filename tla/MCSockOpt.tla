----------------------------- MODULE MCSockOpt -----------------------------
(***************************************************************************)
(* Model values for SockOpt: the options a caller reads and the buffers it *)
(* writes.  Integer buffers cover the sentinels and edges the code treats  *)
(* specially: -1, 0, 1, 256, 2^31 (top bit set), one-byte "char" values   *)
(* and buffers shorter than an int.                                        *)
(***************************************************************************)
EXTENDS SockOpt

\* -1, INT32_MIN (uint32 2^31), 1, one byte, three bytes.
MCIntBufs == {<<255, 255, 255, 255>>, <<0, 0, 0, 128>>, <<1, 0, 0, 0>>,
              <<5>>, <<1, 0, 0>>}

\* "eth0" unterminated, "eth0\0", "\0", and "eth0\0x" (bytes after the NUL).
MCDeviceBufs == {<<101, 116, 104, 48>>, <<101, 116, 104, 48, 0>>, <<0>>,
                 <<101, 116, 104, 48, 0, 120>>}

MCSocketGetKeys ==
  {SOL_SOCKET} \X {SO_TYPE, SO_DOMAIN, SO_ERROR, SO_PEERCRED, SO_SNDBUF,
                   SO_REUSEPORT, SO_OOBINLINE, SO_BINDTODEVICE, SO_LINGER,
                   SO_SNDTIMEO, SO_DEBUG}
  \cup {<<SOL_UDP, SO_TYPE>>, <<99, 1>>}

MCSocketSetInputs ==
  ({SOL_SOCKET} \X {SO_SNDBUF, SO_REUSEPORT} \X MCIntBufs)
  \cup ({SOL_SOCKET} \X {SO_BINDTODEVICE} \X MCDeviceBufs)
  \cup ({SOL_SOCKET, SOL_UDP, 99} \X {SO_RCVTIMEO, SO_DEBUG} \X {<<1, 0, 0, 0>>})

MCSocketKeys == {SOL_SOCKET} \X {SO_SNDBUF, SO_REUSEPORT, SO_BINDTODEVICE}

\* The SOL_SOCKET options not in MCSocketKeys: the receive buffer and the
\* flags, set to -1, 1 and a one-byte buffer, read back, and read as
\* SO_OOBINLINE, which has a getter but no setter.
MCSocketFlagNames == {SO_RCVBUF, SO_REUSEADDR, SO_BROADCAST, SO_PASSCRED, SO_KEEPALIVE}
MCSocketFlagGetKeys == {SOL_SOCKET} \X (MCSocketFlagNames \cup {SO_OOBINLINE})
MCSocketFlagSetInputs ==
  {SOL_SOCKET} \X (MCSocketFlagNames \cup {SO_OOBINLINE})
               \X {<<255, 255, 255, 255>>, <<1, 0, 0, 0>>, <<5>>}
MCSocketFlagKeys == {SOL_SOCKET} \X MCSocketFlagNames

MCTCPGetKeys ==
  {SOL_TCP} \X {TCP_NODELAY, TCP_CORK, TCP_QUICKACK, TCP_KEEPIDLE, TCP_KEEPINTVL,
                TCP_KEEPCNT, TCP_INFO, TCP_CC_INFO}

MCTCPSetInputs ==
  ({SOL_TCP} \X {TCP_NODELAY, TCP_CORK, TCP_KEEPIDLE, TCP_KEEPCNT} \X MCIntBufs)
  \cup ({SOL_TCP} \X {TCP_QUICKACK, TCP_KEEPINTVL, TCP_REPAIR_OPTIONS}
         \X {<<255, 255, 255, 255>>, <<1, 0, 0>>})

MCTCPKeys == {SOL_TCP} \X {TCP_NODELAY, TCP_CORK, TCP_QUICKACK, TCP_KEEPIDLE, TCP_INFO,
                           TCP_KEEPINTVL, TCP_KEEPCNT}

\* Integers for the int-or-char options: empty, one byte, -1, 0, 256.
MCIntOrCharBufs == {<<>>, <<5>>, <<255, 255, 255, 255>>, <<0, 0, 0, 0>>,
                    <<0, 1, 0, 0>>}

\* IPv4 multicast requests: 0.0.0.0, 10.0.0.1, an ip_mreq for 224.0.0.1
\* on 10.0.0.1, an ip_mreqn for 224.0.0.1 on interface 2, a 7-byte buffer.
MCMreqBufs == {<<0, 0, 0, 0>>, <<10, 0, 0, 1>>,
               <<224, 0, 0, 1, 10, 0, 0, 1>>,
               <<224, 0, 0, 1, 0, 0, 0, 0, 2, 0, 0, 0>>,
               <<224, 0, 0, 1, 10, 0, 0>>}

MCIPGetKeys ==
  {SOL_IP} \X {IP_TTL, IP_MULTICAST_TTL, IP_MULTICAST_IF, IP_MULTICAST_LOOP,
               IP_TOS, IP_HDRINCL}

MCIPSetInputs ==
  ({SOL_IP} \X {IP_TTL, IP_MULTICAST_TTL, IP_MULTICAST_LOOP, IP_TOS} \X MCIntOrCharBufs)
  \cup ({SOL_IP} \X MreqNames \X MCMreqBufs)
  \cup ({SOL_IP} \X {MCAST_JOIN_GROUP, IP_PKTINFO} \X {<<1, 0, 0, 0>>})

MCIPKeys == {SOL_IP} \X {IP_TTL, IP_MULTICAST_TTL, IP_MULTICAST_IF, IP_MULTICAST_LOOP}
MCIPGroupKeys == {SOL_IP} \X {IP_ADD_MEMBERSHIP, IP_DROP_MEMBERSHIP}

\* An ipv6_mreq for ff02::1 on interface 1, and one cut short.
MCMreq6 == <<255, 2, 0, 0, 0, 0, 0, 0, 0, 0, 0, 0, 0, 0, 0, 1, 1, 0, 0, 0>>
MCMreq6Bufs == {MCMreq6, SubSeq(MCMreq6, 1, 16)}

MCIPv6GetKeys ==
  {SOL_IPV6} \X {IPV6_V6ONLY, IPV6_TCLASS, IPV6_MULTICAST_IF, IPV6_MULTICAST_HOPS,
                 IPV6_MULTICAST_LOOP, IPV6_PATHMTU}

MCIPv6SetInputs ==
  ({SOL_IPV6} \X {IPV6_TCLASS, IPV6_MULTICAST_HOPS, IPV6_MULTICAST_LOOP}
              \X (MCIntBufs \cup {<<0, 1, 0, 0>>}))
  \cup ({SOL_IPV6} \X {IPV6_V6ONLY, IPV6_MULTICAST_IF} \X MCIntOrCharBufs)
  \cup ({SOL_IPV6} \X {IPV6_ADD_MEMBERSHIP, IPV6_DROP_MEMBERSHIP} \X MCMreq6Bufs)
  \cup ({SOL_IPV6} \X {IPV6_PATHMTU} \X {<<1, 0, 0, 0>>})

MCIPv6Keys == {SOL_IPV6} \X {IPV6_V6ONLY, IPV6_TCLASS, IPV6_MULTICAST_IF,
                             IPV6_MULTICAST_HOPS, IPV6_MULTICAST_LOOP}
MCIPv6GroupKeys == {SOL_IPV6} \X {IPV6_ADD_MEMBERSHIP, IPV6_DROP_MEMBERSHIP}

\* Option numbers that coincide across levels: 1 is SO_DEBUG, TCP_NODELAY
\* and IP_TOS; 2 is SO_REUSEADDR, TCP_MAXSEG and IP_TTL; 26 is IPV6_V6ONLY.
MCCrossNames == {1, 2}
MCCrossBufs == {<<0, 0, 0, 0>>, <<255, 255, 255, 255>>, <<5>>}

MCCrossGetKeys ==
  ({SOL_SOCKET, SOL_TCP, SOL_IP} \X MCCrossNames)
  \cup {<<SOL_IPV6, IPV6_V6ONLY>>, <<SOL_SOCKET, SO_TYPE>>, <<SOL_SOCKET, SO_DOMAIN>>}

MCCrossSetInputs ==
  ({SOL_SOCKET, SOL_TCP, SOL_IP} \X MCCrossNames \X MCCrossBufs)
  \cup ({SOL_IPV6} \X {IPV6_V6ONLY} \X MCCrossBufs)

MCCrossKeys == {<<SOL_SOCKET, SO_REUSEADDR>>, <<SOL_TCP, TCP_NODELAY>>,
                <<SOL_IP, IP_TTL>>, <<SOL_IPV6, IPV6_V6ONLY>>}

\* IP_TOS alone: a one-byte value, -1, 0 and 256.
MCTosKeys == {<<SOL_IP, IP_TOS>>}
MCTosSetInputs == {SOL_IP} \X {IP_TOS} \X MCIntOrCharBufs

\* The SOL_IP and SOL_IPV6 names of the multicast TTL, loop and interface.
MCAliasKeys == {<<SOL_IP, IP_MULTICAST_TTL>>, <<SOL_IPV6, IPV6_MULTICAST_HOPS>>,
                <<SOL_IP, IP_MULTICAST_LOOP>>, <<SOL_IPV6, IPV6_MULTICAST_LOOP>>,
                <<SOL_IP, IP_MULTICAST_IF>>, <<SOL_IPV6, IPV6_MULTICAST_IF>>}
MCAliasSetInputs ==
  ({SOL_IP} \X {IP_MULTICAST_TTL, IP_MULTICAST_LOOP} \X {<<0, 0, 0, 0>>, <<5>>})
  \cup {<<SOL_IP, IP_MULTICAST_IF, <<10, 0, 0, 1>>>>,
        <<SOL_IPV6, IPV6_MULTICAST_IF, <<2>>>>}

\* A level no dispatcher knows, read and written with name 1.
MCUnknownGetKeys == {<<99, 1>>}
MCUnknownSetInputs == {<<99, 1, <<1, 0, 0, 0>>>>}

MCRttSamples == {<<1500, 500>>, <<2000000, 999>>}
=============================================================================
