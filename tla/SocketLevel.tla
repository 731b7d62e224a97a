---------------------------- MODULE SocketLevel ----------------------------
(***************************************************************************)
(* SOL_SOCKET options: getSockOptSocket and setSockOptSocket of            *)
(* socket_conv.go.  SocketGet is the value the getter computes from the    *)
(* endpoint when every endpoint read succeeds; the actions add the         *)
(* endpoint's failures and SO_ERROR's read-and-clear.                      *)
(***************************************************************************)
EXTENDS Endpoint

\* Fault variant: SO_BROADCAST's case copied from SO_REUSEADDR's and left
\* naming ReuseAddressOption.
SocketIntSlotBroadcastAsReuse ==
  (SO_PASSCRED :> "passcred") @@ (SO_REUSEADDR :> "reuseAddr") @@
  (SO_REUSEPORT :> "reusePort") @@ (SO_BROADCAST :> "reuseAddr") @@
  (SO_KEEPALIVE :> "keepaliveEnabled") @@ (SO_OOBINLINE :> "oobInline")

\* Options read and written as a 32-bit integer slot (int32(v) on read).
SocketIntSlot ==
  (SO_PASSCRED :> "passcred") @@ (SO_REUSEADDR :> "reuseAddr") @@
  (SO_REUSEPORT :> "reusePort") @@ (SO_BROADCAST :> "broadcast") @@
  (SO_KEEPALIVE :> "keepaliveEnabled") @@ (SO_OOBINLINE :> "oobInline")

\* Buffer sizes: a Go int slot, saturated to MaxInt32 on read.
SocketSizeSlot == (SO_SNDBUF :> "sndbuf") @@ (SO_RCVBUF :> "rcvbuf")

\* Options whose setter decodes a little-endian uint32 into a slot.
SocketUint32Slot ==
  SocketSizeSlot @@ [n \in DOMAIN SocketIntSlot \ {SO_OOBINLINE} |-> SocketIntSlot[n]]

\* The all-zero struct linger.
Linger0 == [l_onoff |-> 0, l_linger |-> 0]

\* Fault variant: the size is returned without the MaxInt32 check.
SaturateSizeUnchecked(size) == size

\* if size > math.MaxInt32 { size = math.MaxInt32 }
SaturateSize(size) == IF Uint32AboveMaxInt32(size) THEN MaxInt32 ELSE size

SocketGet(name) ==
  CASE name = SO_TYPE ->
         CASE TransProto = TCPProtocolNumber -> Ok(SOCK_STREAM)
           [] TransProto = UDPProtocolNumber -> Ok(SOCK_DGRAM)
           [] OTHER -> Err(ErrNotSupported)
    [] name = SO_DOMAIN ->
         CASE NetProto = IPv4ProtocolNumber -> Ok(AF_INET)
           [] NetProto = IPv6ProtocolNumber -> Ok(AF_INET6)
           [] OTHER -> Err(ErrNotSupported)
    [] name = SO_ERROR ->
         Ok(IF ep.lastError = NoError THEN 0 ELSE tcpipErrorToCode(ep.lastError))
    [] name \in DOMAIN SocketIntSlot -> Ok(ep[SocketIntSlot[name]])
    [] name \in DOMAIN SocketSizeSlot ->
         Ok(SaturateSize(ep[SocketSizeSlot[name]]))
    [] name = SO_BINDTODEVICE -> Ok(BindToDeviceBytes(ep.bindToDevice))
    [] name = SO_LINGER -> Ok(Linger0)
    [] name \in {SO_PEERCRED, SO_SNDTIMEO, SO_RCVTIMEO} -> Err(ErrNotSupported)
    [] OTHER -> Err(ErrUnknownProtocolOption)

\* The getter cases that read the endpoint with ep.GetSockOpt(&v).
SocketEpReads == DOMAIN SocketIntSlot \cup DOMAIN SocketSizeSlot \cup {SO_BINDTODEVICE}

getSockOptSocket(name) ==
  \/ /\ name # SO_ERROR
     /\ Reply(SocketGet(name))
  \/ /\ name = SO_ERROR
     \* ep.GetSockOpt(tcpip.ErrorOption{}) hands over the last error and clears it.
     /\ ret' = SocketGet(name)
     /\ ep' = [ep EXCEPT !.lastError = NoError]
  \/ /\ name \in SocketEpReads
     /\ EpFails

\* Names setSockOptSocket has a case for.
SocketSetNames == DOMAIN SocketUint32Slot \cup {SO_BINDTODEVICE, SO_SNDTIMEO, SO_RCVTIMEO}

setSockOptSocket(name, optVal) ==
  \/ /\ name \in DOMAIN SocketUint32Slot
     /\ Len(optVal) < sizeOfInt32
     /\ Fail(ErrInvalidOptionValue)
  \/ /\ name \in DOMAIN SocketUint32Slot
     /\ Len(optVal) >= sizeOfInt32
     /\ EpSet(SocketUint32Slot[name], LittleEndianUint32(optVal))
  \/ /\ name = SO_BINDTODEVICE
     /\ EpSet("bindToDevice", BindToDeviceName(optVal))
  \/ /\ name \in {SO_SNDTIMEO, SO_RCVTIMEO}
     /\ Fail(ErrNotSupported)
  \/ /\ name \notin SocketSetNames
     /\ Fail(ErrUnknownProtocolOption)
=============================================================================
