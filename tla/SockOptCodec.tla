---------------------------- MODULE SockOptCodec ----------------------------
(***************************************************************************)
(* The scalar codec of socket_conv.go: the little-endian reads of option  *)
(* buffers, parseIntOrChar, the NUL handling of device names, the width   *)
(* conversions the code applies when it stores into a tcpip option type,  *)
(* and the decoders of the membership request records.                    *)
(*                                                                         *)
(* A buffer is a sequence of bytes (0..255).  TLC integers are 32 bits    *)
(* wide, so a Go uint32 read from a buffer is held as the int32 with the  *)
(* same bits; every conversion the code applies to it (int32(), a          *)
(* comparison with MaxInt32, uint8()) is defined on that representation.  *)
(***************************************************************************)
EXTENDS Integers, Sequences, SequencesExt, SockOptABI

sizeOfInt32 == 4

MaxInt32 == 2147483647
MinInt32 == -MaxInt32 - 1

\* binary.LittleEndian.Uint32(buf): the first four bytes, least significant
\* first.  The result is the uint32's bit pattern read as an int32.
LittleEndianUint32(buf) ==
  LET top == IF buf[4] >= 128 THEN buf[4] - 256 ELSE buf[4]
  IN  ((top * 256 + buf[3]) * 256 + buf[2]) * 256 + buf[1]

\* Go's int(v) of a uint32 v, compared with math.MaxInt32: the stored
\* int exceeds MaxInt32 exactly when the uint32's top bit is set.
Uint32AboveMaxInt32(v) == v < 0

\* uint8(v), the conversion into tcpip.TTLOption, MulticastTTLOption and
\* IPv4TOSOption: the low byte of v.
ToUint8(v) == v % 256

\* parseIntOrChar: a 32-bit int from a buffer of at least four bytes,
\* otherwise the first byte read as unsigned; an empty buffer is invalid.
parseIntOrChar(buf) ==
  CASE Len(buf) = 0            -> [err |-> ErrInvalidOptionValue, v |-> 0]
    [] Len(buf) >= sizeOfInt32 -> [err |-> NoError, v |-> LittleEndianUint32(buf)]
    [] OTHER                   -> [err |-> NoError, v |-> buf[1]]

\* Fault variant: the name keeps the NUL (an off-by-one in the slice end).
BindToDeviceNameKeepingNul(optVal) ==
  LET n == SelectInSeq(optVal, LAMBDA b : b = 0)
  IN  IF n = 0 THEN optVal ELSE SubSeq(optVal, 1, n)

\* SO_BINDTODEVICE set: the bytes before the first NUL, or the whole buffer
\* when there is none (bytes.IndexByte returns -1).
BindToDeviceName(optVal) ==
  LET n == SelectInSeq(optVal, LAMBDA b : b = 0) - 1
  IN  IF n = -1 THEN optVal ELSE SubSeq(optVal, 1, n)

\* SO_BINDTODEVICE get: nil for no device, else the name and a NUL.
BindToDeviceBytes(v) == IF Len(v) = 0 THEN <<>> ELSE Append(v, 0)

\* isZeros: every byte of the address is zero.
isZeros(addr) == \A i \in DOMAIN addr : addr[i] = 0

\* The IPv4 "any" address net.IPv4zero.To4().
IPv4zero == <<0, 0, 0, 0>>

(***************************************************************************)
(* Record decoders.  Unmarshal copies the record out of a buffer and fails *)
(* when the buffer is shorter than the record.  An ip_mreqn is decoded     *)
(* into the fields of the tcpip.MembershipOption it feeds; the 8-byte      *)
(* ip_mreq and the bare 4-byte in_addr fill a zeroed ip_mreqn.             *)
(***************************************************************************)
Mreqn(multiaddr, address, ifindex) ==
  [imr_multiaddr |-> multiaddr, imr_address |-> address, imr_ifindex |-> ifindex]

UnmarshalOK(buf, size) == Len(buf) >= size

ip_mreq_Unmarshal(buf) ==
  Mreqn(SubSeq(buf, 1, 4), SubSeq(buf, 5, 8), 0)

ip_mreqn_Unmarshal(buf) ==
  Mreqn(SubSeq(buf, 1, 4), SubSeq(buf, 5, 8), LittleEndianUint32(SubSeq(buf, 9, 12)))

ipv6_mreq_Unmarshal(buf) ==
  [ipv6mr_multiaddr |-> SubSeq(buf, 1, 16),
   ipv6mr_interface |-> LittleEndianUint32(SubSeq(buf, 17, 20))]

(***************************************************************************)
(* time.Duration, held as whole seconds and a nanosecond remainder so that *)
(* hours of keepalive fit TLC's integers.  time.Second * time.Duration(v)  *)
(* has no remainder; Duration / time.Second truncates it.                  *)
(***************************************************************************)
SecondsDuration(v) == [sec |-> v, nsec |-> 0]
DurationSeconds(d) == d.sec
=============================================================================
