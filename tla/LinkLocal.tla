----------------------------- MODULE LinkLocal -----------------------------
(***************************************************************************)
(* isLinkLocal of socket_conv.go: whether an address has the IPv6          *)
(* link-local prefix fe80::/10.  An address is a tcpip.Address, a byte     *)
(* string of any length; here a sequence of bytes.  The code tests the    *)
(* first byte and the top two bits of the second; the reference            *)
(* definition below compares the first ten bits of the address with those  *)
(* of fe80:: directly, and a caller that asks about one address at a time   *)
(* lets TLC compare the two over every address of a bounded set.           *)
(***************************************************************************)
EXTENDS Integers, Sequences, Bitwise, SequencesExt

CONSTANT Addresses   \* the addresses a caller asks about

VARIABLES addr, linkLocal

vars == <<addr, linkLocal>>

\* Fault variant: the mask keeps only the top bit of the second byte, so
\* fec0::/10 (site-local) counts as link-local too.
isLinkLocalNinePrefix(a) == Len(a) >= 2 /\ a[1] = 254 /\ (a[2] & 128) = 128

\* len(addr) >= 2 && addr[0] == 0xfe && addr[1]&0xc0 == 0x80
isLinkLocal(a) == Len(a) >= 2 /\ a[1] = 254 /\ (a[2] & 192) = 128

-----------------------------------------------------------------------------
(* The reference: RFC 4291's fe80::/10, as a prefix of the address' bits.  *)

\* The eight bits of a byte, most significant first.
ByteBits(b) ==
  LET RECURSIVE Bits(_, _)
      Bits(v, k) == IF k = 0 THEN <<>> ELSE Bits(v \div 2, k - 1) \o <<v % 2>>
  IN  Bits(b, 8)

AddressBits(a) == FlattenSeq([i \in DOMAIN a |-> ByteBits(a[i])])

\* fe80::, of which the first PrefixLen bits form the link-local prefix.
LinkLocalPrefixAddr == <<254, 128>>
PrefixLen == 10

InLinkLocalPrefix(a) ==
  IsPrefix(SubSeq(AddressBits(LinkLocalPrefixAddr), 1, PrefixLen), AddressBits(a))

-----------------------------------------------------------------------------
Init ==
  /\ addr = <<>>
  /\ linkLocal = FALSE

\* A caller asks whether an address is link-local.
Query(a) ==
  /\ addr' = a
  /\ linkLocal' = isLinkLocal(a)

Next == \E a \in Addresses : Query(a)

Spec == Init /\ [][Next]_vars

\* isLinkLocal answers TRUE exactly for the addresses whose first ten bits
\* are fe80::/10; a mask of the wrong width or a wrong byte breaks it at
\* the prefix boundary (fe80, febf, fec0, fe7f).
LinkLocalIsPrefix == linkLocal = InLinkLocalPrefix(addr)
=============================================================================
