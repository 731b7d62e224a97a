---------------------------- MODULE MCLinkLocal ----------------------------
(***************************************************************************)
(* Addresses for LinkLocal: the empty and one-byte addresses, every second *)
(* byte after the first bytes around 0xfe, and full 16-byte addresses.     *)
(***************************************************************************)
EXTENDS LinkLocal

\* fe80::1 and ff02::1.
MCFullAddresses ==
  {<<254, 128, 0, 0, 0, 0, 0, 0, 0, 0, 0, 0, 0, 0, 0, 1>>,
   <<255, 2, 0, 0, 0, 0, 0, 0, 0, 0, 0, 0, 0, 0, 0, 1>>}

MCAddresses ==
  {<<>>, <<254>>, <<128>>}
  \cup {<<b1, b2>> : b1 \in {0, 127, 253, 254, 255}, b2 \in 0..255}
  \cup MCFullAddresses
=============================================================================
