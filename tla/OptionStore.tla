---------------------------- MODULE OptionStore ----------------------------
(***************************************************************************)
(* What the translation layer promises, written from spec.md sections 4,   *)
(* 7 and 8 and not from the code: each option key <<level, name>> is an    *)
(* independent value a caller reads back; a write through a key decodes   *)
(* the caller's buffer, applies that option's compatibility policy, and    *)
(* either succeeds and changes that key's reading alone, or fails and      *)
(* changes nothing (validate-then-apply).  SO_ERROR hands over the pending *)
(* error and clears it; membership writes add or drop one group.           *)
(*                                                                         *)
(* Where the spec leaves an outcome open (a negative buffer size, a short  *)
(* buffer for an IPv6 hop limit) the contract allows every outcome.        *)
(***************************************************************************)
EXTENDS Integers, Sequences, SockOptABI

CONSTANTS
  Keys,        \* the option keys the contract covers
  GroupKeys,   \* the membership keys it covers
  InfoKeys,    \* the info-record keys it covers (TCP_INFO, or none)
  Errno(_)     \* the errno value of a stack error

\* estimate is the stack's round-trip-time estimate and its variance, in
\* nanoseconds: only the stack changes it, and the info record reports it.
VARIABLES val, lastError, groups, estimate, call, ret

DefaultTTL == 64
IntMax == 2147483647

\* decode-int32: the signed little-endian int a caller encodes in 4 bytes.
CallerInt(b) ==
  LET u == b[1] + 256 * (b[2] + 256 * (b[3] + 256 * (b[4] % 128)))
  IN  IF b[4] < 128 THEN u ELSE u - IntMax - 1

\* decode-int-or-char (spec section 4.6), for non-empty buffers.
IntOrChar(b) == IF Len(b) >= 4 THEN CallerInt(b) ELSE b[1]

AsBool(v) == IF v = 0 THEN 0 ELSE 1

\* The device name: the bytes up to the first NUL, or all of them.
DeviceName(b) ==
  IF \A i \in DOMAIN b : b[i] # 0 THEN b
  ELSE SubSeq(b, 1, (CHOOSE i \in DOMAIN b : b[i] = 0 /\ \A j \in 1..i-1 : b[j] # 0) - 1)

(***************************************************************************)
(* Policy(k, b, cur): what a write of buffer b through key k may leave as  *)
(* the key's reading ("reads"; empty: the write must fail) and whether it  *)
(* may fail with InvalidOptionValue ("reject").  cur is the reading before.*)
(***************************************************************************)
Accept(vs) == [reads |-> vs, reject |-> FALSE]
Reject == [reads |-> {}, reject |-> TRUE]
Either(vs) == [reads |-> vs, reject |-> TRUE]

IntKeys ==
  ({SOL_SOCKET} \X {SO_REUSEADDR, SO_REUSEPORT, SO_BROADCAST, SO_PASSCRED, SO_KEEPALIVE})
  \cup ({SOL_TCP} \X {TCP_CORK, TCP_QUICKACK, TCP_KEEPCNT, TCP_KEEPIDLE, TCP_KEEPINTVL})
  \cup {<<SOL_IPV6, IPV6_V6ONLY>>}

Policy(k, b, cur) ==
  CASE k \in IntKeys ->
         IF Len(b) < 4 THEN Reject ELSE Accept({CallerInt(b)})
    [] k \in {<<SOL_SOCKET, SO_SNDBUF>>, <<SOL_SOCKET, SO_RCVBUF>>} ->
         CASE Len(b) < 4 -> Reject
           [] CallerInt(b) >= 0 -> Accept({CallerInt(b)})
           [] OTHER -> Either(0..IntMax)
    [] k = <<SOL_SOCKET, SO_BINDTODEVICE>> ->
         Accept({IF DeviceName(b) = <<>> THEN <<>> ELSE Append(DeviceName(b), 0)})
    [] k = <<SOL_TCP, TCP_NODELAY>> ->
         IF Len(b) < 4 THEN Reject ELSE Accept({AsBool(CallerInt(b))})
    [] k = <<SOL_IP, IP_TTL>> ->
         CASE Len(b) = 0 -> Reject
           [] IntOrChar(b) = -1 -> Accept({DefaultTTL})
           [] IntOrChar(b) \in 1..255 -> Accept({IntOrChar(b)})
           [] OTHER -> Reject
    [] k = <<SOL_IP, IP_MULTICAST_TTL>> ->
         CASE Len(b) = 0 -> Reject
           [] IntOrChar(b) = -1 -> Accept({1})
           [] IntOrChar(b) \in 0..255 -> Accept({IntOrChar(b)})
           [] OTHER -> Reject
    [] k = <<SOL_IP, IP_MULTICAST_LOOP>> ->
         IF Len(b) = 0 THEN Reject ELSE Accept({AsBool(IntOrChar(b))})
    [] k = <<SOL_IP, IP_TOS>> ->
         IF Len(b) = 0 THEN Accept({cur}) ELSE Accept({IntOrChar(b)})
    [] k = <<SOL_IP, IP_MULTICAST_IF>> ->
         CASE Len(b) = 4 -> Accept({b})
           [] Len(b) \in {8, 12} -> Accept({SubSeq(b, 5, 8)})
           [] OTHER -> Reject
    [] k = <<SOL_IPV6, IPV6_TCLASS>> ->
         CASE Len(b) < 4 -> Reject
           [] CallerInt(b) = -1 -> Accept({0})
           [] CallerInt(b) \in 0..255 -> Accept({CallerInt(b)})
           [] OTHER -> Reject
    [] k = <<SOL_IPV6, IPV6_MULTICAST_IF>> ->
         IF Len(b) = 0 THEN Reject ELSE Accept({IntOrChar(b)})
    [] k = <<SOL_IPV6, IPV6_MULTICAST_HOPS>> ->
         CASE Len(b) = 0 -> Reject
           [] Len(b) < 4 -> Either(0..255)
           [] CallerInt(b) = -1 -> Accept({1})
           [] CallerInt(b) \in 0..255 -> Accept({CallerInt(b)})
           [] OTHER -> Reject
    [] k = <<SOL_IPV6, IPV6_MULTICAST_LOOP>> ->
         CASE Len(b) = 0 -> Reject
           [] Len(b) < 4 -> Either({0, 1})
           [] OTHER -> Accept({AsBool(CallerInt(b))})

(***************************************************************************)
(* Membership requests (spec section 3): a plain 8-byte IPv4 request, an   *)
(* extended 12-byte one carrying an interface index, or an IPv6 request of *)
(* a 16-byte group and an interface index.  Anything else is rejected.     *)
(***************************************************************************)
Group(k, b) ==
  IF k[1] = SOL_IP
  THEN [nic |-> IF Len(b) = 12 THEN CallerInt(SubSeq(b, 9, 12)) ELSE 0,
        maddr |-> SubSeq(b, 1, 4), iaddr |-> SubSeq(b, 5, 8)]
  ELSE [nic |-> CallerInt(SubSeq(b, 17, 20)), maddr |-> SubSeq(b, 1, 16),
        iaddr |-> <<>>]

GroupValid(k, b) == IF k[1] = SOL_IP THEN Len(b) \in {8, 12} ELSE Len(b) >= 20

Joins(k) == k[2] \in {IP_ADD_MEMBERSHIP, IPV6_ADD_MEMBERSHIP}

\* The info record (spec section 4): round-trip time and its variance,
\* converted into whole microseconds.
InfoRecord(e) == [tcpi_rtt |-> e.rtt \div 1000, tcpi_rttvar |-> e.rttVar \div 1000]

-----------------------------------------------------------------------------
Key(c) == <<c.level, c.name>>

Init ==
  /\ \A k \in Keys : k = <<SOL_IP, IP_TTL>> => val[k] = DefaultTTL
  /\ lastError = NoError
  /\ groups = {}

\* A write through one covered key.
Write ==
  LET k == Key(call')
      b == call'.buf
      p == Policy(k, b, val[k])
  IN  /\ call'.op = "set"
      /\ k \in Keys
      /\ UNCHANGED <<lastError, groups, estimate>>
      /\ \/ /\ ret'.err = NoError
            /\ val'[k] \in p.reads
            /\ \A j \in Keys \ {k} : val'[j] = val[j]
         \/ /\ ret'.err = ErrInvalidOptionValue
            /\ p.reject
            /\ UNCHANGED val
         \/ /\ ret'.err = ErrEndpoint
            /\ UNCHANGED val

\* A membership add or drop.
Member ==
  LET k == Key(call')
      b == call'.buf
  IN  /\ call'.op = "set"
      /\ k \in GroupKeys
      /\ UNCHANGED <<val, lastError, estimate>>
      /\ \/ /\ ret'.err = NoError
            /\ GroupValid(k, b)
            /\ groups' = IF Joins(k) THEN groups \cup {Group(k, b)}
                                     ELSE groups \ {Group(k, b)}
         \/ /\ ret'.err = ErrInvalidOptionValue
            /\ ~GroupValid(k, b)
            /\ UNCHANGED groups
         \/ /\ ret'.err = ErrEndpoint
            /\ UNCHANGED groups

\* A read of a covered key returns its value; SO_ERROR consumes the error.
Read ==
  LET k == Key(call')
  IN  /\ call'.op = "get"
      /\ UNCHANGED <<val, groups, estimate>>
      /\ \/ /\ k \in Keys
            /\ ret'.err \in {NoError, ErrEndpoint}
            /\ ret'.err = NoError => ret'.val = val[k]
            /\ UNCHANGED lastError
         \/ /\ k = <<SOL_SOCKET, SO_ERROR>>
            /\ ret' = [err |-> NoError,
                       val |-> IF lastError = NoError THEN 0 ELSE Errno(lastError)]
            /\ lastError' = NoError
         \/ /\ k \in InfoKeys
            /\ ret'.err \in {NoError, ErrEndpoint}
            /\ ret'.err = NoError => ret'.val = InfoRecord(estimate)
            /\ UNCHANGED lastError

\* Calls on keys the contract does not cover leave every covered key alone.
Other ==
  /\ \/ /\ call'.op = "set"
        /\ Key(call') \notin Keys \cup GroupKeys
        /\ UNCHANGED lastError
     \/ /\ call'.op = "get"
        /\ Key(call') \notin Keys \cup InfoKeys \cup {<<SOL_SOCKET, SO_ERROR>>}
        /\ UNCHANGED lastError
  /\ UNCHANGED <<val, groups, estimate>>

\* The stack posts an error or a new estimate; no covered key changes.
Stack ==
  /\ call'.op = "stack"
  /\ UNCHANGED <<val, groups>>

Next == Write \/ Member \/ Read \/ Other \/ Stack

Spec == Init /\ [][Next]_<<val, lastError, groups, estimate, call, ret>>
=============================================================================
