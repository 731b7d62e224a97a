------------------------------ MODULE TCPLevel ------------------------------
(***************************************************************************)
(* SOL_TCP options: getSockOptTCP and setSockOptTCP of socket_conv.go.     *)
(* TCP_NODELAY is the inverse of the endpoint's delay flag; keepalive idle *)
(* and interval are durations read and written in whole seconds.           *)
(***************************************************************************)
EXTENDS Endpoint

\* Options read and written as a plain integer slot.
TCPIntSlot ==
  (TCP_CORK :> "cork") @@ (TCP_QUICKACK :> "quickAck") @@ (TCP_KEEPCNT :> "keepCount")

\* Options whose slot is a time.Duration, exchanged in seconds.
TCPDurationSlot == (TCP_KEEPIDLE :> "keepIdle") @@ (TCP_KEEPINTVL :> "keepIntvl")

\* Fault variant: the two fields filled from each other's duration.
TCPInfoSwapped(rtt, rttVar) == [tcpi_rtt |-> rttVar \div 1000, tcpi_rttvar |-> rtt \div 1000]

\* struct tcp_info with tcpi_rtt and tcpi_rttvar in microseconds: the
\* Nanoseconds() / 1000 of each duration, converted to a C uint.
TCPInfo(rtt, rttVar) == [tcpi_rtt |-> rtt \div 1000, tcpi_rttvar |-> rttVar \div 1000]

\* Fault variant: the getter returns the delay flag itself.
DelayToNoDelayUninverted(v) == v

\* TCP_NODELAY read: 1 when the endpoint does not delay, else 0.
DelayToNoDelay(v) == IF v = 0 THEN 1 ELSE 0

\* TCP_NODELAY write: a zero caller value enables delay, anything else
\* disables it.
NoDelayToDelay(v) == IF v = 0 THEN 1 ELSE 0

TCPGet(name) ==
  CASE name = TCP_NODELAY -> Ok(DelayToNoDelay(ep.delay))
    [] name \in DOMAIN TCPIntSlot -> Ok(ep[TCPIntSlot[name]])
    [] name \in DOMAIN TCPDurationSlot -> Ok(DurationSeconds(ep[TCPDurationSlot[name]]))
    [] name = TCP_INFO -> Ok(TCPInfo(ep.rtt, ep.rttVar))
    [] OTHER -> Err(ErrUnknownProtocolOption)

TCPGetNames == {TCP_NODELAY, TCP_INFO} \cup DOMAIN TCPIntSlot \cup DOMAIN TCPDurationSlot

getSockOptTCP(name) ==
  \/ Reply(TCPGet(name))
  \/ /\ name \in TCPGetNames
     /\ EpFails

TCPSetNames == {TCP_NODELAY} \cup DOMAIN TCPIntSlot \cup DOMAIN TCPDurationSlot

setSockOptTCP(name, optVal) ==
  LET v == LittleEndianUint32(optVal) IN
  \/ /\ name \in TCPSetNames
     /\ Len(optVal) < sizeOfInt32
     /\ Fail(ErrInvalidOptionValue)
  \/ /\ name = TCP_NODELAY
     /\ Len(optVal) >= sizeOfInt32
     /\ EpSet("delay", NoDelayToDelay(v))
  \/ /\ name \in DOMAIN TCPIntSlot
     /\ Len(optVal) >= sizeOfInt32
     /\ EpSet(TCPIntSlot[name], v)
  \/ /\ name \in DOMAIN TCPDurationSlot
     /\ Len(optVal) >= sizeOfInt32
     /\ EpSet(TCPDurationSlot[name], SecondsDuration(v))
  \/ /\ name \notin TCPSetNames
     /\ Fail(ErrUnknownProtocolOption)
=============================================================================
