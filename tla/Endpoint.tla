------------------------------ MODULE Endpoint ------------------------------
(***************************************************************************)
(* The protocol engine's endpoint (tcpip.Endpoint), the external           *)
(* collaborator that socket_conv.go borrows for one call: its option       *)
(* slots, its GetSockOpt/SetSockOpt interface, and the asynchronous events *)
(* of the stack that change slots behind the layer's back (a socket error, *)
(* a new RTT estimate).  This module is the environment of the layer, at   *)
(* the interface spec.md section 3 and 6 gives it; it models no code of    *)
(* the repository.                                                         *)
(*                                                                         *)
(* The caller's side of a call is recorded as in an API model: call holds  *)
(* the operation and its arguments, ret the result.                        *)
(***************************************************************************)
EXTENDS SockOptCodec

CONSTANTS
  NetProto,        \* network protocol number of the socket (fixed per socket)
  TransProto,      \* transport protocol number of the socket
  EndpointFaults,  \* TRUE: any endpoint get/set call may fail
  AsyncErrors,     \* errors the stack may post to the endpoint
  RttSamples       \* <<rtt, rttvar>> pairs in nanoseconds the stack may estimate

ASSUME EndpointFaults \in BOOLEAN
ASSUME \A r \in RttSamples : r[1] \in 0..MaxInt32 /\ r[2] \in 0..MaxInt32

VARIABLES ep, call, ret

\* tcpipErrorToCode for the errors the stack posts: their errno values.
ErrnoOf == [ErrConnectionRefused |-> 111, ErrTimeout |-> 110,
            ErrConnectionReset |-> 104]
ASSUME AsyncErrors \subseteq DOMAIN ErrnoOf

tcpipErrorToCode(e) == ErrnoOf[e]

Bytes == 0..255
Int32 == MinInt32..MaxInt32
Duration == [sec : Int32, nsec : 0..999999999]
MembershipOption == [nic : Int32, maddr : Seq(Bytes), iaddr : Seq(Bytes)]

(***************************************************************************)
(* A fresh socket's endpoint.  ttl 0 is the stack's "use the default"      *)
(* sentinel; buffer sizes and keepalive timers are the stack's defaults.   *)
(***************************************************************************)
EpInit ==
  ep = [sndbuf |-> 212992, rcvbuf |-> 212992,
        reuseAddr |-> 0, reusePort |-> 0, broadcast |-> 0, passcred |-> 0,
        keepaliveEnabled |-> 0, oobInline |-> 0, bindToDevice |-> <<>>,
        lastError |-> NoError,
        delay |-> 1, cork |-> 0, quickAck |-> 1, keepCount |-> 9,
        keepIdle |-> [sec |-> 7200, nsec |-> 0],
        keepIntvl |-> [sec |-> 75, nsec |-> 0],
        rtt |-> 0, rttVar |-> 0,
        v6Only |-> 0, tclass |-> 0,
        ttl |-> 0, mcastTTL |-> 1, mcastLoop |-> TRUE, tos |-> 0,
        mcastIf |-> [nic |-> 0, iaddr |-> <<>>],
        memberships |-> {}]

NoCall == [op |-> "none", level |-> -1, name |-> -1, buf |-> <<>>]
NoRet == [err |-> NoError, val |-> Nil]

Init ==
  /\ EpInit
  /\ call = NoCall
  /\ ret = NoRet

EpTypeOK ==
  ep \in [sndbuf : Int32, rcvbuf : Int32, reuseAddr : Int32, reusePort : Int32,
          broadcast : Int32, passcred : Int32, keepaliveEnabled : Int32,
          oobInline : Int32, bindToDevice : Seq(1..255),
          lastError : {NoError} \cup AsyncErrors,
          delay : {0, 1}, cork : Int32, quickAck : Int32, keepCount : Int32,
          keepIdle : Duration, keepIntvl : Duration,
          rtt : Nat, rttVar : Nat,
          v6Only : Int32, tclass : 0..255,
          ttl : 0..255, mcastTTL : 0..255, mcastLoop : BOOLEAN, tos : 0..255,
          mcastIf : [nic : Int32, iaddr : Seq(Bytes)],
          memberships : SUBSET MembershipOption]

(***************************************************************************)
(* Results of the layer, and the endpoint calls it makes.                  *)
(***************************************************************************)
Ok(v) == [err |-> NoError, val |-> v]
Err(e) == [err |-> e, val |-> Nil]

Reply(r) == ret' = r /\ UNCHANGED ep
Fail(e) == Reply(Err(e))

\* An endpoint call failing: the layer returns its error and the endpoint
\* is left as it was.
EpFails == EndpointFaults /\ Fail(ErrEndpoint)

\* ep.SetSockOpt(opt) / ep.SetSockOptInt(opt, v): store v in the slot, or
\* fail and leave the endpoint as it was.  The layer returns its error.
EpSet(slot, v) ==
  \/ /\ ep' = [ep EXCEPT ![slot] = v]
     /\ ret' = NoRet
  \/ EpFails

\* AddMembershipOption / RemoveMembershipOption.
EpAddMembership(o) ==
  \/ /\ ep' = [ep EXCEPT !.memberships = @ \cup {o}]
     /\ ret' = NoRet
  \/ EpFails

EpRemoveMembership(o) ==
  \/ /\ ep' = [ep EXCEPT !.memberships = @ \ {o}]
     /\ ret' = NoRet
  \/ EpFails

(***************************************************************************)
(* The stack, concurrently with the caller.                                *)
(***************************************************************************)
EnvCall == [op |-> "stack", level |-> -1, name |-> -1, buf |-> <<>>]

\* A connection error is recorded for SO_ERROR to report.
AsyncError(e) ==
  /\ ep' = [ep EXCEPT !.lastError = e]
  /\ call' = EnvCall
  /\ ret' = NoRet

\* A new round-trip-time estimate.
RttSample(r) ==
  /\ ep' = [ep EXCEPT !.rtt = r[1], !.rttVar = r[2]]
  /\ call' = EnvCall
  /\ ret' = NoRet

Stack ==
  \/ \E e \in AsyncErrors : AsyncError(e)
  \/ \E r \in RttSamples : RttSample(r)
=============================================================================
