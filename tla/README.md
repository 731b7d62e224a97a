# Model checking the netstack socket-option translation layer

This directory holds TLA+ models of
`src/src/connectivity/network/netstack/socket_conv.go`. That file is the
layer that turns POSIX `getsockopt`/`setsockopt` calls (a level, an option
name and a raw byte buffer) into typed option reads and writes on a
gvisor `tcpip.Endpoint`. It also has TLC configurations that check the
models against the behaviour `spec.md` promises.

## 1. The system

### Parts and how they interact

| Part | Code | State / operations |
|---|---|---|
| Level dispatcher | `GetSockOpt` (52-77), `SetSockOpt` (403-427) | Stateless. Routes on the level to one of four handlers. SOL_UDP, SOL_ICMPV6, SOL_RAW and SOL_PACKET are recognised and then fall through. Any other level is logged and falls through too. |
| SOCKET handler | `getSockOptSocket` (79-212), `setSockOptSocket` (429-505) | Integer flags, the send and receive buffer sizes, bind-to-device, SO_ERROR (read-and-clear), SO_TYPE and SO_DOMAIN (from the socket's protocols), the zero `linger`, and unsupported timeouts and peer credentials. |
| TCP handler | `getSockOptTCP` (214-288), `setSockOptTCP` (508-570) | TCP_NODELAY is stored inverted as the delay flag. Cork, quick-ack and keepalive count are plain integers. Keepalive idle and interval are durations exchanged in seconds. TCP_INFO reports RTT in microseconds. |
| IP handler | `getSockOptIP` (342-401), `setSockOptIP` (693-854) | TTL with a 0 sentinel meaning "default 64"; multicast TTL, loop and interface; TOS; membership add/drop. The request layout (`in_addr`, `ip_mreq` or `ip_mreqn`) is chosen by buffer length. |
| IPv6 handler | `getSockOptIPv6` (290-340), `setSockOptIPv6` (573-675) | V6ONLY, traffic class, multicast hops, loop and interface, and membership add/drop. |
| Scalar codec | `parseIntOrChar` (677-690), `binary.LittleEndian`, `uint8(...)`/`int32(...)` conversions | Pure functions. |
| Endpoint | gvisor, not in this repository | The option slots. Any call may fail. The stack posts errors (read by SO_ERROR) and RTT samples at any time. |

There is one caller per call. `spec.md` §5 says the layer is synchronous and
holds no state across calls, and that concurrent callers are serialised by
the endpoint. The only state is the endpoint's, and the only concurrency is
between the caller and the stack, which changes the endpoint on its own.

Also in the repository, outside the socket layer:
- `src/go/src/amber/cmd/ctl/amber-control.go`, the `amber_ctl` CLI. It
  sends one FIDL request to the amber daemon. For `get_up` it then loops on
  a reply channel: it waits for the daemon's error signal, readable or
  peer-closed, with a 3-second deadline, then for readable or peer-closed,
  and then reads the reply. This is modelled by `AmberCtl` (§2a).
- `src/tools/integration/testsharder/postprocess_test.go`, a unit test.
  It is not modelled.

### What is hard here

Nothing in the layer is concurrent, but almost every option has a policy
that transforms a value on its way in or out. Several options also share
endpoint state, so a bug shows up only after a particular sequence of
calls. The hazards are listed with their source lines in
`PROJECT.json` "hazards":

- Width and sentinel edges: a buffer size above MaxInt32 must saturate.
  Keepalive wraps at 2^31. TTL maps -1 to 0 to 64. Multicast TTL and hops
  map -1 to 1. TCLASS maps -1 to 0. TOS is narrowed to 8 bits.
- Inversions and terminators: NODELAY is stored inverted. A device name is
  cut at its first NUL and given one NUL back on read.
- Length-based layout dispatch for IPv4 multicast requests.
- Endpoint options shared by the SOL_IP and SOL_IPV6 levels.
- The error kind for unknown levels.

## 2. Modules

| Module | Models | State and actions |
|---|---|---|
| `SockOptABI` | the C constants | Numeric levels, option names, record sizes, protocol numbers and error names. |
| `SockOptCodec` | the codec | Operators only: `LittleEndianUint32`, `parseIntOrChar`, `ToUint8`, `BindToDeviceName`/`Bytes`, the record decoders, and Duration in seconds. |
| `Endpoint` | the gvisor endpoint (environment) | `ep`, a record of option slots with gvisor's defaults, plus `call` and `ret`, the last call and its result. `EpSet` and `EpAddMembership` either apply or, when `EndpointFaults` is on, fail with `ErrEndpoint`. `Stack` posts an async error or an RTT sample. |
| `SocketLevel`, `TCPLevel`, `IPLevel`, `IPv6Level` | one handler each | `XGet(name)` is the value the getter computes. `getSockOptX` is the whole getter, including endpoint failure. `setSockOptX` is the whole setter: one disjunct per case and early return, in code order. |
| `SockOpt` | the dispatcher, composing the four handlers | `GetSockOpt` and `SetSockOpt` are the actions. The caller issues any call from the run's sets `GetKeys` and `SetInputs`. The module also holds the properties. |
| `OptionStore` | the abstract contract, from `spec.md` §4, §7 and §8 | Each key is an independent value. A write either changes its own key to what the option's policy gives, or fails and changes nothing. SO_ERROR hands over the pending error once. |
| `MCSockOpt` | model values | Buffer sets and key sets for each run. |
| `LinkLocal`, `MCLinkLocal` | `isLinkLocal` (859-861) | `isLinkLocal(a)` translates the function. A caller action `Query(a)` records an address and the answer, so that TLC compares the answer with `InLinkLocalPrefix`, a reference definition of fe80::/10 as the first ten bits of the address. |

How a Go value is represented:
- A `uint32` read from a buffer is held as the int32 with the same bits,
  because TLC's integers are 32-bit. `v > math.MaxInt32` therefore becomes
  `v < 0`.
- A `time.Duration` is a `[sec, nsec]` record.
- A `[]byte` is a sequence of bytes.
- An address is a byte sequence. The empty sequence is the nil address.

What is assumed of gvisor:
- The endpoint stores what it is given.
- `MulticastTTLOption`, `TTLOption` and `IPv4TOSOption` are `uint8`, as in
  gvisor of this period. `NICID` is int32.
- IPv4 and IPv6 multicast options go to one shared `MulticastTTLOption`,
  `MulticastLoopOption` and `MulticastInterfaceOption` slot, which is what
  the code passes.
- `tcpipErrorToCode`, `isZeros` and the cgo-generated `Unmarshal` methods
  are outside `src/`. They are modelled from their documented behaviour:
  `Unmarshal` fails exactly when the buffer is shorter than the record.

## 2a. The amber_ctl CLI (`AmberCtl`, `MCAmberCtl`)

| Code | Model |
|---|---|
| `os.Args`, the flag set (51-63) | `args`, chosen in `Init` from `Commands`, `PkgNames`, `PkgVersions`, a flags-parse outcome and `-nowait` |
| `main` 84-120, 164-189 | `Start`, `Parse`, `Connect`, `GetUpNoWait`, `GetUpComplete`, `GetUpRequestFailed`, `GetBlob`, `Test`, `Unsupported`, `Unrecognised`, `Close`. `pc` is main's position, and `exitCode` is the status passed to `os.Exit` |
| name normalisation 95-107 | `RequestName` (modelled for completeness; no property reads `request`) |
| `zxwait.Wait` 124-126, 134-136 | `Wait(mask)` sets `sigs` and `werr` |
| `daemonErr` 127-132 | `DaemonErrSeen`, `daemonErr` |
| read and if-chain 139-162 | `ReadReply`, `Outcome`, `Check`; `report` is which message was printed and `received` is the message read |
| the daemon's end of the channel | `chan` (queued message and signals) and `daemon`, changed by `DaemonReply`, `DaemonSignalError`, `DaemonSendError` and `DaemonClose` |

A wait returns `ok` if a signal of its mask is already asserted, and
`timedOut` otherwise. The daemon may act at any time, including never, so
every interleaving of its steps with the CLI's waits is explored. A reply
is `blob` or `error`, of 64 or 2048 bytes. A 2048-byte reply overflows the
1024-byte buffer.

The constant `TimeoutSeesSignals` models one assumption about `zxwait.Wait`.
When it is TRUE, a wait that times out may report signals that were raised
at the deadline. Zircon's `object_wait_one` reads the observed signals
after the timer fires, so this can happen in the kernel. Whether the Go
`zxwait.Wait` of this period passed them on with `ErrTimedOut` is outside
this repository and is an assumption. The code's use of `sigs` after a
timed-out wait (line 139) suggests that its authors expected it.

Fairness: `Spec` has `WF_vars(CLI)` and no fairness for the daemon. The CLI
is a single goroutine, and every wait returns within its 3-second
deadline, so a CLI step that stays enabled is eventually taken. The daemon
is another process that may hang, so nothing is assumed of it.
`CHECK_DEADLOCK FALSE` is used because the CLI really exits.

The duplicate `else if err != nil` at lines 157-158 is dead code. The
"failed" outcome (line 154) needs a wait error other than a timeout, which
a valid handle never produces. `Outcome` keeps the branch, but it is not
reached.

## 3. Properties

- `TypeOK` (in `SockOpt`) is checked once, in socket_level. Beyond types,
  it says that a stored device name never contains a NUL. The other runs
  leave it out: there, the 8-bit and {0,1} slot ranges hold because of
  the conversions' own shape.
- `ImplementsOptionStore == Contract!Spec` is the main property. Through
  the refinement mapping, a key's abstract value is what its getter
  computes from the endpoint right now
  (`val <- [k \in ContractKeys |-> ReadValue(k)]`), and the contract's
  groups are the endpoint's memberships. The property therefore checks,
  over every sequence of calls and stack events, that:
  - every write changes only its own key's reading, to the value the
    spec's policy gives (TTL -1 reads 64, NODELAY reads 0/1, buffer sizes
    never read negative, and so on);
  - failed writes change nothing;
  - TCP_INFO reports the stack's latest RTT estimate and variance in whole
    microseconds (`spec.md` §4). The contract's `estimate` is mapped to
    the endpoint's `rtt` and `rttVar`. Only the stack's step may change
    it, so no get or set moves it. TCP_INFO is an info key of the contract,
    not a written option.
  Each run's `ContractKeys` selects the keys checked.

  Three parts of the refinement hold by construction and check little:
  - SO_ERROR's read-and-clear is one gvisor call (`socket_conv.go:106`).
    The model and the contract both take it as one atomic step, so "each
    error is reported once" cannot fail here.
  - The contract's TCP_INFO record uses the same division as `TCPInfo`.
    Only the order of the fields is really checked.
  - A read's `ret'.val = val[k]` is true by the mapping, because `val` is
    the getter's output. Values are checked in the state after a write.
- `UnknownLevelIsUnknownProtocol` is an action property: a get or a set
  at a level no dispatcher recognises returns `UnknownProtocol`.

The socket layer has no liveness property. Every call is a single
synchronous step that always returns, so there is nothing that must
eventually happen, and no fairness is assumed. `Next` is always enabled,
so deadlock checking stays on.

`AmberCtl` has these properties:
- `ReportsMatchReply`: "Wrote update to blob" is printed only for a blob
  reply, and the bare reply text (line 144) only for an error reply.
- `WaitsUntilAnswered`: once the request is with the daemon, `amber_ctl`
  leaves the wait loop only after the daemon has written its reply or
  closed its end. A timed-out wait only prints "Awaiting response..." and
  goes round again (lines 154-161).
- `NoReplyReportedClosed`: "channel closed unexpectedly" is never printed
  while a reply is still queued, so readable must be tested before
  peer-closed.
- `AnsweredWaitEnds`, a liveness property: once the daemon has replied or
  closed its end, `amber_ctl` finishes. This includes the case of a reply
  too long for the buffer. Nothing is claimed of a daemon that never
  answers: the loop has no overall deadline.

## 4. Runs

The socket runs use `MCSockOpt`. Every passing socket run has `EndpointFaults = TRUE`,
so every endpoint read or write may also fail.

| Run | cfg | Expect | Shows |
|---|---|---|---|
| socket_flags | MCSocketFlags.cfg | pass (about 75k) | SO_RCVBUF, SO_REUSEADDR, SO_BROADCAST, SO_PASSCRED and SO_KEEPALIVE, set to -1, 1 and a one-byte buffer, and SO_OOBINLINE, which has no setter. All five are contract keys together, so a case that names another case's option type makes two keys share a slot and breaks the refinement. |
| socket_level | MCSocket.cfg | pass (about 12k states) | SOL_SOCKET keys, plus gets and sets at SOL_UDP and at level 99. Two async errors interleave with SO_ERROR reads. |
| tcp_level | MCTCP.cfg | pass (about 215k) | All settable TCP keys with -1, 2^31, 1, a 1-byte and a 3-byte buffer, and TCP_INFO while the stack posts the RTT samples (1.5 µs, 0.5 µs) and (2 ms, 0.999 µs). |
| ip_level | MCIP.cfg | pass (about 224k) | TTL, multicast TTL, loop and interface, and membership groups. Int-or-char buffers are empty, 1-byte, -1, 0 and 256. Request buffers are 4, 7, 8 and 12 bytes. |
| ipv6_level | MCIPv6.cfg | pass (about 24k) | V6ONLY, TCLASS, hops, loop and interface, and 20-byte and 16-byte membership requests. |
| tos_truncation | MCTos.cfg | violation | `set(IP_TOS, 256)` reads back 0. |
| levels_alias | MCAlias.cfg | violation | A write at one IP level changes a reading at the other. |
| unknown_level_set | MCUnknownLevel.cfg | violation | A set at level 99 returns UnknownProtocolOption. |
| cross_level | MCCross.cfg | pass (about 18k) | One IPv6/UDP endpoint with all four levels. Option numbers 1 and 2 are used at SOCKET, TCP and IP, plus IPV6_V6ONLY, with buffers 0, -1 and a 1-byte buffer. The contract keys SO_REUSEADDR, TCP_NODELAY, IP_TTL and IPV6_V6ONLY are checked together, so a case routed to another level's handler breaks the refinement. |
| amber_get_up | MCAmber.cfg (`MCAmberCtl`) | pass (about 1.3k) | Commands get_up, get_blob, add_src, test and an unknown one. Names are empty, `p` and `/p`, versions empty and `2`. Reply sizes are 64 and 2048. Checks the four `AmberCtl` properties. |
| link_local | MCLinkLocal.cfg (`MCLinkLocal`) | pass (1,285 states) | `isLinkLocal` agrees with the ten-bit prefix fe80::/10 on the empty address, two one-byte addresses, every second byte after the first bytes 0x00, 0x7f, 0xfd, 0xfe and 0xff, and fe80::1 and ff02::1. |
| amber_timeout_race | MCAmberRace.cfg (`MCAmberCtl`) | violation | With `TimeoutSeesSignals = TRUE`, the daemon signals an error and writes the error text. The first wait then times out while observing both, so `daemonErr` stays false and the error is printed as a blob id. |

Why these bounds are enough:
- Each option's behaviour depends only on the buffer's length class
  (0, 1-3, 4, 8, 12 or 20 and above) and on the value's class: -1, 0, in
  range, 256, or top bit set.
- The buffer sets contain one representative of each class the code tells
  apart.
- Option slots are independent except through the aliases, so the runs are
  split by level to keep each run's product of slot values small. The
  alias run puts both levels' keys together.

Each passing property has a mutant in `PROJECT.json`, which TLC rejects:
- a device name that keeps its NUL;
- a buffer size without saturation;
- NODELAY not inverted on get;
- the TTL sentinel not mapped back to 64;
- hops -1 not translated;
- the SOL_IP case dispatched to the SOL_SOCKET setter (cross_level);
- SO_BROADCAST's case left naming SO_REUSEADDR's option (socket_flags);
- isLinkLocal's mask 0xc0 narrowed to 0x80 (link_local);
- `daemonErr` ignoring the daemon's signal;
- peer-closed tested before readable;
- peer-closed ignored, so the loop retries forever after a close;
- TCP_INFO's two fields filled from each other's duration (tcp_level);
- a timed-out wait treated as a failure, which ends the loop (amber_get_up).

For `link_local`, the second byte takes all 256 values, so every mask
width is told apart. The first bytes 0xfd and 0xff are 0xfe's
neighbours. The empty and one-byte addresses test the length guard.

The amber bounds cover every path of `main`. Each command class is
represented. The three names cover the with-slash, without-slash and
empty cases. The two sizes fall on each side of the 1024-byte buffer.
The daemon's four actions can interleave in every order with the CLI's
waits.

## 5. Findings

1. **IP_TOS is truncated** (`socket_conv.go:813`). There is no range
   check, and the value goes through an 8-bit conversion. `spec.md` §4.4
   says "direct pass-through".
2. **SOL_IP and SOL_IPV6 multicast options alias** (lines 607-609, 630,
   710). The spec presents them as separate options. It is a spec gap: the
   sharing may be intended, but nothing documents it.
3. **SetSockOpt returns UnknownProtocolOption for unknown levels** (line
   426). `GetSockOpt` returns UnknownProtocol, which is what `spec.md`
   §4.1, §7 and §8 require.

4. **amber_ctl can print a daemon error as a blob id**
   (`amber-control.go:131`), under the `zxwait` assumption of §2a.
   `daemonErr` is set only when the wait returned without error. The same
   wait's `sigs` are still acted on after `ErrTimedOut`, so the error text
   is read and printed as "Wrote update to blob". The comment at lines
   128-130 says the flag records whether the daemon signalled an error.
   Run: amber_timeout_race.

## 6. Not modelled

- The diagnostic `syslog` notices.
- gvisor's internal validation, for example buffer-size clamping. The
  endpoint is taken to store what it is given.
- `postprocess_test.go`, a unit test of a different tool. It has no state
  of its own to check.
- In `amber_ctl`, the FIDL transport and the text printed: the model keeps
  which result was printed, not its wording.

- Two callers on one endpoint. Every handler makes at most one endpoint
  call, and the endpoint serialises calls (`spec.md` §5). Two callers'
  calls therefore interleave only as whole calls, which is a sequence of
  calls from one caller. The runs already explore every such sequence,
  with the stack's events between them.
- `TCP_INFO`'s `C.uint` conversion of microseconds. It wraps only for an
  RTT above 2^32 µs (about 71 minutes), far beyond any RTT a TCP
  retransmission timer allows. The model bounds RTT samples to 2^31 ns,
  so `TCPInfo` divides and does not wrap.

## 7. Further work

- A larger `cross_level` instance with more option numbers per level.
- Properties for the two `amber_ctl` behaviours that have no contract to
  check against: an overall deadline, and the exit status of a failed
  request. `PROJECT.json` records the exit status as a hazard without a
  property.
