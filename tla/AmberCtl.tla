------------------------------ MODULE AmberCtl ------------------------------
(***************************************************************************)
(* main() of src/go/src/amber/cmd/ctl/amber-control.go: argument checks,   *)
(* flag parsing, connecting to the amber daemon, the command switch and,   *)
(* for "get_up" without -nowait, the loop that waits on the reply channel  *)
(* the daemon hands back.  The daemon is the environment: it may reply     *)
(* with a blob id, raise ZXSIO_DAEMON_ERROR and then write an error text,  *)
(* close its end at any point, or never answer.                            *)
(*                                                                         *)
(* zxwait.Wait returns the channel's observed signals and either no error  *)
(* or ErrTimedOut after the 3-second deadline.  TimeoutSeesSignals says    *)
(* whether a wait that times out may observe signals asserted at the       *)
(* deadline (the kernel reads the signal state after the timer fired).     *)
(***************************************************************************)
EXTENDS Integers, Sequences

CONSTANTS
  Commands,            \* values os.Args[1] may take
  NoCommand,           \* model value: os.Args has no command at all
  PkgNames,            \* -n values, as sequences of characters
  PkgVersions,         \* -v values
  MsgSizes,            \* byte lengths of the daemon's reply message
  TimeoutSeesSignals   \* a timed-out wait may report signals raised at the deadline

VARIABLES
  pc,         \* where main() is
  args,       \* the command line
  request,    \* the package name sent to GetUpdateComplete / GetUpdate
  daemonErr,  \* the loop's daemonErr
  sigs,       \* the loop's sigs
  werr,       \* the loop's err from the last wait: "ok" or "timedOut"
  report,     \* the last result main() printed
  received,   \* the message c.Read took off the channel
  exitCode,   \* the process's exit status once pc = "done"
  chan,       \* the reply channel: daemon-error signal, queued message, peer closed
  daemon      \* the daemon's progress on the update request

vars == <<pc, args, request, daemonErr, sigs, werr, report, received, exitCode,
          chan, daemon>>

Signals == {"PeerClosed", "Readable", "DaemonError"}

\* The masks of the two zxwait.Wait calls in the loop.
Wait1Mask == {"PeerClosed", "Readable", "DaemonError"}
Wait2Mask == {"PeerClosed", "Readable"}

\* b := make([]byte, 1024)
ReadBufSize == 1024

UnsupportedCommands == {"add_src", "rm_src", "list_srcs", "check"}

NoMsg == [kind |-> "none", size |-> 0]
Msgs == [kind : {"blob", "error"}, size : MsgSizes]

FreshChan == [errSignal |-> FALSE, msg |-> NoMsg, peerClosed |-> FALSE]

\* The signals asserted on the CLI's end of the channel.
Observed(c) ==
  {s \in Signals : \/ s = "PeerClosed" /\ c.peerClosed
                   \/ s = "Readable" /\ c.msg # NoMsg
                   \/ s = "DaemonError" /\ c.errSignal}

\* The package name get_up sends: a leading "/" is added when the name does
\* not start with one, an empty version becomes "0", and the two are joined
\* with "/".
RequestName(name, version) ==
  LET n == IF Len(name) > 0 /\ name[1] = "/" THEN name ELSE <<"/">> \o name
      v == IF version = <<>> THEN <<"0">> ELSE version
  IN  n \o <<"/">> \o v

Init ==
  /\ pc = "start"
  /\ args \in [cmd : Commands \cup {NoCommand}, flagsOK : BOOLEAN,
               noWait : BOOLEAN, name : PkgNames, version : PkgVersions]
  /\ request = <<>>
  /\ daemonErr = FALSE
  /\ sigs = {}
  /\ werr = "ok"
  /\ report = "none"
  /\ received = NoMsg
  /\ exitCode = 0
  /\ chan = FreshChan
  /\ daemon = "idle"

Exit(code) == pc' = "done" /\ exitCode' = code

\* Steps of main() that leave the channel, the daemon and the loop alone.
MainStep == UNCHANGED <<args, daemonErr, sigs, werr, received, chan, daemon>>

-----------------------------------------------------------------------------
(* main() up to the command switch. *)

Start ==
  /\ pc = "start"
  /\ \/ args.cmd = NoCommand /\ report' = "usage" /\ Exit(-1)
     \/ args.cmd # NoCommand /\ pc' = "parse" /\ UNCHANGED <<report, exitCode>>
  /\ UNCHANGED request
  /\ MainStep

\* fs.Parse with flag.ExitOnError exits with status 2 on a bad flag.
Parse ==
  /\ pc = "parse"
  /\ \/ ~args.flagsOK /\ report' = "usage" /\ Exit(2)
     \/ args.flagsOK /\ pc' = "connect" /\ UNCHANGED <<report, exitCode>>
  /\ UNCHANGED request
  /\ MainStep

\* connect: NewControlInterfaceRequest may fail, and connect panics (exit 2).
Connect ==
  /\ pc = "connect"
  /\ \/ report' = "panic" /\ Exit(2)
     \/ pc' = "dispatch" /\ UNCHANGED <<report, exitCode>>
  /\ UNCHANGED request
  /\ MainStep

-----------------------------------------------------------------------------
(* The command switch.  Each RPC either succeeds or returns an error. *)

GetUpNoWait ==
  /\ pc = "dispatch" /\ args.cmd = "get_up" /\ args.noWait
  /\ request' = RequestName(args.name, args.version)
  /\ \E ok \in BOOLEAN : report' = IF ok THEN "started" ELSE "rpcError"
  /\ pc' = "close"
  /\ UNCHANGED exitCode
  /\ MainStep

\* GetUpdateComplete hands back the reply channel; the loop waits on it.
GetUpComplete ==
  /\ pc = "dispatch" /\ args.cmd = "get_up" /\ ~args.noWait
  /\ request' = RequestName(args.name, args.version)
  /\ pc' = "wait1"
  /\ chan' = FreshChan
  /\ daemon' = "working"
  /\ UNCHANGED <<args, daemonErr, sigs, werr, report, received, exitCode>>

\* GetUpdateComplete fails: "Error requesting update" and no wait.
GetUpRequestFailed ==
  /\ pc = "dispatch" /\ args.cmd = "get_up" /\ ~args.noWait
  /\ request' = RequestName(args.name, args.version)
  /\ report' = "rpcError"
  /\ pc' = "close"
  /\ UNCHANGED exitCode
  /\ MainStep

\* get_blob: one RPC, its error printed.
GetBlob ==
  /\ pc = "dispatch" /\ args.cmd = "get_blob"
  /\ \E ok \in BOOLEAN : report' = IF ok THEN "rpcDone" ELSE "rpcError"
  /\ pc' = "close"
  /\ UNCHANGED <<request, exitCode>>
  /\ MainStep

\* test: doTest sends DoTest(42) and prints the response or the error.
Test ==
  /\ pc = "dispatch" /\ args.cmd = "test"
  /\ \E ok \in BOOLEAN : report' = IF ok THEN "rpcDone" ELSE "rpcError"
  /\ pc' = "close"
  /\ UNCHANGED <<request, exitCode>>
  /\ MainStep

Unsupported ==
  /\ pc = "dispatch" /\ args.cmd \in UnsupportedCommands
  /\ report' = "unsupported"
  /\ pc' = "close"
  /\ UNCHANGED <<request, exitCode>>
  /\ MainStep

Unrecognised ==
  /\ pc = "dispatch"
  /\ args.cmd \notin {"get_up", "get_blob", "test"} \cup UnsupportedCommands
  /\ report' = "usage"
  /\ Exit(-1)
  /\ UNCHANGED request
  /\ MainStep

\* proxy.Close(), then the deferred c.Close(); main returns (status 0).
Close ==
  /\ pc = "close"
  /\ Exit(0)
  /\ UNCHANGED <<request, report>>
  /\ MainStep

-----------------------------------------------------------------------------
(* The wait loop of get_up. *)

\* zxwait.Wait(handle, mask, deadline): returns at once with no error when a
\* signal of the mask is asserted, otherwise times out; either way it
\* reports the signals observed on the channel.
Wait(mask) ==
  /\ sigs' = Observed(chan)
  /\ \/ Observed(chan) \cap mask # {} /\ werr' = "ok"
     \/ (Observed(chan) \cap mask = {} \/ TimeoutSeesSignals) /\ werr' = "timedOut"

\* Fault variant: the daemon-error signal is never taken into account.
DaemonErrSeenIgnoringSignal(prev, e, s) == prev

\* daemonErr = daemonErr || err == nil && sigs&ZXSIO_DAEMON_ERROR != 0
DaemonErrSeen(prev, e, s) == prev \/ (e = "ok" /\ "DaemonError" \in s)

\* Fault variant: a closed peer is checked before a readable message.
OutcomeClosedFirst(s, e) ==
  CASE "PeerClosed" \in s -> "closed"
    [] "Readable" \in s -> "read"
    [] e \notin {"ok", "timedOut"} -> "failed"
    [] OTHER -> "retry"

\* Fault variant: a closed peer is not noticed.
OutcomeIgnoringClosed(s, e) ==
  CASE "Readable" \in s -> "read"
    [] e \notin {"ok", "timedOut"} -> "failed"
    [] OTHER -> "retry"

\* Fault variant: the "Status != ErrTimedOut" test dropped, so any wait
\* error, a timeout included, ends the loop.
OutcomeTimeoutFails(s, e) ==
  CASE "Readable" \in s -> "read"
    [] "PeerClosed" \in s -> "closed"
    [] e # "ok" -> "failed"
    [] OTHER -> "retry"

\* The if-chain after the waits: read a readable message, else give up on a
\* closed peer or a wait error other than a timeout, else go round again.
Outcome(s, e) ==
  CASE "Readable" \in s -> "read"
    [] "PeerClosed" \in s -> "closed"
    [] e \notin {"ok", "timedOut"} -> "failed"
    [] OTHER -> "retry"

LoopStep == UNCHANGED <<args, request, report, received, exitCode, chan, daemon>>

Wait1 ==
  /\ pc = "wait1"
  /\ Wait(Wait1Mask)
  /\ daemonErr' = DaemonErrSeen(daemonErr, werr', sigs')
  /\ pc' = IF daemonErr' THEN "wait2" ELSE "check"
  /\ LoopStep

Wait2 ==
  /\ pc = "wait2"
  /\ Wait(Wait2Mask)
  /\ pc' = "check"
  /\ UNCHANGED daemonErr
  /\ LoopStep

\* c.Read into the 1024-byte buffer: a longer message fails with
\* ErrBufferTooSmall and stays queued; otherwise it is taken and printed,
\* as the daemon's error text when daemonErr is set, else as a blob id.
ReadReply ==
  \/ /\ chan.msg.size > ReadBufSize
     /\ report' = "readError"
     /\ UNCHANGED <<received, chan>>
  \/ /\ chan.msg.size <= ReadBufSize
     /\ received' = chan.msg
     /\ chan' = [chan EXCEPT !.msg = NoMsg]
     /\ report' = IF daemonErr THEN "daemonError" ELSE "wrote"

Check ==
  /\ pc = "check"
  /\ LET o == Outcome(sigs, werr) IN
       \/ /\ o = "read"
          /\ ReadReply
          /\ pc' = "close"
       \/ /\ o \in {"closed", "failed"}
          /\ report' = o
          /\ pc' = "close"
          /\ UNCHANGED <<received, chan>>
       \/ /\ o = "retry"
          /\ pc' = "wait1"
          /\ UNCHANGED <<report, received, chan>>
  /\ UNCHANGED <<args, request, daemonErr, sigs, werr, exitCode, daemon>>

-----------------------------------------------------------------------------
(* The daemon, serving the GetUpdateComplete request. *)

DaemonStep == UNCHANGED <<pc, args, request, daemonErr, sigs, werr, report,
                          received, exitCode>>

DaemonReply ==
  /\ daemon = "working"
  /\ \E n \in MsgSizes : chan' = [chan EXCEPT !.msg = [kind |-> "blob", size |-> n]]
  /\ daemon' = "replied"
  /\ DaemonStep

\* The daemon raises ZXSIO_DAEMON_ERROR first, then writes the error text.
DaemonSignalError ==
  /\ daemon = "working"
  /\ chan' = [chan EXCEPT !.errSignal = TRUE]
  /\ daemon' = "failing"
  /\ DaemonStep

DaemonSendError ==
  /\ daemon = "failing"
  /\ \E n \in MsgSizes : chan' = [chan EXCEPT !.msg = [kind |-> "error", size |-> n]]
  /\ daemon' = "replied"
  /\ DaemonStep

\* The daemon drops its end of the channel, after replying or not at all.
DaemonClose ==
  /\ daemon \in {"working", "failing", "replied"}
  /\ chan' = [chan EXCEPT !.peerClosed = TRUE]
  /\ daemon' = "closed"
  /\ DaemonStep

-----------------------------------------------------------------------------
CLI == Start \/ Parse \/ Connect \/ GetUpNoWait \/ GetUpComplete \/ GetUpRequestFailed
       \/ GetBlob \/ Test
       \/ Unsupported \/ Unrecognised \/ Wait1 \/ Wait2 \/ Check \/ Close

Daemon == DaemonReply \/ DaemonSignalError \/ DaemonSendError \/ DaemonClose

Next == CLI \/ Daemon

\* The CLI is one goroutine that runs whenever it can; every wait returns
\* by its deadline.  The daemon is not assumed to answer.
Spec == Init /\ [][Next]_vars /\ WF_vars(CLI)

-----------------------------------------------------------------------------
\* The get_up loop prints a message as "Wrote update to blob ..." only when
\* the daemon sent a blob id, and prints it as the daemon's error only when
\* the daemon sent an error text (the daemonErr flag of the loop must match
\* what the daemon did).
ReportsMatchReply ==
  /\ report = "wrote" => received.kind = "blob"
  /\ report = "daemonError" => received.kind = "error"

\* The loop reports "response channel closed unexpectedly" only when the
\* daemon closed without leaving a reply: a reply written before the close
\* is always read first.
NoReplyReportedClosed == report = "closed" => chan.msg = NoMsg

\* A timed-out wait only prints "Awaiting response..." and goes round
\* again: once get_up has handed the request to the daemon, amber_ctl
\* leaves the wait loop only after the daemon has written its reply or
\* closed its end, never while the daemon is still working or has only
\* raised its error signal.
WaitsUntilAnswered ==
  daemon # "idle" /\ pc \in {"close", "done"} => daemon \in {"replied", "closed"}

\* Once the daemon has replied or closed its end, get_up stops waiting and
\* the process exits.
AnsweredWaitEnds == (daemon \in {"replied", "closed"}) ~> (pc = "done")
=============================================================================
