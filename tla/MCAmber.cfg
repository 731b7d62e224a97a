CONSTANTS
  Commands <- MCCommands
  NoCommand = NoCommand
  PkgNames <- MCPkgNames
  PkgVersions <- MCPkgVersions
  MsgSizes <- MCMsgSizes
  TimeoutSeesSignals = FALSE

SPECIFICATION Spec

CHECK_DEADLOCK FALSE

INVARIANT ReportsMatchReply
INVARIANT WaitsUntilAnswered
INVARIANT NoReplyReportedClosed

PROPERTY AnsweredWaitEnds
