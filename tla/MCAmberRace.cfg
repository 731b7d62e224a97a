CONSTANTS
  Commands <- MCCommands
  NoCommand = NoCommand
  PkgNames <- MCPkgNames
  PkgVersions <- MCPkgVersions
  MsgSizes <- MCMsgSizes
  TimeoutSeesSignals = TRUE

SPECIFICATION Spec

CHECK_DEADLOCK FALSE

INVARIANT ReportsMatchReply
