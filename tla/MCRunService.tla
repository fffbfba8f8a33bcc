----------------------------- MODULE MCRunService -----------------------------
\* Small instances of RunService.
EXTENDS RunService, TLC

CONSTANTS ReadTool, ShellTool

MCTools == {ReadTool, ShellTool}
MCWhitelist == {ReadTool}

Answers(finish, prefixed, rest, costs) ==
  {[finish |-> finish, content |-> [prefixed |-> prefixed, rest |-> rest], tokens |-> n] :
     n \in costs}

\* Two answers a client can tell apart, an allowed and a forbidden tool call.
MCReplies ==
  Answers("stop", FALSE, NoTool, {1})
  \cup Answers("stop", TRUE, ReadTool, {0})
  \cup Answers("tool_use", TRUE, ReadTool, {1, 3})
  \cup Answers("tool_use", TRUE, ShellTool, {1})

MCServiceWiring ==
  [registry |-> TRUE, sanitizer |-> TRUE, session |-> TRUE, tracer |-> FALSE, resume |-> TRUE]
MCWirings == {MCServiceWiring}
MCPriors == {Nothing}
=============================================================================
