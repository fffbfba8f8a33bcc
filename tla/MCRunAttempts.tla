----------------------------- MODULE MCRunAttempts -----------------------------
\* Small instances of RunAttempts: one run, resumed up to MaxAttempts - 1 times.
EXTENDS RunAttempts, TLC

CONSTANTS ReadTool, ShellTool

MCTools == {ReadTool, ShellTool}
MCWhitelist == {ReadTool}

Answers(finish, prefixed, rest, costs) ==
  {[finish |-> finish, content |-> [prefixed |-> prefixed, rest |-> rest], tokens |-> n] :
     n \in costs}

\* An answer, a tool call, and a rejected tool call that interrupts the run.
MCReplies ==
  Answers("stop", FALSE, NoTool, {1})
  \cup Answers("tool_use", TRUE, ReadTool, {1, 3})
  \cup Answers("tool_use", TRUE, ShellTool, {0})

MCWirings ==
  {[registry |-> TRUE, sanitizer |-> TRUE, session |-> TRUE, tracer |-> FALSE, resume |-> FALSE]}
=============================================================================
