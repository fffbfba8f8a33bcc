----------------------------- MODULE MCAgentRunner -----------------------------
\* Small instances of AgentRunner.
EXTENDS AgentRunner, HttpGateway, TLC

CONSTANTS ReadTool, ShellTool

MCTools == {ReadTool, ShellTool}
MCWhitelist == {ReadTool}

Says(prefixed, rest) == [prefixed |-> prefixed, rest |-> rest]
Text == Says(FALSE, NoTool)

\* A response with one choice, and one that cannot be mapped.
Answers(finish, content, usages) ==
  {Response(TRUE, Body(Value(<<Choice(finish, Value(content))>>), u)) : u \in usages}
OneChoice == Value(<<Choice(Value("stop"), Value(Text))>>)
Broken ==
  {Unreachable, Response(FALSE, Body(OneChoice, Missing)),
   Response(TRUE, Body(Missing, Missing)), Response(TRUE, Body(Value(<<>>), Missing)),
   Response(TRUE, Body(Value(<<Choice(Value("stop"), Null)>>), Missing)),
   Response(TRUE, Body(OneChoice, Null)),
   Response(TRUE, Body(OneChoice, Usage(Null, Value(1))))}

One == Usage(Value(1), Missing)
Two == Usage(Value(1), Value(1))
Four == Usage(Value(3), Value(1))

\* Answers, allowed and forbidden tools, a tool_use that names no tool, and a
\* finish reason the runner does not know; free, cheap and ruinous replies.
MCExchanges ==
  Broken
  \cup Answers(Value("stop"), Text, {One, Four})
  \cup Answers(Null, Says(TRUE, ShellTool), {Missing})
  \cup Answers(Value("tool_use"), Says(TRUE, ReadTool), {Usage(Value(0), Value(0)), One, Four})
  \cup Answers(Value("tool_use"), Says(TRUE, ShellTool), {One})
  \cup Answers(Value("tool_use"), Says(FALSE, ShellTool), {Two})
  \cup Answers(Value("tool_use"), Says(TRUE, NoTool), {One})
  \cup Answers(Value("other"), Says(TRUE, ShellTool), {One})
MCReplies == ChatReplies(MCExchanges)

\* A client other than the HTTP one may also time out with a TimeoutError.
MCChatErrors == ChatFailures(MCExchanges) \cup {"timeout"}

\* Fewer replies, for the runs where the clock matters.
TimedReplies ==
  {MockReply(Text, 0, 0)}
  \cup ChatReplies(Answers(Value("tool_use"), Says(TRUE, ReadTool), {One, Two})
                   \cup Answers(Value("tool_use"), Says(TRUE, ShellTool), {One}))

\* Every collaborator, and each one left out in turn.
Full == [registry |-> TRUE, sanitizer |-> TRUE, session |-> TRUE, tracer |-> TRUE, resume |-> FALSE]
MCWirings ==
  {Full, [Full EXCEPT !.registry = FALSE], [Full EXCEPT !.sanitizer = FALSE],
   [Full EXCEPT !.session = FALSE], [Full EXCEPT !.tracer = FALSE],
   [Full EXCEPT !.resume = TRUE]}
FreshOnly == {Full}

\* What a resumed run may find: nothing, the row the service creates, a run
\* that an error interrupted after a tool step, and one that was capped.
Toll == [finish |-> "tool_use", content |-> Says(TRUE, ReadTool), tokens |-> 1]
MCPriors ==
  {[row |-> NoRow, steps |-> <<>>],
   [row |-> [status |-> "created", tokens_used |-> 0, ended_at |-> "null"], steps |-> <<>>],
   [row |-> [status |-> "running", tokens_used |-> 0, ended_at |-> "null"],
    steps |-> <<LlmStep(0, Toll), ToolStep(1, ReadTool)>>],
   [row |-> [status |-> "capped", tokens_used |-> 5, ended_at |-> "set"],
    steps |-> <<LlmStep(0, Toll)>>]}
=============================================================================
